------------------------------ MODULE MCBrokers ------------------------------
(***************************************************************************)
(* The brokers against the one contract of the port.  A behaviour has one  *)
(* broker, with as many invocations, tasks, queues and priorities as its   *)
(* peculiarities need; the variables of the others are left empty.         *)
(***************************************************************************)
EXTENDS BrokerEntries

CONSTANTS i1, i2, rt, rt2, pt, q1, q2, c1, c2

VARIABLES
    use,
    effect,                                                     \* all
    capped, queue, now, routings, permit, phase, woken, alarm,  \* in memory
    queued, queuedBy, leases, leasedBy, count, sequence,        \* Redis
    drawn, purge, strayed,
    free, reserved, txn,                                        \* PostgreSQL
    docs, sending, ids, doomed,                                 \* MongoDB
    ready, calls                                                \* RabbitMQ

memVars == <<capped, queue, now, permit, phase, woken, alarm>>
redisVars == <<queued, queuedBy, leases, leasedBy, count, sequence, drawn, purge, strayed>>
postgresVars == <<free, reserved, txn>>
mongoVars == <<docs, sending, doomed>>
rabbitVars == <<ready, calls>>
vars == <<use, effect, routings, ids, memVars, redisVars, postgresVars, mongoVars, rabbitVars>>

Clients == {c1, c2}
Anything == {"all", "rust", "python", rt, pt}

\* One worker that polls for anything, and two that go to sleep between polls.
MemUses == {
    Use("mem", {c1}, {i1}, {rt, pt, NoTask}, {q1}, {0}, 2, Anything),
    Use("mem", {c1}, {i1}, {rt}, {q1, q2}, {0, 1}, 2, {"rust"}),
    Use("mem", Clients, {i1}, {rt}, {q1}, {0}, 2, {"rust"})}

\* A limit of one row: two clients, two queues, or work without a task.
RedisUses == {
    Use("redis", Clients, {i1, i2}, {rt}, {q1}, {0}, 3, {"rust"}),
    Use("redis", Clients, {i1, i2}, {rt}, {q1, q2}, {0}, 2, {"rust"}),
    Use("redis", {c1}, {i1, i2}, {rt, NoTask}, {q1}, {0}, 3, {"all", "rust", rt})}

PostgresUses == {
    Use("postgres", Clients, {i1, i2}, {rt, NoTask}, {q1}, {0, 1}, 3, {"all", "rust", rt})}

MongoUses == {
    Use("mongo", Clients, {i1}, {rt, pt, NoTask}, {q1, q2}, {0, 1}, 2, Anything)}

RabbitUses == {
    Use("rabbit", Clients, {i1}, {rt, rt2}, {q1}, {0, 1}, 2, {"rust", rt, rt2})}

Mem == INSTANCE MemBroker WITH Uses <- MemUses, Workers <- Clients, MaxTime <- 2
Redis == INSTANCE RedisBroker WITH Uses <- RedisUses, MaxRows <- 1
Postgres == INSTANCE PostgresBroker WITH Uses <- PostgresUses, MaxRows <- 2
Mongo == INSTANCE MongoBroker WITH Uses <- MongoUses
Rabbit == INSTANCE RabbitBroker WITH Uses <- RabbitUses, Pollers <- Clients

NoMem ==
    /\ capped = {} /\ queue = {} /\ now = {} /\ permit = {} /\ phase = {} /\ woken = {} /\ alarm = {}
NoRedis ==
    /\ queued = {} /\ queuedBy = {} /\ leases = {} /\ leasedBy = {} /\ count = {} /\ sequence = {}
    /\ drawn = {} /\ purge = {} /\ strayed = FALSE
NoPostgres == free = {} /\ reserved = {} /\ txn = {}
NoMongo == docs = {} /\ sending = {} /\ doomed = {}
NoRabbit == ready = {} /\ calls = {}

Init ==
    \/ Mem!Init /\ ids = {} /\ NoRedis /\ NoPostgres /\ NoMongo /\ NoRabbit
    \/ Redis!Init /\ ids = {} /\ NoMem /\ NoPostgres /\ NoMongo /\ NoRabbit
    \/ Postgres!Init /\ routings = {} /\ NoMem /\ NoRedis /\ NoMongo /\ NoRabbit
    \/ Mongo!Init /\ routings = {} /\ NoMem /\ NoRedis /\ NoPostgres /\ NoRabbit
    \/ Rabbit!Init /\ ids = {} /\ NoMem /\ NoRedis /\ NoPostgres /\ NoMongo

Is(backend) == use.backend = backend

notMem == <<ids, redisVars, postgresVars, mongoVars, rabbitVars>>
notRabbit == <<ids, memVars, redisVars, postgresVars, mongoVars>>

Next ==
    \/ Is("mem") /\ Mem!Next /\ UNCHANGED notMem
    \/ Is("redis") /\ Redis!Next
       /\ UNCHANGED <<ids, memVars, postgresVars, mongoVars, rabbitVars>>
    \/ Is("postgres") /\ Postgres!Next
       /\ UNCHANGED <<routings, memVars, redisVars, mongoVars, rabbitVars>>
    \/ Is("mongo") /\ Mongo!Next
       /\ UNCHANGED <<routings, memVars, redisVars, postgresVars, rabbitVars>>
    \/ Is("rabbit") /\ Rabbit!Next /\ UNCHANGED notRabbit

\* The workers run and time passes; a poll of RabbitMQ that has begun goes on,
\* or its channel breaks.
ClientStep(c) ==
    \/ Is("mem") /\ c \in use.clients /\ Mem!Step(c) /\ UNCHANGED <<use, capped, notMem>>
    \/ Is("rabbit") /\ Rabbit!Proceed(c) /\ UNCHANGED <<use, notRabbit>>

Spec ==
    /\ Init /\ [][Next]_vars
    /\ WF_vars(Is("mem") /\ Mem!Tick /\ UNCHANGED <<use, capped, notMem>>)
    /\ \A c \in Clients : WF_vars(ClientStep(c))

-----------------------------------------------------------------------------

Visible ==
    CASE Is("mem") -> Mem!Visible
      [] Is("redis") -> Redis!Visible
      [] Is("postgres") -> Postgres!Visible
      [] Is("mongo") -> Mongo!Visible
      [] Is("rabbit") -> Rabbit!Visible

Hidden ==
    CASE Is("mem") -> Mem!Hidden
      [] Is("redis") -> Redis!Hidden
      [] Is("postgres") -> Postgres!Hidden
      [] Is("mongo") -> Mongo!Hidden
      [] Is("rabbit") -> Rabbit!Hidden

Kind ==
    CASE Is("mem") -> Mem!Kind
      [] Is("redis") -> Redis!Kind
      [] Is("postgres") -> Postgres!Kind
      [] Is("mongo") -> Mongo!Kind
      [] Is("rabbit") -> Rabbit!Kind

Contract == INSTANCE Broker
            WITH visible <- Visible, hidden <- Hidden, kind <- Kind, torn <- strayed

\* Every broker delivers by priority and then by the label of the routing, only
\* to a poll that asks for the queue, task or language, each entry to one
\* consumer at a time, and loses nothing: through the several commands,
\* statements or messages of an operation, expired leases, broken channels and
\* purges (retrieve_invocation and route_invocation of every broker).  Redis
\* does lose the expired lease of work without a task, and promises only
\* matching deliveries once a purge of everything has overlapped a routing.
ImplementsBroker == Contract!BrokerSpec

\* The admission counter of Redis is the number of invocations queued or leased,
\* and of those lost with a lease, through leases that expire, replacements,
\* confirmations and purges, until a purge of everything overlaps a routing
\* (broker:count in pop_matching, route_invocation_with_options and purge).
CountIsExact == Is("redis") => Redis!CountIsExact

\* The limit of rows is never exceeded, also while routings are open
\* (max_queue_rows of Redis, with the same exception, and PostgreSQL).
WithinMaxRows ==
    (Is("redis") => Redis!WithinMaxRows) /\ (Is("postgres") => Postgres!WithinMaxRows)

OnePoll == Is("mem") /\ Cardinality(use.polls) = 1

\* What is routed in memory reaches a worker, although routing and the way to
\* sleep interleave (wait_for_work); delayed work needs a runner that caps its
\* sleep, since nothing announces the end of a delay.
EntryIsDelivered ==
    \A s \in 1..2 :
        OnePoll /\ Mem!Queued(s) /\ (capped \/ ~Mem!Delayed(s)) ~> OnePoll /\ ~Mem!Queued(s)

\* A poll of RabbitMQ ends, and when it has, nothing it held stays hidden,
\* whatever else polls the same queue (take_matching).
PollsEnd == \A c \in Clients : []<>(Is("rabbit") => calls[c] = Rabbit!NoCall)
=============================================================================
