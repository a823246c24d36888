----------------------------- MODULE RedisBroker -----------------------------
(***************************************************************************)
(* The Redis broker: a sorted set per queue, leases with a payload from    *)
(* which an expired one is rebuilt, two indexes by invocation and a        *)
(* counter for the admission limit.  Each Lua script is one step; the      *)
(* sequence number of an entry is drawn by a command of its own before it. *)
(* A purge first looks for the keys of the queues; that of one task then   *)
(* runs a script per queue and one for the leases, that of everything      *)
(* looks for the metadata and deletes what it found.                       *)
(* `change` of the publication edits the same keys when it confirms or     *)
(* publishes again (RedisPublication has its other half).                  *)
(***************************************************************************)
EXTENDS BrokerEntries

CONSTANTS
    Uses,      \* the uses of the broker that behaviours make
    Clients,   \* processes that route
    MaxRows    \* max_queue_rows

VARIABLES
    use,       \* the use that is made of the broker
    queued,    \* broker:queue:* and broker:metadata:*, which has the tasks
    queuedBy,  \* broker:queued_by_inv: queue and sequence number
    leases,    \* broker:leases with lease_payload: entry, and whether it is over
    leasedBy,  \* broker:leased_by_inv: sequence number, or 0
    count,     \* broker:count
    sequence,  \* broker:sequence
    routings,  \* how many numbers have been drawn
    drawn,     \* the number each client has drawn for its routing, or 0
    purge,     \* the purge in progress: its step, its task and the keys it found
    strayed,   \* a purge of everything has left entries that no index names
    effect     \* what the last operation delivered, confirmed, replaced or purged

store == <<queued, queuedBy, leases, leasedBy, count>>
vars == <<use, store, sequence, routings, drawn, purge, strayed, effect>>

Nowhere == [queue |-> NoTask, seq |-> 0]
NoPurge == [step |-> "none", task |-> NoTask, queues |-> {}, hashes |-> {}]

LeasedEntries == {l.entry : l \in leases}

Init ==
    /\ use \in Uses
    /\ queued = {} /\ queuedBy = [i \in Invocations |-> Nowhere]
    /\ leases = {} /\ leasedBy = [i \in Invocations |-> 0]
    /\ count = 0 /\ sequence = 0 /\ routings = 0
    /\ drawn = [c \in Clients |-> 0]
    /\ purge = NoPurge
    /\ strayed = FALSE
    /\ effect = {}

-----------------------------------------------------------------------------

\* A member is the sequence number with the id; a key holds it at most once.
SameMember(e, f) == e.seq = f.seq /\ e.inv = f.inv

Put(S, T) == {e \in S : \A f \in T : ~(SameMember(e, f) /\ e.queue = f.queue)} \union T

QueuedFor(i) == {e \in queued : e.inv = i /\ [queue |-> e.queue, seq |-> e.seq] = queuedBy[i]}
Live(l) == leasedBy[l.entry.inv] = l.entry.seq
LeasedFor(i) == {l \in leases : l.entry.inv = i /\ Live(l)}

\* What a broker sees under leases: those that can be rebuilt or confirmed.
Hidden == {l.entry : l \in {m \in leases : Live(m)}}

\* INCR: the order of the numbers is the order of delivery, whoever of two
\* clients runs its script first.
Draw(c) ==
    /\ drawn[c] = 0 /\ routings < use.routes
    /\ routings' = routings + 1
    /\ sequence' = sequence + 1
    /\ drawn' = [drawn EXCEPT ![c] = sequence + 1]
    /\ effect' = {}
    /\ UNCHANGED <<store, purge, strayed>>

Had(i) == queuedBy[i] # Nowhere \/ leasedBy[i] # 0

Place(e) == [queue |-> e.queue, seq |-> e.seq]

\* The routing script: refused at the limit, or it replaces what the indexes
\* have of the invocation, queued and leased.
RouteInvocation(c, e) ==
    /\ drawn[c] # 0
    /\ drawn' = [drawn EXCEPT ![c] = 0]
    /\ IF ~Had(e.inv) /\ count >= MaxRows
       THEN effect' = {} /\ UNCHANGED store
       ELSE /\ queued' = Put(queued \ QueuedFor(e.inv), {e})
            /\ queuedBy' = [queuedBy EXCEPT ![e.inv] = Place(e)]
            /\ leases' = leases \ LeasedFor(e.inv)
            /\ leasedBy' = [leasedBy EXCEPT ![e.inv] = 0]
            /\ count' = IF Had(e.inv) THEN count ELSE count + 1
            /\ effect' = Dropped(QueuedFor(e.inv) \union {l.entry : l \in LeasedFor(e.inv)})
    /\ UNCHANGED <<sequence, routings, purge, strayed>>

\* What the indexes have of the invocation goes.
TakeOff(i) ==
    /\ queued' = queued \ QueuedFor(i)
    /\ queuedBy' = [queuedBy EXCEPT ![i] = Nowhere]
    /\ leases' = leases \ LeasedFor(i)
    /\ leasedBy' = [leasedBy EXCEPT ![i] = 0]
    /\ effect' = Dropped(QueuedFor(i) \union {l.entry : l \in LeasedFor(i)})
    /\ UNCHANGED <<sequence, routings, drawn, purge, strayed>>

\* Mutant: the counter goes down without an entry, too.
ConfirmBlindly(i) == TakeOff(i) /\ count' = IF count = 0 THEN 0 ELSE count - 1

\* `change` without a route: the delivery is confirmed.
Confirm(i) == TakeOff(i) /\ count' = IF Had(i) /\ count > 0 THEN count - 1 ELSE count

-----------------------------------------------------------------------------

\* The payload of a lease is split at its separators; the split skips empty
\* fields, so that of an entry without a task has four instead of five.
Fields(e) == IF e.task = NoTask THEN 4 ELSE 5

Ended == {l \in leases : l.over}
Restored == {l.entry : l \in {m \in Ended : Fields(m.entry) = 5 /\ Live(m)}}
Abandoned == {l.entry : l \in {m \in Ended : Fields(m.entry) # 5 /\ Live(m)}}

\* pop_matching: every expired lease is taken off the list, and what can be
\* rebuilt is queued again; then the first match is leased.
PopMatching(p) ==
    LET there == Put(queued, Restored)
        places == [i \in Invocations |->
                      IF \E e \in Restored : e.inv = i
                      THEN Place(CHOOSE e \in Restored : e.inv = i) ELSE queuedBy[i]]
        rest == [i \in Invocations |->
                    IF \E e \in Restored : e.inv = i THEN 0 ELSE leasedBy[i]]
        kept == leases \ Ended
        found == Foremost({e \in there : Matches(e, p)})
    IN  /\ IF found = {}
           THEN /\ queued' = there /\ queuedBy' = places
                /\ leases' = kept /\ leasedBy' = rest
                /\ effect' = Lost(Abandoned)
           ELSE \E e \in found :
                /\ queued' = there \ {e}
                /\ queuedBy' = [places EXCEPT ![e.inv] = Nowhere]
                /\ leases' = {l \in kept : ~SameMember(l.entry, e)}
                                \union {[entry |-> e, over |-> FALSE]}
                /\ leasedBy' = [rest EXCEPT ![e.inv] = e.seq]
                /\ effect' = Delivered(p, e) \union Lost(Abandoned)
        /\ UNCHANGED <<count, sequence, routings, drawn, purge, strayed>>

LeaseEnds(l) ==
    /\ ~l.over
    /\ leases' = (leases \ {l}) \union {[l EXCEPT !.over = TRUE]}
    /\ effect' = {}
    /\ UNCHANGED <<queued, queuedBy, leasedBy, count, sequence, routings, drawn, purge, strayed>>

-----------------------------------------------------------------------------
(* purge                                                                   *)

\* A queue has a key, and a metadata hash, while it has an entry.
Keys == {e.queue : e \in queued}

\* Without a task, everything.
PurgeScan(t) ==
    /\ purge = NoPurge
    /\ purge' = [step |-> IF t = NoTask THEN "metadata" ELSE "queues", task |-> t,
                 queues |-> Keys, hashes |-> {}]
    /\ effect' = {}
    /\ UNCHANGED <<store, sequence, routings, drawn, strayed>>

Minus(n, k) == IF n >= k THEN n - k ELSE 0

PurgedFrom(q) == {e \in OfTask(queued, purge.task) : e.queue = q}

Unqueue(q) ==
    /\ purge.step = "queues" /\ q \in purge.queues
    /\ purge' = [purge EXCEPT !.queues = @ \ {q}]
    /\ queued' = queued \ PurgedFrom(q)
    /\ queuedBy' = [i \in Invocations |->
                       IF OfInvocation(PurgedFrom(q), i) # {} THEN Nowhere ELSE queuedBy[i]]
    /\ effect' = Dropped(PurgedFrom(q))
    /\ UNCHANGED <<leases, leasedBy, sequence, routings, drawn, strayed>>

\* Mutant: the limit still counts what was purged.
PurgeQueueOnly(q) == Unqueue(q) /\ UNCHANGED count

PurgeQueue(q) == Unqueue(q) /\ count' = Minus(count, Cardinality(PurgedFrom(q)))

PurgeLeases ==
    LET removed == {l \in leases : l.entry.task = purge.task /\ Fields(l.entry) = 5}
    IN  /\ purge.step = "queues" /\ purge.queues = {}
        /\ purge' = NoPurge
        /\ leases' = leases \ removed
        /\ leasedBy' = [i \in Invocations |->
                          IF \E l \in removed : l.entry.inv = i THEN 0 ELSE leasedBy[i]]
        /\ count' = Minus(count, Cardinality(removed))
        /\ effect' = Dropped({l.entry : l \in removed \intersect {m \in leases : Live(m)}})
        /\ UNCHANGED <<queued, queuedBy, sequence, routings, drawn, strayed>>

PurgeScanMetadata ==
    /\ purge.step = "metadata"
    /\ purge' = [purge EXCEPT !.step = "delete", !.hashes = Keys]
    /\ effect' = {}
    /\ UNCHANGED <<store, sequence, routings, drawn, strayed>>

\* One DEL of the keys that were found and of those with a fixed name.  A queue
\* that came up after the scan stays, without its index, and without its tasks
\* if its metadata was found.
PurgeDelete ==
    LET left == {e \in queued : e.queue \notin purge.queues}
    IN  /\ purge.step = "delete"
        /\ queued' = {IF e.queue \in purge.hashes THEN [e EXCEPT !.task = NoTask] ELSE e : e \in left}
        /\ queuedBy' = [i \in Invocations |-> Nowhere]
        /\ leases' = {} /\ leasedBy' = [i \in Invocations |-> 0]
        /\ count' = 0 /\ sequence' = 0
        /\ purge' = NoPurge
        /\ strayed' = (strayed \/ left # {})
        /\ effect' = Dropped((queued \ left) \union Hidden)
        /\ UNCHANGED <<routings, drawn>>

Next ==
    /\ UNCHANGED use
    /\ \/ \E c \in use.clients : Draw(c) \/ \E e \in Routed(use, drawn[c]) : RouteInvocation(c, e)
       \/ \E i \in use.invs : Confirm(i)
       \/ \E p \in use.polls : PopMatching(p)
       \/ \E l \in leases : LeaseEnds(l)
       \/ \E t \in use.tasks \union {NoTask} : PurgeScan(t)
       \/ \E q \in Queues : PurgeQueue(q)
       \/ PurgeLeases
       \/ PurgeScanMetadata
       \/ PurgeDelete

Spec == Init /\ [][Next]_vars

-----------------------------------------------------------------------------
(* Properties                                                              *)

\* As a broker sees it.
Visible == queued
Kind == [leased |-> TRUE, replaces |-> TRUE, setsAside |-> FALSE, forgets |-> TRUE, tears |-> TRUE]

\* An invocation whose lease ended without a task is gone but still counted.
Leaked == {i \in Invocations : leasedBy[i] # 0 /\ LeasedFor(i) = {}}

\* Until a purge of everything overlaps a routing, the admission counter is the
\* number of invocations queued, leased, or lost with their lease: through
\* leases that expire, replacements, confirmations and purges that interleave.
CountIsExact ==
    ~strayed => count = Cardinality({e.inv : e \in queued \union LeasedEntries} \union Leaked)

\* As long, the limit is never exceeded.
WithinMaxRows == ~strayed => Cardinality(queued \union LeasedEntries) <= MaxRows
=============================================================================
