---------------------------- MODULE BrokerEntries ----------------------------
(***************************************************************************)
(* Queue entries, what a poll asks for, and the order of delivery.         *)
(***************************************************************************)
EXTENDS Integers, FiniteSets

CONSTANTS
    Invocations,
    RustTasks, PythonTasks,
    Untyped,    \* whether entries are also routed without a task
    Queues,
    Priorities,
    MaxRoutes   \* bound on the labels that order entries of one priority

NoTask == "no task"
Tasks == RustTasks \union PythonTasks
Routable == Tasks \union (IF Untyped THEN {NoTask} ELSE {})
Languages == {"rust", "python"}

ASSUME BrokerAssumption ==
    /\ Priorities \subseteq Int /\ MaxRoutes \in Nat
    /\ Untyped \in BOOLEAN
    /\ NoTask \notin Tasks
    /\ RustTasks \intersect PythonTasks = {}

\* seq is the label the store orders by: a position, a row id, a sequence number.
Entries == [seq : 1..MaxRoutes, inv : Invocations, task : Routable,
            queue : Queues, prio : Priorities]

\* A poll names a queue and everything, one task, or one language.
Polls == [queue : Queues, wants : {"all"} \union Tasks \union Languages]

\* What is routed without a task is Rust work.
LanguageOf(task) == IF task \in PythonTasks THEN "python" ELSE "rust"

Matches(e, p) ==
    /\ e.queue = p.queue
    /\ \/ p.wants = "all"
       \/ p.wants \in Tasks /\ e.task = p.wants
       \/ p.wants \in Languages /\ LanguageOf(e.task) = p.wants

Before(e, f) == e.prio > f.prio \/ (e.prio = f.prio /\ e.seq < f.seq)

\* What may be delivered next out of S.
Foremost(S) == {e \in S : \A f \in S : ~Before(f, e)}

\* What an operation did: entries it handed to a poll, dropped because it was
\* told to, or lost.
Nobody == [queue |-> NoTask, wants |-> "nobody"]
Oblivion == [queue |-> NoTask, wants |-> "lost"]
Delivered(p, e) == {<<p, e>>}
Dropped(S) == {Nobody} \X S
Lost(S) == {Oblivion} \X S

\* A use of a broker: which one it is, by whom, what is routed, and what is
\* polled for.
\* A behaviour keeps to one use.
Use(backend, clients, invs, tasks, queues, prios, routes, wants) ==
    [backend |-> backend, clients |-> clients, invs |-> invs, tasks |-> tasks, queues |-> queues,
     prios |-> prios, routes |-> routes, polls |-> [queue : queues, wants : wants]]

\* The entries that use u routes with label n.
Routed(u, n) == [seq : {n}, inv : u.invs, task : u.tasks, queue : u.queues, prio : u.prios]

OfInvocation(S, i) == {e \in S : e.inv = i}
OfTask(S, t) == {e \in S : e.task = t}
=============================================================================
