----------------------------- MODULE ControlData -----------------------------
(***************************************************************************)
(* What the control backends have in common: the invocations, their tasks  *)
(* and concurrency keys, and the answers that the queries of the port      *)
(* (rustvello-core/src/orchestrator.rs) owe for given status records,      *)
(* slots and waits.                                                        *)
(***************************************************************************)
EXTENDS InvocationStatus, Integers, FiniteSets

CONSTANTS
    Invocations,
    Rivals,       \* invocations with equal concurrency keys
    Foreign,      \* invocations of another task
    Limit         \* running_concurrency of the tasks

ASSUME ControlAssumption ==
    /\ Rivals \subseteq Invocations /\ Foreign \subseteq Invocations
    /\ Limit \in Nat \ {0}

Tasks == {"task", "other"}
TaskOf(i) == IF i \in Foreign THEN "other" ELSE "task"

\* The (argument, value) pairs of a concurrency key.  All keys agree in the
\* first pair, only those of rivals in both.
Key(i) == IF i \in Rivals THEN {"a1", "b1"} ELSE {"a1", "b2"}

\* Keys of the pair index are qualified by the task.
IndexKeys == Tasks \X {"a1", "b1", "b2"}
indexKeys == [i \in Invocations |-> {TaskOf(i)} \X Key(i)]
IndexKeysOf(i) == indexKeys[i]

Registered(runner) == [status |-> "Registered", owner |-> runner]

\* The status arguments the queries are tried with.
StatusFilters == {{"Pending", "Running"}, AvailableForRun}

\* A use of the port: the backend behind it, the operations that callers make,
\* on which invocations, for which runners, and by how many callers at once.
\* A behaviour keeps to one use.
Use(backend, ops, ids, runners, callers) ==
    [backend |-> backend, ops |-> ops, ids |-> ids,
     owners |-> runners \union {NoRunner}, callers |-> callers]

-----------------------------------------------------------------------------
(* The answers the port owes.                                              *)

Known(record) == {i \in Invocations : record[i] # Absent}
OfTask(record, t) == {i \in Known(record) : TaskOf(i) = t}
OfStatus(record, t, S) == {i \in OfTask(record, t) : record[i].status \in S}

\* get_existing_invocations by key: what holds all pairs of the key of `like`.
OfKey(record, slots, like, S) ==
    {i \in slots : IndexKeysOf(like) \subseteq IndexKeysOf(i) /\ record[i].status \in S}

\* check_running_concurrency counts the holders that are Pending or Running.
RunningAuthorized(record, slots, like) ==
    Cardinality(OfKey(record, slots, like, {"Pending", "Running"})) < Limit

\* Others that hold a slot of the same key.
Competitors(slots, i) == {j \in slots \ {i} : IndexKeysOf(i) \subseteq IndexKeysOf(j)}
=============================================================================
