---------------------------- MODULE PostgresBroker ----------------------------
(***************************************************************************)
(* The PostgreSQL broker: one table whose rows are reserved until a time.  *)
(* Routing is a transaction of several statements that holds the lock of   *)
(* runtime_profile, so that its count of the rows is still right when it   *)
(* inserts; until it commits, pollers skip the row it is deleting and do   *)
(* not see the one it inserts.  Retrieval is a single UPDATE.              *)
(***************************************************************************)
EXTENDS BrokerEntries

CONSTANTS
    Uses,      \* the uses of the broker that behaviours make
    Clients,   \* connections that route
    MaxRows    \* max_queue_rows

VARIABLES
    use,       \* the use that is made of the broker
    free,      \* rows whose reserved_until is empty or has passed
    reserved,  \* rows leased to a consumer, or delayed
    txn,       \* the open routing transaction of each client
    ids,       \* the last value of the id sequence
    effect     \* what the last operation delivered or deleted

vars == <<use, free, reserved, txn, ids, effect>>

NoTxn == [open |-> FALSE]
Open == {c \in Clients : txn[c].open}
Rows == free \union reserved

\* Rows an open transaction has deleted: locked, so retrieval skips them.
Locked == UNION {txn[c].deleted : c \in Open}

Init ==
    /\ use \in Uses
    /\ free = {} /\ reserved = {} /\ effect = {} /\ ids = 0
    /\ txn = [c \in Clients |-> NoTxn]

-----------------------------------------------------------------------------

\* publish: lock, delete, count, insert; at the limit the transaction rolls
\* back, which leaves nothing but the error.
Publish(c, i, t, q, pr, delayed) ==
    LET old == OfInvocation(Rows, i)
        entry == [seq |-> ids + 1, inv |-> i, task |-> t, queue |-> q, prio |-> pr]
    IN  /\ Open = {} /\ ids < use.routes
        /\ Cardinality(Rows \ old) < MaxRows
        /\ txn' = [txn EXCEPT ![c] = [open |-> TRUE, deleted |-> old, row |-> entry,
                                      delayed |-> delayed]]
        /\ ids' = ids + 1
        /\ effect' = {}
        /\ UNCHANGED <<free, reserved>>

Commit(c) ==
    /\ c \in Open
    /\ free' = (free \ txn[c].deleted) \union (IF txn[c].delayed THEN {} ELSE {txn[c].row})
    /\ reserved' = (reserved \ txn[c].deleted)
                        \union (IF txn[c].delayed THEN {txn[c].row} ELSE {})
    /\ effect' = Dropped(txn[c].deleted)
    /\ txn' = [txn EXCEPT ![c] = NoTxn]
    /\ UNCHANGED ids

\* The connection is lost, or the process dies: sequence values are not given back.
Rollback(c) ==
    /\ c \in Open
    /\ effect' = {}
    /\ txn' = [txn EXCEPT ![c] = NoTxn]
    /\ UNCHANGED <<free, reserved, ids>>

-----------------------------------------------------------------------------

\* UPDATE ... WHERE id = (SELECT ... FOR UPDATE SKIP LOCKED).
Retrieve(p) ==
    /\ \E e \in Foremost({f \in free \ Locked : Matches(f, p)}) :
          /\ free' = free \ {e}
          /\ reserved' = reserved \union {e}
          /\ effect' = Delivered(p, e)
    /\ UNCHANGED <<txn, ids>>

\* A lease or a delay ends.
ReservationEnds(e) ==
    /\ free' = free \union {e}
    /\ reserved' = reserved \ {e}
    /\ effect' = {}
    /\ UNCHANGED <<txn, ids>>

\* A DELETE waits for the locks of an open transaction.
Delete(S) ==
    /\ S \intersect Locked = {}
    /\ free' = free \ S /\ reserved' = reserved \ S
    /\ effect' = Dropped(S)
    /\ UNCHANGED <<txn, ids>>

\* The publication confirms a delivery (Pending, or a final status).
Confirm(i) == Delete(OfInvocation(Rows, i))

PurgeTask(t) == Delete(OfTask(Rows, t))
PurgeAll == Delete(Rows)

Next ==
    /\ UNCHANGED use
    /\ \/ \E c \in Clients :
             \/ \E i \in use.invs, t \in use.tasks, q \in use.queues, pr \in use.prios,
                   delayed \in BOOLEAN : Publish(c, i, t, q, pr, delayed)
             \/ Commit(c) \/ Rollback(c)
       \/ \E p \in use.polls : Retrieve(p)
       \/ \E e \in reserved : ReservationEnds(e)
       \/ \E i \in use.invs : Confirm(i)
       \/ \E t \in use.tasks \ {NoTask} : PurgeTask(t)
       \/ PurgeAll

Spec == Init /\ [][Next]_vars

-----------------------------------------------------------------------------
(* Properties                                                              *)

\* As a broker sees it.
Visible == free \ Locked
Hidden == reserved \union (free \intersect Locked)
Kind == [leased |-> TRUE, replaces |-> TRUE, setsAside |-> TRUE,
         forgets |-> FALSE, tears |-> FALSE]

\* The admission limit holds although it is counted before the insert commits.
WithinMaxRows == Cardinality(Rows) <= MaxRows
=============================================================================
