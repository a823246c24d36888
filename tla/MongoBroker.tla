----------------------------- MODULE MongoBroker -----------------------------
(***************************************************************************)
(* The MongoDB broker: one collection, one document per routing, taken     *)
(* with find_one_and_delete.  The driver makes the ObjectId that orders    *)
(* documents of one priority before it sends the insert: time in seconds,  *)
(* a number of the process, a counter.  Ids of one process ascend; those   *)
(* of two processes within a second are in no order, and the inserts may   *)
(* be in another.  delete_many is not atomic over several documents:       *)
(* retrieval interleaves with a purge.                                     *)
(***************************************************************************)
EXTENDS BrokerEntries

CONSTANTS
    Uses,      \* the uses of the broker that behaviours make
    Clients

VARIABLES
    use,       \* the use that is made of the broker
    docs,      \* the collection
    sending,   \* the insert each client is about to make
    ids,       \* the ObjectIds each client has made
    doomed,    \* documents a running purge has still to delete
    effect     \* what the last operation delivered or deleted

vars == <<use, docs, sending, ids, doomed, effect>>

Init ==
    /\ use \in Uses
    /\ docs = {} /\ doomed = {} /\ effect = {}
    /\ sending = [c \in Clients |-> {}]
    /\ ids = [c \in Clients |-> {}]

\* An id nobody has made, after those of the client.
FreshIds(c) ==
    {n \in 1..use.routes : \A d \in Clients : \A m \in ids[d] : n # m /\ (d = c => n > m)}

MakeDocument(c, e) ==
    /\ sending[c] = {}
    /\ ids' = [ids EXCEPT ![c] = @ \union {e.seq}]
    /\ sending' = [sending EXCEPT ![c] = {e}]
    /\ effect' = {}
    /\ UNCHANGED <<docs, doomed>>

InsertOne(c) ==
    /\ sending[c] # {}
    /\ docs' = docs \union sending[c]
    /\ sending' = [sending EXCEPT ![c] = {}]
    /\ effect' = {}
    /\ UNCHANGED <<ids, doomed>>

\* { task_id: null } or a prefix of the language; null is Rust work.
LanguageFilter(e, language) == LanguageOf(e.task) = language

Filter(e, p) ==
    /\ e.queue = p.queue
    /\ p.wants \in Tasks => e.task = p.wants
    /\ p.wants \in Languages => LanguageFilter(e, p.wants)

\* Sorted by priority, then _id.
FindOneAndDelete(p) ==
    /\ \E e \in Foremost({f \in docs : Filter(f, p)}) :
          docs' = docs \ {e} /\ effect' = Delivered(p, e) /\ doomed' = doomed \ {e}
    /\ UNCHANGED <<sending, ids>>

PurgeBegins(S) ==
    /\ doomed = {}
    /\ doomed' = S
    /\ effect' = {}
    /\ UNCHANGED <<docs, sending, ids>>

DeleteNext(e) ==
    /\ docs' = docs \ {e} /\ doomed' = doomed \ {e}
    /\ effect' = Dropped({e})
    /\ UNCHANGED <<sending, ids>>

Next ==
    /\ UNCHANGED use
    /\ \/ \E c \in Clients :
             \/ \E n \in FreshIds(c) : \E e \in Routed(use, n) : MakeDocument(c, e)
             \/ InsertOne(c)
       \/ \E p \in use.polls : FindOneAndDelete(p)
       \/ \E t \in use.tasks \ {NoTask} : PurgeBegins(OfTask(docs, t))
       \/ PurgeBegins(docs)
       \/ \E e \in doomed : DeleteNext(e)

Spec == Init /\ [][Next]_vars

-----------------------------------------------------------------------------
(* Properties                                                              *)

\* As a broker sees it.
Visible == docs
Hidden == {}
Kind == [leased |-> FALSE, replaces |-> FALSE, setsAside |-> FALSE,
         forgets |-> FALSE, tears |-> FALSE]
=============================================================================
