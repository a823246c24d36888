----------------------------- MODULE RabbitBroker -----------------------------
(***************************************************************************)
(* The RabbitMQ broker.  There is a physical queue per language and        *)
(* logical queue; a poll declares it to learn its length, gets at most     *)
(* that many messages one by one, acknowledges the first match and         *)
(* requeues what it held.  Messages a poll holds are hidden from others,   *)
(* and the server takes them back when the channel breaks.                 *)
(***************************************************************************)
EXTENDS BrokerEntries

CONSTANTS
    Uses,      \* the uses of the broker that behaviours make
    Pollers

VARIABLES
    use,       \* the use that is made of the broker
    ready,     \* messages in the physical queues
    calls,     \* take_matching of each poller, in progress or not
    routings,  \* publishes so far
    effect     \* what the last operation delivered, acknowledged or purged

vars == <<use, ready, calls, routings, effect>>

NoCall == [poll |-> [queue |-> NoTask], left |-> 0, held |-> {}, got |-> {}, stage |-> "none"]

\* Physical queues are told apart by language and logical queue.
InQueue(e, language, queue) == LanguageOf(e.task) = language /\ e.queue = queue

\* A task poll scans the queue of its task's language.
LanguageFor(p) == IF p.wants \in Languages THEN p.wants ELSE LanguageOf(p.wants)

Physical(p) == {e \in ready : InQueue(e, LanguageFor(p), p.queue)}

Held == UNION {calls[c].held \union calls[c].got : c \in Pollers}

\* Polls name a language or a task: an administrative poll of both languages is
\* two calls, one after the other.

Init ==
    /\ use \in Uses
    /\ ready = {} /\ routings = 0 /\ effect = {}
    /\ calls = [c \in Pollers |-> NoCall]

-----------------------------------------------------------------------------

\* The publish is confirmed by the server before the call returns.
RouteInvocation(i, t, q, pr) ==
    /\ routings < use.routes
    /\ routings' = routings + 1
    /\ ready' = ready \union {[seq |-> routings + 1, inv |-> i, task |-> t, queue |-> q,
                               prio |-> pr]}
    /\ effect' = {}
    /\ UNCHANGED calls

\* take_matching begins with the number of messages at this moment.
EnsureQueue(c, p) ==
    /\ calls[c] = NoCall
    /\ calls' = [calls EXCEPT ![c] = [poll |-> p, left |-> Cardinality(Physical(p)),
                                      held |-> {}, got |-> {}, stage |-> "scan"]]
    /\ effect' = {}
    /\ UNCHANGED <<ready, routings>>

\* Mutant: what does not match is put back at once, and got again.
GetAgain(c) ==
    /\ calls[c].stage = "scan" /\ calls[c].left > 0
    /\ \E e \in Foremost(Physical(calls[c].poll)) :
          IF Matches(e, calls[c].poll)
          THEN /\ ready' = ready \ {e}
               /\ calls' = [calls EXCEPT ![c].got = {e}, ![c].stage = "ack"]
               /\ effect' = Delivered(calls[c].poll, e)
          ELSE effect' = {} /\ UNCHANGED <<ready, calls>>
    /\ UNCHANGED routings

\* basic_get returns the foremost message; one that matches ends the scan.
BasicGet(c) ==
    /\ calls[c].stage = "scan" /\ calls[c].left > 0
    /\ \E e \in Foremost(Physical(calls[c].poll)) :
          /\ ready' = ready \ {e}
          /\ calls' = [calls EXCEPT ![c] =
                IF Matches(e, @.poll)
                THEN [@ EXCEPT !.got = {e}, !.stage = "ack"]
                ELSE [@ EXCEPT !.held = @ \union {e}, !.left = @ - 1]]
          /\ effect' = IF Matches(e, calls[c].poll) THEN Delivered(calls[c].poll, e) ELSE {}
    /\ UNCHANGED routings

\* Nothing matched, or others have taken what was counted.
ScanEnds(c) ==
    /\ calls[c].stage = "scan"
    /\ calls[c].left = 0 \/ Physical(calls[c].poll) = {}
    /\ calls' = [calls EXCEPT ![c].stage = "requeue"]
    /\ effect' = {}
    /\ UNCHANGED <<ready, routings>>

Ack(c) ==
    /\ calls[c].stage = "ack"
    /\ effect' = Dropped(calls[c].got)
    /\ calls' = [calls EXCEPT ![c].stage = "requeue", ![c].got = {}]
    /\ UNCHANGED <<ready, routings>>

\* One nack per held message, in any order the server applies them.
Requeue(c, e) ==
    /\ calls[c].stage = "requeue"
    /\ ready' = ready \union {e}
    /\ calls' = [calls EXCEPT ![c].held = @ \ {e}]
    /\ effect' = {}
    /\ UNCHANGED routings

\* wait_for_requeued_messages gives up after twenty rounds, so it never blocks.
Return(c) ==
    /\ calls[c].stage = "requeue" /\ calls[c].held = {}
    /\ calls' = [calls EXCEPT ![c] = NoCall]
    /\ effect' = {}
    /\ UNCHANGED <<ready, routings>>

\* The channel breaks at any point: the call fails, and the server puts back
\* what was not acknowledged.
ChannelBreaks(c) ==
    /\ calls[c] # NoCall
    /\ ready' = ready \union calls[c].held \union calls[c].got
    /\ calls' = [calls EXCEPT ![c] = NoCall]
    /\ effect' = {}
    /\ UNCHANGED routings

\* queue_purge removes what is ready, not what a poll holds.
PurgeQueue(language, q) ==
    LET removed == {e \in ready : InQueue(e, language, q)}
    IN  /\ ready' = ready \ removed
        /\ effect' = Dropped(removed)
        /\ UNCHANGED <<calls, routings>>

Next ==
    /\ UNCHANGED use
    /\ \/ \E i \in use.invs, t \in use.tasks, q \in use.queues, pr \in use.prios :
             RouteInvocation(i, t, q, pr)
       \/ \E c \in Pollers :
             \/ \E p \in use.polls : EnsureQueue(c, p)
             \/ BasicGet(c) \/ ScanEnds(c) \/ Ack(c) \/ Return(c) \/ ChannelBreaks(c)
             \/ \E e \in calls[c].held : Requeue(c, e)
       \/ \E language \in Languages, q \in Queues : PurgeQueue(language, q)

Spec == Init /\ [][Next]_vars

\* A call that has begun goes on, or its channel breaks.
Proceed(c) == BasicGet(c) \/ ScanEnds(c) \/ Ack(c) \/ Return(c)
                \/ \E e \in calls[c].held : Requeue(c, e)

-----------------------------------------------------------------------------
(* Properties                                                              *)

\* As a broker sees it.
Visible == ready
Hidden == Held
Kind == [leased |-> TRUE, replaces |-> FALSE, setsAside |-> TRUE,
         forgets |-> FALSE, tears |-> FALSE]
=============================================================================
