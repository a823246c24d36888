------------------------------- MODULE Broker -------------------------------
(***************************************************************************)
(* What the orchestration expects of a broker, whatever stores the queue:  *)
(* entries are handed out by priority, then in the order of routing, only  *)
(* to a poll that asks for their queue, task or language; what is hidden   *)
(* (delayed, or under a lease) comes back, and nothing disappears unless   *)
(* it is delivered for good, confirmed, replaced or purged.  Redis keeps   *)
(* this only for what has a task, and until a purge of everything overlaps *)
(* a routing.                                                              *)
(***************************************************************************)
EXTENDS BrokerEntries

\* How brokers differ: whether a retrieved entry stays, hidden, until it is
\* confirmed; whether routing again replaces the entry; whether an operation in
\* progress may hide entries from others; whether a lease on an entry without a
\* task ends in its loss; and whether a purge may tear entries from their index.
Kinds == [leased : BOOLEAN, replaces : BOOLEAN, setsAside : BOOLEAN,
          forgets : BOOLEAN, tears : BOOLEAN]

VARIABLES
    kind,
    visible,   \* what a poll can find
    hidden,    \* delayed, under a lease, or being looked at
    torn,      \* whether a purge has torn entries from their index
    effect     \* what the last operation delivered, and to which poll, or dropped

brokerVars == <<kind, visible, hidden, torn, effect>>

BrokerInit == kind \in Kinds /\ visible = {} /\ hidden = {} /\ torn = FALSE /\ effect = {}

Present == visible \union hidden

Replaced(e) == IF kind.replaces THEN OfInvocation(Present, e.inv) ELSE {}

Route(e) ==
    /\ visible' = (visible \ Replaced(e)) \union {e}
    /\ hidden' = hidden \ Replaced(e)
    /\ effect' = Dropped(Replaced(e))

RouteAfter(e) ==
    /\ visible' = visible \ Replaced(e)
    /\ hidden' = (hidden \ Replaced(e)) \union {e}
    /\ effect' = Dropped(Replaced(e))

\* What a poll loses when it notices that leases have ended.
MayForget(lost) == lost # {} => kind.forgets /\ \A e \in lost : e.task = NoTask

\* A poll may first notice that delays or leases have ended.
Retrieve(p, back, lost) ==
    LET there == visible \union back
    IN  \E e \in Foremost({f \in there : Matches(f, p)}) :
            /\ visible' = there \ {e}
            /\ hidden' = (hidden \ (back \union lost)) \union (IF kind.leased THEN {e} ELSE {})
            /\ effect' = Delivered(p, e) \union Lost(lost)

ComeBack(back, lost) ==
    /\ visible' = visible \union back
    /\ hidden' = hidden \ (back \union lost)
    /\ effect' = Lost(lost)

SetAside(S) ==
    /\ kind.setsAside
    /\ visible' = visible \ S
    /\ hidden' = hidden \union S
    /\ effect' = {}

\* Confirmed, or purged; a purge may take several steps.
Remove(S) ==
    /\ visible' = visible \ S
    /\ hidden' = hidden \ S
    /\ effect' = Dropped(S)

Intact ==
    \/ \E back \in SUBSET hidden : \E lost \in SUBSET (hidden \ back) :
          /\ MayForget(lost)
          /\ ComeBack(back, lost) \/ \E p \in Polls : Retrieve(p, back, lost)
    \/ \E e \in Entries \intersect Present' : Route(e) \/ RouteAfter(e)
    \/ \E S \in SUBSET Present : Remove(S)
    \/ \E S \in SUBSET visible : SetAside(S)

\* Of entries without an index it only holds that what a poll gets was there,
\* and is what it asks for.
Torn ==
    /\ kind.tears
    /\ \A d \in effect' : d[1] \in Polls => d[2] \in Present /\ Matches(d[2], d[1])

BrokerNext ==
    /\ UNCHANGED kind
    /\ torn => torn'
    /\ IF torn' THEN Torn ELSE Intact

BrokerSpec == BrokerInit /\ [][BrokerNext]_brokerVars
=============================================================================
