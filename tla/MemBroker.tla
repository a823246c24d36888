------------------------------ MODULE MemBroker ------------------------------
(***************************************************************************)
(* The in-memory broker: one deque behind a mutex, and a tokio Notify that *)
(* wakes idle workers.  A delayed entry sits in the deque until its time;  *)
(* nothing announces that it is due, so a worker that goes to sleep sets   *)
(* an alarm for the earliest one it sees.                                  *)
(***************************************************************************)
EXTENDS BrokerEntries, Sequences, SequencesExt

CONSTANTS
    Uses,      \* the uses of the broker that behaviours make
    Workers,
    MaxTime    \* bound on the clock

VARIABLES
    use,       \* the use that is made of the broker
    capped,   \* whether the runner polls again after idle_sleep_ms
    queue,    \* the deque: entries with the time they become due
    now,      \* tokio's clock
    routings, \* number of routings so far
    effect,   \* what the last operation delivered or purged
    permit,   \* the stored permit of Notify
    phase,    \* where each worker is in its loop
    woken,    \* workers whose Notified future has been completed
    alarm     \* when the wait of each worker ends by itself

vars == <<use, capped, queue, now, routings, effect, permit, phase, woken, alarm>>

Never == MaxTime + 1
EntryOf(item) == [f \in {"seq", "inv", "task", "queue", "prio"} |-> item[f]]
IsDue(item) == item.at <= now
Indices(Test(_)) == {k \in 1..Len(queue) : Test(queue[k])}

Init ==
    /\ use \in Uses /\ capped \in BOOLEAN
    /\ queue = <<>> /\ now = 0 /\ routings = 0 /\ effect = {} /\ permit = FALSE
    /\ phase = [w \in Workers |-> "polling"]
    /\ woken = {}
    /\ alarm = [w \in Workers |-> Never]

-----------------------------------------------------------------------------
(* tokio::sync::Notify                                                     *)

Sleeping == {w \in Workers : phase[w] = "waiting"} \ woken
Listening == {w \in Workers : phase[w] \in {"armed", "ready", "waiting"}}

\* Mutant: a notification that finds nobody asleep is lost.
NotifyAsleep ==
    \/ \E w \in Sleeping : woken' = woken \union {w} /\ UNCHANGED permit
    \/ Sleeping = {} /\ UNCHANGED <<woken, permit>>

\* Wakes one sleeper, or keeps one permit for the next.
NotifyOne ==
    \/ \E w \in Sleeping : woken' = woken \union {w} /\ UNCHANGED permit
    \/ Sleeping = {} /\ permit' = TRUE /\ UNCHANGED woken

\* Reaches every future that has been created, and stores nothing.
NotifyWaiters == woken' = woken \union Listening /\ UNCHANGED permit

-----------------------------------------------------------------------------

PushBack(i, t, q, pr, at) ==
    /\ routings < use.routes
    /\ routings' = routings + 1
    /\ queue' = Append(queue, [seq |-> routings + 1, inv |-> i, task |-> t, queue |-> q,
                               prio |-> pr, at |-> at])

RouteInvocation(i, t, q, pr) ==
    /\ PushBack(i, t, q, pr, 0)
    /\ NotifyOne
    /\ effect' = {}
    /\ UNCHANGED <<now, phase, alarm>>

RouteInvocationAfter(i, t, q, pr, at) ==
    /\ at > now
    /\ PushBack(i, t, q, pr, at)
    /\ NotifyWaiters
    /\ effect' = {}
    /\ UNCHANGED <<now, phase, alarm>>

\* Mutant: the later of two entries of the same priority goes first.
SelectedLast(p) ==
    LET Eligible(item) == IsDue(item) /\ Matches(EntryOf(item), p)
        S == Indices(Eligible)
    IN  {k \in S : \A j \in S : \/ queue[k].prio > queue[j].prio
                                \/ queue[k].prio = queue[j].prio /\ k >= j}

\* max_by: the highest priority, and the smallest index among equals.
Selected(p) ==
    LET Eligible(item) == IsDue(item) /\ Matches(EntryOf(item), p)
        S == Indices(Eligible)
    IN  {k \in S : \A j \in S : \/ queue[k].prio > queue[j].prio
                                \/ queue[k].prio = queue[j].prio /\ k <= j}

\* A poll of the worker; what it finds is removed for good.
RetrieveInvocation(w, p) ==
    /\ phase[w] = "polling"
    /\ \/ \E k \in Selected(p) :
            /\ queue' = RemoveAt(queue, k)
            /\ effect' = Delivered(p, EntryOf(queue[k]))
            /\ phase' = [phase EXCEPT ![w] = "busy"]
       \/ /\ Selected(p) = {}
          /\ phase' = [phase EXCEPT ![w] = "idle"]
          /\ effect' = {}
          /\ UNCHANGED queue
    /\ UNCHANGED <<now, routings, permit, woken, alarm>>

Work(w) ==
    /\ phase[w] = "busy"
    /\ phase' = [phase EXCEPT ![w] = "polling"]
    /\ effect' = {}
    /\ UNCHANGED <<queue, now, routings, permit, woken, alarm>>

-----------------------------------------------------------------------------
(* wait_for_work                                                           *)

\* The Notified future is created before the queue is looked at.
CreateNotified(w) ==
    /\ phase[w] = "idle"
    /\ phase' = [phase EXCEPT ![w] = "armed"]
    /\ woken' = woken \ {w}
    /\ effect' = {}
    /\ UNCHANGED <<queue, now, routings, permit, alarm>>

Earliest(S) == IF S = {} THEN Never ELSE CHOOSE t \in S : \A u \in S : t <= u

ReadNextDue(w) ==
    /\ phase[w] = "armed"
    /\ phase' = [phase EXCEPT ![w] = "ready"]
    /\ alarm' = [alarm EXCEPT ![w] = Earliest({queue[k].at : k \in 1..Len(queue)} \ 0..now)]
    /\ effect' = {}
    /\ UNCHANGED <<queue, now, routings, permit, woken>>

\* The wait is over: its future and its alarm are dropped.
Resume(w) ==
    /\ phase' = [phase EXCEPT ![w] = "polling"]
    /\ woken' = woken \ {w}
    /\ alarm' = [alarm EXCEPT ![w] = Never]

\* The first poll of the select takes a stored permit.
FirstPoll(w) ==
    /\ phase[w] = "ready"
    /\ \/ (w \in woken \/ alarm[w] <= now) /\ Resume(w) /\ UNCHANGED permit
       \/ w \notin woken /\ alarm[w] > now /\ permit /\ permit' = FALSE /\ Resume(w)
       \/ /\ w \notin woken /\ alarm[w] > now /\ ~permit
          /\ phase' = [phase EXCEPT ![w] = "waiting"]
          /\ UNCHANGED <<permit, woken, alarm>>
    /\ effect' = {}
    /\ UNCHANGED <<queue, now, routings>>

WakeUp(w) ==
    /\ phase[w] = "waiting"
    /\ w \in woken \/ alarm[w] <= now \/ capped
    /\ Resume(w)
    /\ effect' = {}
    /\ UNCHANGED <<queue, now, routings, permit>>

-----------------------------------------------------------------------------

\* purge, of one task or of everything.
Keep(Test(_)) ==
    /\ queue' = SelectSeq(queue, Test)
    /\ effect' = Dropped({EntryOf(queue[k]) : k \in {j \in 1..Len(queue) : ~Test(queue[j])}})
    /\ UNCHANGED <<now, routings, permit, phase, woken, alarm>>

PurgeTask(t) == LET Other(item) == item.task # t IN Keep(Other)

PurgeAll == LET Nothing(item) == FALSE IN Keep(Nothing)

Tick ==
    /\ now < MaxTime
    /\ now' = now + 1
    /\ effect' = {}
    /\ UNCHANGED <<queue, routings, permit, phase, woken, alarm>>

Step(w) ==
    \/ \E p \in use.polls : RetrieveInvocation(w, p)
    \/ Work(w) \/ CreateNotified(w) \/ ReadNextDue(w) \/ FirstPoll(w) \/ WakeUp(w)

Next ==
    /\ UNCHANGED <<use, capped>>
    /\ \/ \E i \in use.invs, t \in use.tasks, q \in use.queues, pr \in use.prios :
             \/ RouteInvocation(i, t, q, pr)
             \/ \E at \in 1..MaxTime : RouteInvocationAfter(i, t, q, pr, at)
       \/ \E w \in use.clients : Step(w)
       \/ \E t \in use.tasks \ {NoTask} : PurgeTask(t)
       \/ PurgeAll
       \/ Tick

Spec == Init /\ [][Next]_vars

-----------------------------------------------------------------------------
(* Properties                                                              *)

Due == {EntryOf(queue[k]) : k \in Indices(IsDue)}
AllEntries == {EntryOf(queue[k]) : k \in 1..Len(queue)}

\* As a broker sees it.
Visible == Due
Hidden == AllEntries \ Due
Kind == [leased |-> FALSE, replaces |-> FALSE, setsAside |-> FALSE,
         forgets |-> FALSE, tears |-> FALSE]

Queued(s) == s \in {e.seq : e \in AllEntries}
Delayed(s) == \E k \in 1..Len(queue) : queue[k].seq = s /\ queue[k].at > 0
=============================================================================
