------------------------ MODULE MCTransactionalRuntime ------------------------
(***************************************************************************)
(* Deployments of TransactionalRuntime: a behaviour is played by one cast  *)
(* of workers, recovery passes and invocations, and the others stay away.  *)
(***************************************************************************)
EXTENDS TransactionalRuntime

CONSTANTS
    w1, w2,                          \* workers that may die at any step
    v1, v2,                          \* workers that neither fail nor fall behind
    m1, m2,                          \* recovery passes
    i1, c1, c2, c3, p1, r1, r2       \* invocations

VARIABLE cast

ParentWaitsOnChild == {<<p1, r1>>}

\* The process of w1 lacks the task of c3.
W1LacksC3 == {<<w1, c3>>}

Cast(workers, recoverers, invocations, misreadings, failures) ==
    [workers |-> workers, recoverers |-> recoverers, invocations |-> invocations,
     misreads |-> misreadings, retries |-> failures, anyone |-> FALSE]

\* Two workers and a pass on one invocation; and two runners that call the store
\* in any order.
CoreCasts == {
    Cast({w1, w2}, {m1}, {i1}, 0, 0),
    [Cast({m1, Client}, {}, {i1}, 0, 1) EXCEPT !.anyone = TRUE]}

\* Only the runners of the cast call, and the counters of the history are capped.
Calm ==
    /\ \A r \in Runners \ cast.workers : heartbeat'[r] = heartbeat[r]
    /\ \A i \in Invocations :
          /\ {record'[i].owner, result'[i], error'[i]} \subseteq cast.workers \union {NoRunner}
          /\ recoveries'[i] <= 1 /\ attempt'[i] <= 2

\* Two passes; two invocations that compete for one slot; and two of which one
\* worker lacks the task of one.
LimitCasts == {
    Cast({w1}, {m1, m2}, {i1}, 1, 0),
    Cast({w1, v1}, {m1}, {c1, c2}, 0, 0),
    Cast({w1, v1}, {m1}, {c1, c3}, 0, 0)}

\* A worker that dies next to one that does not; two workers with a parent and
\* the child it waits on; two workers that refuse the second of two invocations.
LiveCasts == {
    Cast({w1, v1}, {m1}, {i1}, 1, 1),
    Cast({v1, v2}, {}, {p1, r1}, 1, 1),
    Cast({v1, v2}, {}, {r1, r2}, 0, 1)}

Bounded ==
    /\ misreads' <= cast.misreads
    /\ \A i \in cast.invocations : retries'[i] <= cast.retries

CastNext ==
    /\ UNCHANGED cast
    /\ \/ \E w \in cast.workers : Claim(w) \/ Execute(w) \/ Live(w)
       \/ \E p \in cast.recoverers : Recover(p)
       \/ \E i \in cast.invocations : Environment(i)
    /\ Bounded

\* Or any transaction at any time.
CoreNext ==
    \/ ~cast.anyone /\ CastNext
    \/ /\ cast.anyone
       /\ StoreNext
       /\ UNCHANGED <<cast, workerVars, passVars, misreads>>
       /\ Calm /\ Bounded

castVars == <<vars, cast>>

CoreInit == Init /\ cast \in CoreCasts

CoreSpec == CoreInit /\ [][CoreNext]_castVars

LimitInit == Init /\ cast \in LimitCasts

LimitSpec == LimitInit /\ [][CastNext]_castVars

\* Fairness of TransactionalRuntime, for those who take part.
CastFairness ==
    /\ \A w \in Workers :
          /\ WF_castVars(w \in cast.workers /\ Progress(w) /\ UNCHANGED cast /\ Bounded)
          /\ WF_castVars(w \in cast.workers /\ WorkerFallsSilent(w) /\ UNCHANGED <<cast, misreads>>)
    /\ \A w \in Responsive \intersect Workers :
          WF_castVars(w \in cast.workers /\ StartWorker(w) /\ UNCHANGED <<cast, misreads>>)
    /\ \A p \in Recoverers :
          WF_castVars(p \in cast.recoverers /\ Recover(p) /\ UNCHANGED cast /\ Bounded)
    /\ \A i \in Invocations :
          /\ WF_castVars(i \in cast.invocations /\ StatusExpires(i) /\ UNCHANGED <<cast, misreads>>)
          /\ WF_castVars(i \in cast.invocations /\ LeaseExpires(i) /\ UNCHANGED <<cast, misreads>>)

LiveInit == Init /\ cast \in LiveCasts

LiveSpec == LiveInit /\ [][CastNext]_castVars /\ CastFairness

\* Every accepted invocation reaches a final status although a worker dies,
\* falls silent or loses its claim: its row, a retry or a recovery brings it
\* back.  A final status is for good, so from some moment on all have one.
AcceptedIsFinished ==
    <>[]\A i \in cast.invocations : Status(i) # NoRecord => Status(i) \in Final
=============================================================================
