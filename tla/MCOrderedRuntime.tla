--------------------------- MODULE MCOrderedRuntime ---------------------------
(***************************************************************************)
(* Deployments of OrderedRuntime: a behaviour is played by one cast of     *)
(* workers, recovery passes and invocations, and the others stay away.     *)
(***************************************************************************)
EXTENDS OrderedRuntime

CONSTANTS
    w1, w2,      \* workers
    s1,          \* a worker that misses heartbeats
    m1,          \* a recovery pass
    i1, i2, i3, i4, i5, i6   \* invocations

VARIABLE cast

\* A task with reroute_on_cc does not retry here: see OrderedRetry.cfg.
RetryLimits == [i \in Invocations |-> IF i \in RerouteOnCC THEN 0 ELSE 1]

W2LacksI5 == {<<w2, i5>>}

OneRetry == [i \in Invocations |-> 1]

Cast(workers, recoverers, invocations, mortal) ==
    [workers |-> workers, recoverers |-> recoverers, invocations |-> invocations,
     mortal |-> mortal]

\* One invocation with everything that can happen to it, two that compete for a
\* slot, with processes that die and with processes that go on, and one under
\* control that is delivered twice and that one of the workers lacks.
OrderedCasts == {
    Cast({w1, w2}, {m1}, {i1}, {w1, m1, Client}),
    Cast({w1, w2}, {m1}, {i2, i6}, {w1}),
    Cast({w1, w2}, {m1}, {i5}, {w1}),
    Cast({s1, w2}, {m1}, {i4}, {}),
    Cast({w1, w2}, {m1}, {i2, i3}, {})}

CastNext ==
    /\ UNCHANGED cast
    /\ \/ \E w \in cast.workers : Work(w) \/ Pulse(w)
       \/ \E p \in cast.recoverers : Recover(p)
       \/ \E i \in cast.invocations : Submit(i) \/ Time(i) \/ Environment(i)
       \/ \E r \in cast.mortal : Fault(r)

castVars == <<vars, cast>>

Lasting == {c \in OrderedCasts : c.mortal = {}}

\* Fairness of OrderedRuntime, in the casts whose processes go on.
Going(A) == cast.mortal = {} /\ A /\ UNCHANGED cast

Deadline(i) == (submission[i] # "new" /\ Submit(i)) \/ Time(i)

CastFairness ==
    /\ \A w \in UNION {c.workers : c \in Lasting} :
          WF_castVars(Going(w \in cast.workers /\ Work(w)))
    /\ \A p \in UNION {c.recoverers : c \in Lasting} : WF_castVars(Going(Recover(p)))
    /\ \A i \in UNION {c.invocations : c \in Lasting} :
          /\ WF_castVars(Going(i \in cast.invocations /\ Deadline(i)))
          /\ SF_castVars(Going(i \in cast.invocations /\ InTurn(i)))

CastInit == Init /\ cast \in OrderedCasts

CastSpec == CastInit /\ [][CastNext]_castVars /\ CastFairness

\* Without deaths every accepted invocation reaches a final status, whatever
\* steps of workers, recovery passes and clients interleave; a final status is
\* for good, so from some moment on all have one.
FinishedUnlessDeath ==
    <>[](cast.mortal = {} =>
            \A i \in cast.invocations : Status(i) # NoRecord => Status(i) \in Final)
=============================================================================
