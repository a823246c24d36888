------------------------------- MODULE Control -------------------------------
(***************************************************************************)
(* What the control port promises: records follow the status machine until *)
(* they are removed, a slot is taken only below the limit, and the release *)
(* of waiters names all it releases.  A store that reads in one command    *)
(* and writes in another promises less: the owner it validates against may *)
(* be an earlier one, and a release may miss who came in between.  A lock  *)
(* that lapses in the hands of its owner promises no limit.  Slots, waits  *)
(* and records may be cleaned away at any time; the callers decide when    *)
(* that is right.                                                          *)
(***************************************************************************)
EXTENDS ControlData

VARIABLES
    indexing,  \* whether callers index without asking for a slot
    exact,     \* whether a status change and a release are atomic
    lapsed,    \* whether a lock on the slots has been lost by its owner
    record,    \* status record of each invocation, or Absent
    slots,     \* invocations that hold a concurrency slot
    waits,     \* pairs <<waiter, waited_on>>
    released   \* the last answer of release_waiters: of whom, and who

vars == <<indexing, exact, lapsed, record, slots, waits, released>>

Init ==
    /\ indexing \in BOOLEAN /\ exact \in BOOLEAN /\ lapsed = FALSE
    /\ record = [i \in Invocations |-> Absent]
    /\ slots = {} /\ waits = {}
    /\ released = {}

\* A submission may index its invocation at once.
Register(i, runner) ==
    /\ UNCHANGED <<waits, released>>
    /\ record[i] = Absent
    /\ record' = [record EXCEPT ![i] = Registered(runner)]
    /\ slots' = slots \/ (indexing /\ slots' = slots \union {i})

\* What a change may be validated against.
Bases(i) ==
    IF exact THEN {record[i]} ELSE {[record[i] EXCEPT !.owner = r] : r \in Owners}

\* A final status may also give up the slot.
SetInvocationStatus(i, status, runner) ==
    /\ UNCHANGED <<waits, released>>
    /\ record[i] # Absent
    /\ \E base \in Bases(i) :
          /\ CanTransition(base, status, runner)
          /\ record' = [record EXCEPT ![i] = Transitioned(base, status, runner)]
    /\ \/ slots' = slots
       \/ status \in Final /\ slots' = slots \ {i}

TryAcquireSlot(i) ==
    /\ UNCHANGED <<record, waits, released>>
    /\ lapsed \/ Cardinality(Competitors(slots, i)) < Limit
    /\ slots' = slots \union {i}

\* index_for_concurrency_control asks for no limit.
IndexForConcurrencyControl(i) ==
    /\ UNCHANGED <<record, waits, released>>
    /\ indexing
    /\ slots' = slots \union {i}

SetWaitingFor(w, i) ==
    /\ UNCHANGED <<record, slots, released>>
    /\ waits' = waits \union {<<w, i>>}

Waiters(i) == {w \in Invocations : <<w, i>> \in waits}

ReleaseWaiters(i) ==
    /\ UNCHANGED <<record, slots>>
    /\ waits' = waits \ (Invocations \X {i})
    /\ IF exact THEN released' = Waiters(i) \X {i} ELSE released' \subseteq Invocations \X {i}

\* remove_from_concurrency_index, remove_invocation, purge, auto-purge.
Clean ==
    /\ UNCHANGED released
    /\ DOMAIN record' = Invocations
    /\ \A i \in Invocations : record'[i] \in {record[i], Absent}
    /\ slots' \subseteq slots /\ waits' \subseteq waits

Next ==
    /\ UNCHANGED <<indexing, exact>>
    /\ lapsed => lapsed'
    /\ \/ Clean
       \/ \E i \in Invocations :
             \/ TryAcquireSlot(i) \/ IndexForConcurrencyControl(i) \/ ReleaseWaiters(i)
             \/ \E w \in Invocations : SetWaitingFor(w, i)
             \/ /\ record'[i] # record[i]
                /\ \E r \in Owners : \/ Register(i, r)
                                     \/ \E s \in Statuses : SetInvocationStatus(i, s, r)

Spec == Init /\ [][Next]_vars
=============================================================================
