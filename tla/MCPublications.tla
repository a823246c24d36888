--------------------------- MODULE MCPublications ---------------------------
(***************************************************************************)
(* Uses of the publications that are small enough to run through: several  *)
(* calls about one invocation, and few about two that compete.             *)
(***************************************************************************)
EXTENDS ServerPublications, TLC

CONSTANTS r1, r2, r3, c1, c2, c3, i1, i2

Everyday == {"status", "retry", "reroute", "complete"}

Use(backend, invocations, controlled, runners, callers, offered) ==
    [backend |-> backend, invocations |-> invocations, controlled |-> controlled,
     runners |-> runners, callers |-> callers, offered |-> offered]

\* Two calls about one invocation, and one call at a time about two that share
\* a slot and a row of the queue.
RedisUses == {
    Use("redis", {i1}, {}, {r1, r2}, {c1, c2}, {"status", "recover", "complete"}),
    Use("redis", {i1, i2}, {i1, i2}, {r3}, {c3}, Everyday)}

PostgresUses == {
    Use("postgres", {i1}, {}, {r1, r2}, {c1, c2}, {"status", "recover", "complete"}),
    Use("postgres", {i1, i2}, {}, {r3}, {c1, c2}, {"status", "retry"}),
    Use("postgres", {i1}, {i1}, {r1, r2}, {c1, c2}, {"status", "retry", "reroute", "recover", "complete"}),
    Use("postgres", {i1, i2}, {i1, i2}, {r3}, {c3}, Everyday)}

RedisAndPostgresUses == RedisUses \union PostgresUses

Interchangeable == Permutations({r1, r2}) \union Permutations({c1, c2})
=============================================================================
