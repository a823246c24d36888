SPECIFICATION Spec
CONSTANTS
    r1 = r1
    r2 = r2
    r3 = r3
    c1 = c1
    c2 = c2
    c3 = c3
    i1 = i1
    i2 = i2
    Runners = {r1, r2, r3}
    NoRunner = NoRunner
    Invocations = {i1, i2}
    Callers = {c1, c2, c3}
    Uses <- RedisAndPostgresUses
    Limit = 1
    MaxRows = 1
    MaxTries = 2
    HistoryBound = 1
INVARIANTS
    AvailableIsQueued
    PayloadMatchesStatus
    QueueWithinRows
PROPERTIES
    ImplementsLifecycle
    AttemptsGrow
    RequeueNeedsSilence
SYMMETRY Interchangeable
CHECK_DEADLOCK FALSE
