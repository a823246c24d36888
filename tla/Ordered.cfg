SPECIFICATION CastSpec
CONSTANTS
    w1 = w1
    w2 = w2
    s1 = s1
    m1 = m1
    client = client
    i1 = i1
    i2 = i2
    i3 = i3
    i4 = i4
    i5 = i5
    i6 = i6
    Runners = {w1, w2, s1, m1, client}
    NoRunner = NoRunner
    Invocations = {i1, i2, i3, i4, i5, i6}
    Workers = {w1, w2, s1}
    Recoverers = {m1}
    Client = client
    Controlled = {i2, i3, i5, i6}
    Limit = 1
    RerouteOnCC = {i2, i3}
    MaxRetries <- RetryLimits
    MaxRecoveries = 1
    Cancellable = {i1, i2, i3, i4, i5, i6}
    Awaited = {i1, i5}
    Unregistered <- W2LacksI5
    Mortal = {w1, w2, m1, client}
    Silent = {s1}
INVARIANTS
    TypeOK
    OutcomeIsStored
    StrandedOnlyByDeath
    SlotsAreGivenBack
PROPERTIES
    ImplementsLifecycle
    FinishedUnlessDeath
CHECK_DEADLOCK FALSE
