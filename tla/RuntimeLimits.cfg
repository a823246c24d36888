SPECIFICATION LimitSpec
CONSTANTS
    w1 = w1
    w2 = w2
    v1 = v1
    v2 = v2
    m1 = m1
    m2 = m2
    i1 = i1
    c1 = c1
    c2 = c2
    c3 = c3
    p1 = p1
    r1 = r1
    r2 = r2
    client = client
    NoRunner = NoRunner
    Runners = {w1, v1, m1, m2, client}
    Invocations = {i1, c1, c2, c3}
    Controlled = {c1, c2, c3}
    Limit = 1
    Workers = {w1, v1}
    Recoverers = {m1, m2}
    Client = client
    MaxRetries = 1
    MaxRecoveries = 1
    RerouteOnCC = {c1, c2, c3}
    Cancellable = {i1}
    WaitsOn = {}
    Unregistered <- W1LacksC3
    PromptClaims = {c1, c2, c3}
    MaxMisreads = 1
    Responsive = {v1}
INVARIANTS
    RecoveriesAreBounded
    OutcomeIsComplete
    ClaimedHoldsSlot
    SlotsWithinLimit
CHECK_DEADLOCK FALSE
