SPECIFICATION CoreSpec
CONSTANTS
    w1 = w1
    w2 = w2
    v1 = v1
    v2 = v2
    m1 = m1
    m2 = m2
    i1 = i1
    c1 = c1
    c2 = c2
    c3 = c3
    p1 = p1
    r1 = r1
    r2 = r2
    client = client
    NoRunner = NoRunner
    Runners = {w1, w2, m1, client}
    Invocations = {i1}
    Controlled = {}
    Limit = 1
    Workers = {w1, w2}
    Recoverers = {m1}
    Client = client
    MaxRetries = 1
    MaxRecoveries = 1
    RerouteOnCC = {}
    Cancellable = {i1}
    WaitsOn = {}
    Unregistered = {}
    PromptClaims = {}
    MaxMisreads = 0
    Responsive = {}
INVARIANTS
    TypeOK
    LiveOwnerIsWorking
    AttemptsAreDistinct
    AvailableIsQueued
    ResultIffSuccess
PROPERTIES
    ImplementsStore
    ResultByOwnerOnce
    AttemptsGrow
    RequeueNeedsStaleness
    ImplementsLifecycle
CHECK_DEADLOCK FALSE
