SPECIFICATION Spec
CONSTANTS
    w1 = w1
    w2 = w2
    client = client
    i1 = i1
    i2 = i2
    Runners = {w1, w2, client}
    NoRunner = NoRunner
    Invocations = {i1, i2}
    Controlled = {i1, i2}
    Limit = 1
    Workers = {w1, w2}
    Recoverers = {}
    Client = client
    MaxRetries = 1
    MaxRecoveries = 1
    RerouteOnCC = {i1, i2}
    Cancellable = {}
    WaitsOn = {}
    Unregistered = {}
    PromptClaims = {}
    MaxMisreads = 0
    Responsive = {}
INVARIANTS
    RunningWithinLimit
CHECK_DEADLOCK FALSE
