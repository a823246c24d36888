SPECIFICATION Spec
CONSTANTS
    w1 = w1
    w2 = w2
    m1 = m1
    client = client
    i1 = i1
    Runners = {w1, w2, m1, client}
    NoRunner = NoRunner
    Invocations = {i1}
    Controlled = {}
    Limit = 1
    Workers = {w1, w2}
    Recoverers = {m1}
    Client = client
    MaxRetries = 0
    MaxRecoveries = 1
    RerouteOnCC = {}
    Cancellable = {}
    WaitsOn = {}
    Unregistered = {}
    PromptClaims = {}
    MaxMisreads = 0
    Responsive = {}
PROPERTIES
    TakeOverNeedsStaleness
CHECK_DEADLOCK FALSE
