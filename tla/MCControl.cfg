CONSTANTS
    i1 = i1
    i2 = i2
    i3 = i3
    i4 = i4
    r1 = r1
    r2 = r2
    c1 = c1
    c2 = c2
    NoCall = NoCall
    Runners = {r1, r2}
    NoRunner = NoRunner
    Invocations = {i1, i2, i3, i4}
    Rivals = {i1, i2}
    Foreign = {i4}
    Limit = 1
SPECIFICATION Spec
CHECK_DEADLOCK FALSE
INVARIANTS QueriesAgree  SlotsWithinLimit ReverseCoversIndex WaitersAreWoken
PROPERTIES ImplementsControl RemovedStaysRemoved 
