CONSTANTS
    i1 = i1
    i2 = i2
    rt = rt
    rt2 = rt2
    pt = pt
    q1 = q1
    q2 = q2
    c1 = c1
    c2 = c2
    Invocations = {i1, i2}
    RustTasks = {rt, rt2}
    PythonTasks = {pt}
    Untyped = TRUE
    Queues = {q1, q2}
    Priorities = {0, 1}
    MaxRoutes = 3
SPECIFICATION Spec
CHECK_DEADLOCK FALSE
INVARIANTS CountIsExact WithinMaxRows
PROPERTIES ImplementsBroker EntryIsDelivered PollsEnd
