SPECIFICATION Spec
CONSTANTS
    d1 = d1  d2 = d2
    r1 = r1  r2 = r2  r3 = r3
    h1 = h1  h2 = h2  h3 = h3
    Docs = {d1, d2}
    Requests = {r1, r3}
    DocOf <- MCDocOf
    NoRequest = NoRequest
    Handlers = {h1, h2}
    NoHandler = NoHandler
    MaxWorkers = 1
    MaxAttempts = 1
    MaxCrashes = 2
    Faults = {"db", "redis", "submit", "callback"}
    ReparseOutcomes = {TRUE, FALSE}
CHECK_DEADLOCK FALSE
SYMMETRY CallSymmetry
PROPERTIES
    ImplementsLifecycle
