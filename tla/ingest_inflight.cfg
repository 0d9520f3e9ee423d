SPECIFICATION Spec
CONSTANTS
    d1 = d1  d2 = d2
    r1 = r1  r2 = r2  r3 = r3
    h1 = h1  h2 = h2  h3 = h3
    Docs = {d1}
    Requests = {r1, r2}
    DocOf <- MCDocOf
    NoRequest = NoRequest
    Handlers = {h1, h2, h3}
    NoHandler = NoHandler
    MaxWorkers = 1
    MaxAttempts = 2
    MaxCrashes = 0
    Faults = {}
    ReparseOutcomes = {TRUE, FALSE}
CHECK_DEADLOCK FALSE
SYMMETRY CallSymmetry
PROPERTIES
    InFlightMeansProcessing
