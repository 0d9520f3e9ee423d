SPECIFICATION Spec
CONSTANTS
    w1 = w1  w2 = w2  w3 = w3  w4 = w4
    Workers = {w1, w2, w3}
    NoWorker = NoWorker
    Versions = {1, 2}
    VersionOf <- MCVersionOf
    BatchesOf <- MCBatchesOf
    MaxWorkers = 1
    MaxTries = 1
    Faults = {"kill"}
CHECK_DEADLOCK FALSE
PROPERTIES
    AlreadyIndexedIsTrue
