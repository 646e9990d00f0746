SPECIFICATION GroupSpec
CONSTANTS
    w1 = w1
    w2 = w2
    Caller = Caller
    Workers <- MCWorkers
    MaxIndices = 4
    MaxRuns = 2
    Ring = 3
    InFlight = 2
    Readers = {"head"}
INVARIANTS
    JobOutlivesCalls
    RunComplete
    ReadsWhole
PROPERTIES
    PoolEnds
    PassesSettle
CHECK_DEADLOCK FALSE
