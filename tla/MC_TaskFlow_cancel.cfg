CONSTANTS
    Jobs = {j1}
    Workers = {w1, w2}
    Requests = {r1}
    NoWorker = NoWorker
    NoJob = NoJob
    NoRecord = NoRecord
    MaxAttemptsRequested = {2}
    AttemptsBound = 3
    CanCrash = FALSE
    CanShutdown = FALSE
    StoreFaults = FALSE
    RedisFaults = FALSE
    CanStopServer = FALSE
    RunBound = 3
SPECIFICATION Spec
SYMMETRY WorkerJobSymmetry
CONSTRAINT RunsWithinBound
INVARIANT TypeOK
INVARIANT NoLostJob
