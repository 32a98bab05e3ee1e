CONSTANTS
    Jobs = {j1, j2}
    Workers = {w1, w2}
    Requests = {}
    NoWorker = NoWorker
    NoJob = NoJob
    NoRecord = NoRecord
    MaxAttemptsRequested = {2}
    AttemptsBound = 3
    CanCrash = FALSE
    CanShutdown = FALSE
    StoreFaults = FALSE
    RedisFaults = TRUE
    CanStopServer = FALSE
    RunBound = 3
SPECIFICATION Spec
SYMMETRY WorkerJobSymmetry
INVARIANT NoLostJob
