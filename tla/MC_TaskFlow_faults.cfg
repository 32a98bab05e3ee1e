\* Crashes, SIGTERM to the workers and to the API server, and failing Postgres
\* and Redis calls; the worker process
\* really stops after a shutdown or when every worker crashed.
CONSTANTS
    Jobs = {j1, j2}
    Workers = {w1, w2}
    Requests = {}
    NoWorker = NoWorker
    NoJob = NoJob
    NoRecord = NoRecord
    MaxAttemptsRequested = {2}
    AttemptsBound = 3
    CanCrash = TRUE
    CanShutdown = TRUE
    StoreFaults = TRUE
    RedisFaults = TRUE
    CanStopServer = TRUE
    RunBound = 3
SPECIFICATION Spec
SYMMETRY WorkerJobSymmetry
INVARIANT TypeOK
INVARIANT LeaseExclusive
INVARIANT AttemptsBounded
INVARIANT StatsAgreeWithRecords
PROPERTY TerminalStable
CHECK_DEADLOCK FALSE
