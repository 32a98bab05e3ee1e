------------------------------ MODULE TaskFlow ------------------------------
(***************************************************************************)
(* TaskFlow's job lifecycle: the broker (RedisQueue.tla) and the store     *)
(* (PostgresStorage.tla) shared by three kinds of concurrent actors:       *)
(*                                                                         *)
(*  - the createJob HTTP handler (internal/api/handlers.go), one request   *)
(*    per job id;                                                          *)
(*  - the workers (internal/worker/webhook_processor.go, Worker.Start and  *)
(*    processNextJob), each with its heartbeat goroutine;                  *)
(*  - the cancelJob HTTP handler, one in-flight request per element of     *)
(*    Requests;                                                            *)
(*                                                                         *)
(* plus the supervisor of cmd/worker/main.go, which cancels the context    *)
(* shared by all workers.  Every action is one round trip to Redis or      *)
(* Postgres, or one local decision, so the actors interleave exactly where *)
(* the code yields to the network.  The handler itself (ProcessJob) is one *)
(* step whose outcome, success or error, is a free choice.                 *)
(***************************************************************************)
EXTENDS RedisQueue, PostgresStorage, FiniteSets

CONSTANTS
    Requests,               \* concurrent cancelJob requests
    MaxAttemptsRequested,   \* values of JobRequest.max_attempts (0: absent)
    AttemptsBound,          \* bound on attempts for the type invariant
    CanCrash,               \* a worker process may be killed
    CanShutdown,            \* SIGINT/SIGTERM may reach cmd/worker
    StoreFaults,            \* Postgres statements may fail
    RedisFaults,            \* Redis round trips may fail
    CanStopServer           \* SIGINT/SIGTERM may reach cmd/server

ASSUME
    /\ MaxAttemptsRequested \subseteq Nat
    /\ AttemptsBound \in Nat \ {0}
    /\ {CanCrash, CanShutdown, StoreFaults, RedisFaults, CanStopServer} \subseteq BOOLEAN

VARIABLES
    jpc,        \* jpc[j]: where the createJob request for j is
    wpc,        \* wpc[w]: where worker w is in Start / processNextJob
    wjob,       \* wjob[w]: the id processNextJob is working on
    wcopy,      \* wcopy[w]: processNextJob's local job (DequeueJob's result)
    bcopy,      \* bcopy[w]: the record read by CompleteJob/FailJob's GET
    rpc,        \* rpc[r]: where cancel request r is
    rjobid,     \* rjobid[r]: the id request r cancels
    rcopy,      \* rcopy[r]: the job cancelJob read before deciding
    rbcopy,     \* rbcopy[r]: the record read by the GET of its FailJob
    cancelled,  \* the context of cmd/worker/main.go has been cancelled
    runs,       \* history: runs[j] counts the handler runs of job j
    srv         \* the API server of cmd/server: serving, draining, exited

actorVars == <<jpc, wpc, wjob, wcopy, bcopy, rpc, rjobid, rcopy, rbcopy, cancelled, runs, srv>>
vars == <<redisVars, storeVars, actorVars>>

-----------------------------------------------------------------------------
\* A Postgres write may fail when StoreFaults holds; callers that ignore the
\* error (the worker's UpdateJob and updateWorkerStatus) then change nothing.
MaybeStore(write) == write \/ (StoreFaults /\ UNCHANGED storeVars)

WorkerPCs == {"register", "top", "dq_get", "dq_lrem", "dq_set", "dq_stats",
              "busy", "handle", "c_get", "c_exec", "c_store",
              "f_get", "f_exec", "f_store", "idle", "done", "crashed"}

\* A worker between a successful BRPOPLPUSH and the end of processNextJob.
Holding == {"dq_get", "dq_lrem", "dq_set", "dq_stats", "busy", "handle",
            "c_get", "c_exec", "c_store", "f_get", "f_exec", "f_store", "idle"}

\* A worker that has taken the job from pending and not yet reported it.
Running == Holding \ {"c_store", "f_store", "idle"}

\* The heartbeat goroutine runs from Start's `go w.heartbeat(ctx)` until the
\* context is done or the process dies.
HeartbeatRunning(w) == ~cancelled /\ wpc[w] \notin {"register", "done", "crashed"}

Goto(w, pc) == wpc' = [wpc EXCEPT ![w] = pc]

-----------------------------------------------------------------------------
(* createJob: store.CreateJob, then queue.EnqueueJob (handlers.go 72-112). *)

CreateStore(j) ==
    /\ jpc[j] = "new"
    /\ srv = "serving"
    /\ \/ /\ \E m \in MaxAttemptsRequested : StoreCreateJob(j, NewJob(m))
          /\ jpc' = [jpc EXCEPT ![j] = "stored"]
       \/ /\ StoreFaults                         \* STORAGE_ERROR
          /\ jpc' = [jpc EXCEPT ![j] = "done"]
          /\ UNCHANGED storeVars
    /\ UNCHANGED <<redisVars, wpc, wjob, wcopy, bcopy, rpc, rjobid, rcopy, rbcopy, cancelled, runs, srv>>

\* The job passed to EnqueueJob is the one just inserted; nobody writes its
\* row before it is in Redis.
CreateEnqueue(j) ==
    /\ jpc[j] = "stored"
    /\ srv # "exited"
    /\ jpc' = [jpc EXCEPT ![j] = "done"]
    /\ \/ EnqueueJob(j, sjob[j])
       \/ RedisFaults /\ UNCHANGED redisVars     \* QUEUE_ERROR
    /\ UNCHANGED <<storeVars, wpc, wjob, wcopy, bcopy, rpc, rjobid, rcopy, rbcopy, cancelled, runs, srv>>

-----------------------------------------------------------------------------
(* Worker.Start and processNextJob.                                        *)

\* registerWorker; on error Start returns and the worker is gone.
WRegister(w) ==
    /\ wpc[w] = "register"
    /\ ~cancelled
    /\ \/ RegisterWorker(w, WStarting, NoJob) /\ Goto(w, "top")
       \/ StoreFaults /\ UNCHANGED storeVars /\ Goto(w, "done")
    /\ UNCHANGED <<redisVars, jpc, wjob, wcopy, bcopy, rpc, rjobid, rcopy, rbcopy, cancelled, runs, srv>>

\* The loop's select sees ctx.Done.
Exit(w) ==
    /\ wpc[w] = "top"
    /\ cancelled
    /\ Goto(w, "done")
    /\ UNCHANGED <<redisVars, storeVars, jpc, wjob, wcopy, bcopy, rpc, rjobid, rcopy, rbcopy, cancelled, runs, srv>>

\* DequeueJob: BRPOPLPUSH hands the tail of pending to this worker.  When
\* pending stays empty it times out (redis.Nil) and processNextJob returns
\* nil: a step that changes nothing, i.e. a stuttering step.
Lease(w) ==
    /\ wpc[w] = "top"
    /\ ~cancelled
    /\ \E j \in Jobs : BRPopLPush(j) /\ wjob' = [wjob EXCEPT ![w] = j]
    /\ Goto(w, "dq_get")
    /\ UNCHANGED <<storeVars, jpc, wcopy, bcopy, rpc, rjobid, rcopy, rbcopy, cancelled, runs, srv>>

\* DequeueJob's GetJob; on error it LREMs the id and returns the error.
DqGet(w) ==
    /\ wpc[w] = "dq_get"
    /\ \/ /\ GetJob(wjob[w]) # NoRecord
          /\ wcopy' = [wcopy EXCEPT ![w] = GetJob(wjob[w])]
          /\ Goto(w, "dq_set")
       \/ /\ GetJob(wjob[w]) = NoRecord \/ RedisFaults
          /\ Goto(w, "dq_lrem")
          /\ UNCHANGED wcopy
    /\ UNCHANGED <<redisVars, storeVars, jpc, wjob, bcopy, rpc, rjobid, rcopy, rbcopy, cancelled, runs, srv>>

DqLRem(w) ==
    /\ wpc[w] = "dq_lrem"
    /\ LRemProcessing(wjob[w])
    /\ wjob' = [wjob EXCEPT ![w] = NoJob]
    /\ Goto(w, "top")
    /\ UNCHANGED <<storeVars, jpc, wcopy, bcopy, rpc, rjobid, rcopy, rbcopy, cancelled, runs, srv>>

\* DequeueJob's UpdateJob of its copy, marked processing by this worker.  If
\* the SET fails DequeueJob returns the error: the id stays in processing,
\* the record stays as it was, and processNextJob returns to the loop.
DqSet(w) ==
    /\ wpc[w] = "dq_set"
    /\ \/ /\ wcopy' = [wcopy EXCEPT ![w] = Leased(wcopy[w], w)]
          /\ UpdateJob(wjob[w], Leased(wcopy[w], w))
          /\ Goto(w, "dq_stats")
          /\ UNCHANGED wjob
       \/ /\ RedisFaults
          /\ wcopy' = [wcopy EXCEPT ![w] = NoRecord]
          /\ wjob' = [wjob EXCEPT ![w] = NoJob]
          /\ Goto(w, "top")
          /\ UNCHANGED redisVars
    /\ UNCHANGED <<storeVars, jpc, bcopy, rpc, rjobid, rcopy, rbcopy, cancelled, runs, srv>>

DqStats(w) ==
    /\ wpc[w] = "dq_stats"
    /\ DequeueStats
    /\ Goto(w, "busy")
    /\ UNCHANGED <<storeVars, jpc, wjob, wcopy, bcopy, rpc, rjobid, rcopy, rbcopy, cancelled, runs, srv>>

\* updateWorkerStatus(ctx, "processing", job.ID).
Busy(w) ==
    /\ wpc[w] = "busy"
    /\ MaybeStore(RegisterWorker(w, WProcessing, wjob[w]))
    /\ Goto(w, "handle")
    /\ UNCHANGED <<redisVars, jpc, wjob, wcopy, bcopy, rpc, rjobid, rcopy, rbcopy, cancelled, runs, srv>>

\* registry.ProcessJob: the handler succeeds or returns an error.
Handle(w) ==
    /\ wpc[w] = "handle"
    /\ \E next \in {"c_get", "f_get"} : Goto(w, next)
    /\ runs' = [runs EXCEPT ![wjob[w]] = @ + 1]
    /\ UNCHANGED <<redisVars, storeVars, jpc, wjob, wcopy, bcopy, rpc, rjobid, rcopy, rbcopy, cancelled, srv>>

\* CompleteJob's GET; a missing key makes CompleteJob return its error,
\* which processNextJob only logs.
CGet(w) ==
    /\ wpc[w] = "c_get"
    /\ IF GetJob(wjob[w]) = NoRecord
       THEN Goto(w, "c_store") /\ UNCHANGED bcopy
       ELSE /\ bcopy' = [bcopy EXCEPT ![w] = CompletedRec(GetJob(wjob[w]))]
            /\ Goto(w, "c_exec")
    /\ UNCHANGED <<redisVars, storeVars, jpc, wjob, wcopy, rpc, rjobid, rcopy, rbcopy, cancelled, runs, srv>>

CExec(w) ==
    /\ wpc[w] = "c_exec"
    /\ CompleteJobExec(wjob[w], bcopy[w])
    /\ Goto(w, "c_store")
    /\ UNCHANGED <<storeVars, jpc, wjob, wcopy, bcopy, rpc, rjobid, rcopy, rbcopy, cancelled, runs, srv>>

\* storage.UpdateJob of the local job marked completed.
CStore(w) ==
    /\ wpc[w] = "c_store"
    /\ MaybeStore(StoreUpdateJob(wjob[w], CompletedRec(wcopy[w])))
    /\ Goto(w, "idle")
    /\ UNCHANGED <<redisVars, jpc, wjob, wcopy, bcopy, rpc, rjobid, rcopy, rbcopy, cancelled, runs, srv>>

FGet(w) ==
    /\ wpc[w] = "f_get"
    /\ IF GetJob(wjob[w]) = NoRecord
       THEN Goto(w, "f_store") /\ UNCHANGED bcopy
       ELSE /\ bcopy' = [bcopy EXCEPT ![w] = FailedRec(GetJob(wjob[w]), HandlerErr)]
            /\ Goto(w, "f_exec")
    /\ UNCHANGED <<redisVars, storeVars, jpc, wjob, wcopy, rpc, rjobid, rcopy, rbcopy, cancelled, runs, srv>>

FExec(w) ==
    /\ wpc[w] = "f_exec"
    /\ FailJobPipeline(wjob[w], bcopy[w])
    /\ Goto(w, "f_store")
    /\ UNCHANGED <<storeVars, jpc, wjob, wcopy, bcopy, rpc, rjobid, rcopy, rbcopy, cancelled, runs, srv>>

\* The worker's mirror of a failure: status failed whatever FailJob decided,
\* attempts of its own copy plus one, completed_at once attempts reach max.
WorkerFailedRec(rec) ==
    [rec EXCEPT !.status = Failed, !.err = HandlerErr, !.attempts = rec.attempts + 1,
                !.completed = IF rec.attempts + 1 >= rec.maxAttempts THEN TRUE ELSE rec.completed]

FStore(w) ==
    /\ wpc[w] = "f_store"
    /\ MaybeStore(StoreUpdateJob(wjob[w], WorkerFailedRec(wcopy[w])))
    /\ Goto(w, "idle")
    /\ UNCHANGED <<redisVars, jpc, wjob, wcopy, bcopy, rpc, rjobid, rcopy, rbcopy, cancelled, runs, srv>>

\* updateWorkerStatus(ctx, "idle", ""), then back to the loop.
Idle(w) ==
    /\ wpc[w] = "idle"
    /\ MaybeStore(RegisterWorker(w, WIdle, NoJob))
    /\ Goto(w, "top")
    /\ wjob' = [wjob EXCEPT ![w] = NoJob]
    /\ wcopy' = [wcopy EXCEPT ![w] = NoRecord]
    /\ bcopy' = [bcopy EXCEPT ![w] = NoRecord]
    /\ UNCHANGED <<redisVars, jpc, rpc, rjobid, rcopy, rbcopy, cancelled, runs, srv>>

\* A tick of the heartbeat goroutine: updateWorkerStatus(ctx, "idle", "").
Heartbeat(w) ==
    /\ HeartbeatRunning(w)
    /\ MaybeStore(RegisterWorker(w, WIdle, NoJob))
    /\ UNCHANGED <<redisVars, actorVars, srv>>

\* Once the context is cancelled every Redis and Postgres call of the worker
\* fails at once and the handler returns ctx.Err(): whatever step the worker
\* is at, the rest of processNextJob changes nothing and it returns to the
\* loop (registerWorker failing ends Start).
Abandon(w) ==
    /\ cancelled
    /\ wpc[w] \notin {"top", "done", "crashed"}
    /\ Goto(w, IF wpc[w] = "register" THEN "done" ELSE "top")
    /\ wjob' = [wjob EXCEPT ![w] = NoJob]
    /\ wcopy' = [wcopy EXCEPT ![w] = NoRecord]
    /\ bcopy' = [bcopy EXCEPT ![w] = NoRecord]
    /\ UNCHANGED <<redisVars, storeVars, jpc, rpc, rjobid, rcopy, rbcopy, cancelled, runs, srv>>

\* The worker process is killed: the worker and its heartbeat stop.
Crash(w) ==
    /\ CanCrash
    /\ wpc[w] \notin {"done", "crashed"}
    /\ Goto(w, "crashed")
    /\ UNCHANGED <<redisVars, storeVars, jpc, wjob, wcopy, bcopy, rpc, rjobid, rcopy, rbcopy, cancelled, runs, srv>>

\* cmd/worker/main.go: a signal arrives and cancel() is called.
Shutdown ==
    /\ CanShutdown
    /\ ~cancelled
    /\ cancelled' = TRUE
    /\ UNCHANGED <<redisVars, storeVars, jpc, wpc, wjob, wcopy, bcopy, rpc, rjobid, rcopy, rbcopy, runs, srv>>

-----------------------------------------------------------------------------
(* cmd/server/main.go: the API server serves requests from its own         *)
(* goroutines until SIGINT/SIGTERM; http.Server.Shutdown then closes the   *)
(* listeners, so no new request starts, and waits for the requests in      *)
(* flight.  When they finish, or when its 30 s context expires first, main *)
(* returns and the process exits, ending any handler still running.  The  *)
(* request handlers above and below take no step once it has exited.       *)

\* main connects to Redis and Postgres and starts ListenAndServe in a
\* goroutine.  A failed connection is log.Fatalf: a server that exits
\* before serving, which ServerStop and ServerExit as first steps cover.
ServerInit == srv = "serving"

ServerStop ==
    /\ CanStopServer
    /\ srv = "serving"
    /\ srv' = "draining"
    /\ UNCHANGED <<redisVars, storeVars, jpc, wpc, wjob, wcopy, bcopy, rpc, rjobid, rcopy, rbcopy, cancelled, runs>>

\* Shutdown returns nil once no request is in flight, or its context's
\* deadline error at any earlier moment; main returns either way.
ServerExit ==
    /\ srv = "draining"
    /\ srv' = "exited"
    /\ UNCHANGED <<redisVars, storeVars, jpc, wpc, wjob, wcopy, bcopy, rpc, rjobid, rcopy, rbcopy, cancelled, runs>>

-----------------------------------------------------------------------------
(* cancelJob (handlers.go 179-224).                                        *)

\* getJob's lookup, shared by cancelJob: the broker's record ("for real-time
\* status"), else the Postgres row, else JOB_NOT_FOUND (NoRecord).
JobView(j) == IF GetJob(j) # NoRecord THEN GetJob(j) ELSE StoreGetJob(j)

\* GetJob from Redis, else from Postgres; refuse terminal jobs.
CancelRead(r) ==
    /\ rpc[r] = "read"
    /\ srv = "serving"
    /\ \E j \in Jobs :
         LET rec == JobView(j)
         IN  IF rec = NoRecord \/ rec.status \in Terminal
             THEN rpc' = [rpc EXCEPT ![r] = "done"] /\ UNCHANGED <<rjobid, rcopy, srv>>
             ELSE /\ rpc' = [rpc EXCEPT ![r] = "r_get"]
                  /\ rjobid' = [rjobid EXCEPT ![r] = j]
                  /\ rcopy' = [rcopy EXCEPT ![r] = rec]
    /\ UNCHANGED <<redisVars, storeVars, jpc, wpc, wjob, wcopy, bcopy, rbcopy, cancelled, runs, srv>>

\* FailJob's GET; a missing key is CANCEL_ERROR.
CancelGet(r) ==
    /\ rpc[r] = "r_get"
    /\ srv # "exited"
    /\ IF GetJob(rjobid[r]) = NoRecord
       THEN rpc' = [rpc EXCEPT ![r] = "done"] /\ UNCHANGED rbcopy
       ELSE /\ rbcopy' = [rbcopy EXCEPT ![r] = FailedRec(GetJob(rjobid[r]), CancelErr)]
            /\ rpc' = [rpc EXCEPT ![r] = "r_exec"]
    /\ UNCHANGED <<redisVars, storeVars, jpc, wpc, wjob, wcopy, bcopy, rjobid, rcopy, cancelled, runs, srv>>

CancelExec(r) ==
    /\ rpc[r] = "r_exec"
    /\ srv # "exited"
    /\ FailJobPipeline(rjobid[r], rbcopy[r])
    /\ rpc' = [rpc EXCEPT ![r] = "r_store"]
    /\ UNCHANGED <<storeVars, jpc, wpc, wjob, wcopy, bcopy, rjobid, rcopy, rbcopy, cancelled, runs, srv>>

\* storage.UpdateJob of the job read first, status failed with the cancel
\* message; its error is ignored.
CancelStore(r) ==
    /\ rpc[r] = "r_store"
    /\ srv # "exited"
    /\ MaybeStore(StoreUpdateJob(rjobid[r],
                    [rcopy[r] EXCEPT !.status = Failed, !.err = CancelErr]))
    /\ rpc' = [rpc EXCEPT ![r] = "done"]
    /\ UNCHANGED <<redisVars, jpc, wpc, wjob, wcopy, bcopy, rjobid, rcopy, rbcopy, cancelled, runs, srv>>

-----------------------------------------------------------------------------
(* listJobs (handlers.go 141-176) only reads the store: its page and       *)
(* page_size parameters, strconv.Atoi's 0 for a missing or malformed one,  *)
(* and the total_pages it reports.                                         *)

PageParam(q) == IF q < 1 THEN 1 ELSE q

PageSizeParam(q) == IF q < 1 \/ q > 100 THEN 20 ELSE q

\* Mutant: total_pages rounded down.
TotalPagesFloor(total, pageSize) == total \div pageSize

TotalPages(total, pageSize) == (total + pageSize - 1) \div pageSize

\* The body of GET /api/v1/jobs?status=s&page=pq&page_size=sq (a failing
\* ListJobs answers STORAGE_ERROR instead and lists nothing).
ListJobsResponse(s, pq, sq) ==
    LET page  == PageParam(pq)
        size  == PageSizeParam(sq)
        total == CountJobs(s)
    IN  [jobs |-> ListJobsPage(page, size, total), total |-> total, page |-> page,
         pageSize |-> size, totalPages |-> TotalPages(total, size)]

\* page_size values a client can send: absent, 1, 2, over the limit.
PageSizeQueries == {0, 1, 2, 101}

-----------------------------------------------------------------------------
Init ==
    /\ RedisInit
    /\ StoreInit
    /\ jpc = [j \in Jobs |-> "new"]
    /\ wpc = [w \in Workers |-> "register"]
    /\ wjob = [w \in Workers |-> NoJob]
    /\ wcopy = [w \in Workers |-> NoRecord]
    /\ bcopy = [w \in Workers |-> NoRecord]
    /\ rpc = [r \in Requests |-> "read"]
    /\ rjobid = [r \in Requests |-> NoJob]
    /\ rcopy = [r \in Requests |-> NoRecord]
    /\ rbcopy = [r \in Requests |-> NoRecord]
    /\ cancelled = FALSE
    /\ runs = [j \in Jobs |-> 0]
    /\ ServerInit

\* The steps of worker w's main goroutine.
WorkerStep(w) ==
    \/ WRegister(w) \/ Exit(w) \/ Lease(w)
    \/ DqGet(w) \/ DqLRem(w) \/ DqSet(w) \/ DqStats(w) \/ Busy(w) \/ Handle(w)
    \/ CGet(w) \/ CExec(w) \/ CStore(w) \/ FGet(w) \/ FExec(w) \/ FStore(w)
    \/ Idle(w)

CancelStep(r) ==
    CancelRead(r) \/ CancelGet(r) \/ CancelExec(r) \/ CancelStore(r)

CreateStep(j) == CreateStore(j) \/ CreateEnqueue(j)

Next ==
    \/ \E j \in Jobs : CreateStep(j)
    \/ \E w \in Workers : WorkerStep(w) \/ Heartbeat(w) \/ Abandon(w) \/ Crash(w)
    \/ \E r \in Requests : CancelStep(r)
    \/ Shutdown
    \/ ServerStop \/ ServerExit

\* Goroutines that are runnable are eventually scheduled; Redis and Postgres
\* answer.  Crashes, signals and heartbeat ticks are not forced.
Fairness ==
    /\ \A j \in Jobs : WF_vars(CreateStep(j))
    /\ \A w \in Workers : WF_vars(WorkerStep(w)) /\ WF_vars(Abandon(w))
    /\ \A r \in Requests : WF_vars(CancelStep(r))

Spec == Init /\ [][Next]_vars /\ Fairness

-----------------------------------------------------------------------------
(* Properties.                                                             *)

TypeOK ==
    /\ pending \in Seq(Jobs) /\ processing \in Seq(Jobs)
    /\ rjob \in [Jobs -> JobRec(AttemptsBound) \cup {NoRecord}]
    /\ stats \in [StatKeys -> Int]
    /\ sjob \in [Jobs -> JobRec(AttemptsBound) \cup {NoRecord}]
    /\ sworker \in [Workers -> WorkerRow \cup {NoRecord}]
    /\ jpc \in [Jobs -> {"new", "stored", "done"}]
    /\ wpc \in [Workers -> WorkerPCs]
    /\ wjob \in [Workers -> Jobs \cup {NoJob}]
    /\ wcopy \in [Workers -> JobRec(AttemptsBound) \cup {NoRecord}]
    /\ bcopy \in [Workers -> JobRec(AttemptsBound) \cup {NoRecord}]
    /\ rpc \in [Requests -> {"read", "r_get", "r_exec", "r_store", "done"}]
    /\ rjobid \in [Requests -> Jobs \cup {NoJob}]
    /\ rcopy \in [Requests -> JobRec(AttemptsBound) \cup {NoRecord}]
    /\ rbcopy \in [Requests -> JobRec(AttemptsBound) \cup {NoRecord}]
    /\ cancelled \in BOOLEAN
    /\ runs \in [Jobs -> Nat]
    /\ srv \in {"serving", "draining", "exited"}

\* The spec (section 5): the lease -> outcome sequence of one job id is
\* serial.  No two workers run the same job between BRPOPLPUSH and the
\* outcome they report, although DequeueJob, FailJob and CompleteJob read and
\* write the record in separate round trips.
LeaseExclusive ==
    \A w1, w2 \in Workers :
        (w1 # w2 /\ wpc[w1] \in Running /\ wpc[w2] \in Running) => wjob[w1] # wjob[w2]

\* The spec (section 8.1): attempts never exceed max_attempts in the
\* broker's record, whichever of FailJob's branches ran and however often
\* the job went round pending.
AttemptsBounded ==
    \A j \in Jobs : rjob[j] # NoRecord => rjob[j].attempts <= rjob[j].maxAttempts

\* No job is dropped: every job in Redis that is not completed or failed is
\* in the pending list or held by a live worker, across requeueJobWithDelay,
\* the LREMs of CompleteJob and FailJob, and DequeueJob's error path.
NoLostJob ==
    \A j \in Jobs :
        (rjob[j] # NoRecord /\ rjob[j].status \notin Terminal)
            => \/ Contains(pending, j)
               \/ \E w \in Workers : wpc[w] \in Holding /\ wjob[w] = j

\* A completed or failed job stays so: no later FailJob, DequeueJob or
\* CompleteJob write changes the status of a terminal record.
TerminalStable ==
    [][\A j \in Jobs :
         (rjob[j] # NoRecord /\ rjob[j].status \in Terminal) => rjob'[j].status = rjob[j].status]_rjob

\* The spec (section 8.3): every id in the processing list is leased to a
\* worker that has not yet reported its outcome.
ProcessingHeld ==
    \A j \in Range(processing) : \E w \in Workers : wpc[w] \in Running /\ wjob[w] = j

\* The spec (sections 3 and 4.5e): the broker decides between retry and
\* failure and the Store mirrors it; a job the Store shows completed or
\* failed has that status in the broker too.
StoreAgreesOnTerminal ==
    \A j \in Jobs :
        (sjob[j] # NoRecord /\ sjob[j].status \in Terminal)
            => rjob[j] # NoRecord /\ rjob[j].status = sjob[j].status

\* The spec (section 4.5c): while a worker runs a handler, its row in the
\* workers table says processing, with the job as current_job.
RegistryShowsBusy ==
    \A w \in Workers :
        wpc[w] = "handle" => sworker[w] = [status |-> WProcessing, current |-> wjob[w]]

\* GET /api/v1/jobs, for every status filter and page_size, as listJobs
\* clamps them and ListJobs turns them into LIMIT and OFFSET: walking
\* page=1 .. total_pages lists every row of the jobs table that the filter
\* selects exactly once, no page in that range is empty, and the page after
\* it is - whatever rows the workers and handlers have written.
PagesPartitionJobs ==
    \A s \in {""} \cup Statuses, q \in PageSizeQueries :
        LET R(p) == ListJobsResponse(s, p, q)
            last == R(1).totalPages
        IN  /\ UNION {R(p).jobs : p \in 1..last} = 1..R(1).total
            /\ \A p1, p2 \in 1..last : p1 # p2 => R(p1).jobs \cap R(p2).jobs = {}
            /\ \A p \in 1..last : R(p).jobs # {}
            /\ R(last + 1).jobs = {}

\* GET /api/v1/stats (GetStats' HGETALL of taskflow:stats) against the job
\* records in Redis: total counts every job EnqueueJob stored, completed and
\* failed count the records with that status, and pending + processing the
\* records still open.  The pending and processing counters on their own
\* drift (FailJob's retry branch returns before its HINCRBYs, and DequeueJob
\* moves them a round trip after its SET); their sum must not.
StatsAgreeWithRecords ==
    LET s == GetStats
        stored == {j \in Jobs : GetJob(j) # NoRecord}
        With(st) == Cardinality({j \in stored : GetJob(j).status = st})
    IN  /\ s.total = Cardinality(stored)
        /\ s.completed = With(Completed)
        /\ s.failed = With(Failed)
        /\ s.pending + s.processing = Cardinality({j \in stored : GetJob(j).status \notin Terminal})

\* Every job createJob inserted into Postgres is eventually shown completed
\* or failed by GET /api/v1/jobs/{id} (Redis first, then Postgres), through
\* the window before EnqueueJob, any number of handler errors and requeues,
\* when workers keep running.
JobsFinish ==
    \A j \in Jobs :
        StoreGetJob(j) # NoRecord ~> (JobView(j) # NoRecord /\ JobView(j).status \in Terminal)

-----------------------------------------------------------------------------
(* Refinement: the broker's records, seen one job at a time, follow         *)
(* JobLifecycle.  Every round trip that writes taskflow:job:<id> is one     *)
(* lifecycle transition or leaves the lifecycle unchanged.                 *)

LifecycleOf(rec) ==
    IF rec = NoRecord THEN NoRecord
    ELSE [status |-> rec.status, attempts |-> rec.attempts, max |-> rec.maxAttempts]

Lifecycle == INSTANCE JobLifecycle
                 WITH job <- [j \in Jobs |-> LifecycleOf(rjob[j])],
                      Limits <- {NewJob(m).maxAttempts : m \in MaxAttemptsRequested}

\* The records in Redis change only as the specification's lifecycle allows:
\* submitted pending, leased to processing, then completed, or one attempt
\* spent and retrying or failed, with DequeueJob, CompleteJob and FailJob
\* each writing their record in several round trips.
LifecycleRefined == Lifecycle!Spec

=============================================================================
