# TaskFlow: TLA+ models of the job lifecycle

This directory models TaskFlow's job lifecycle in TLA+ and checks it with TLC.
TaskFlow is a Go background-job system (`src/`). The models cover the broker,
the store, the workers, the HTTP handlers that change job state, and the
supervisor that stops the workers. Each of these is modelled one network
round trip at a time, so TLC explores every interleaving the code allows.

## 1. The system (inventory)

| Part (spec name) | Source | State it owns | Operations that change state |
|---|---|---|---|
| Job model (C1) | `src/unnamed/part_001` 224-293, `part_002` 19-168 | none (values) | `NewJob`; `ValidateJobRequest`, `IsRetryableError` are pure |
| Store (C2) | `src/internal/storage/postgres.go` | tables `jobs`, `workers` | `CreateJob`, `UpdateJob` (all columns but `max_attempts`, no row means no change), `RegisterWorker` (upsert, last writer wins) |
| Broker (C3) | `src/internal/queue/redis.go` 13-297 | lists `pending`, `processing`; `taskflow:job:<id>` records (24 h TTL); hash `taskflow:stats` | `EnqueueJob`, `DequeueJob` (BRPOPLPUSH, GET, SET, stats), `UpdateJob`, `CompleteJob` (GET, then pipeline), `FailJob` (GET, then `requeueJobWithDelay` or the pipeline) |
| Handler registry (C4) | `src/unnamed/part_003` 283-344, `webhook_processor.go` 1-250 | read-only map | `ProcessJob`: success or error |
| Worker (C5) | `src/internal/worker/webhook_processor.go` 260-422 | worker goroutine and heartbeat goroutine | `Start`, `processNextJob`, `registerWorker`, `heartbeat`, `updateWorkerStatus` |
| Submission API (C6) | `src/internal/api/handlers.go` | none of its own | `createJob` (store, then enqueue), `cancelJob` (read, then check, then `FailJob`, then mirror); `getJob` reads Redis, then Postgres; `listJobs` pages the store; `getStats` reads the counters; `getWorkers` and `healthCheck` only read |
| API server process | `src/cmd/server/main.go` | the HTTP server | serves until SIGINT/SIGTERM, then `Shutdown` drains for at most 30 s and the process exits |
| Supervisor (C7) | `src/cmd/worker/main.go` 17-91 | the shared context | starts N workers; on SIGINT/SIGTERM calls `cancel()` |
| Load-test client | `src/scripts/load-test.go` | goroutines, a semaphore channel, a WaitGroup, six atomic int64 counters | `main` checks `/api/v1/health` and returns if it fails; `runLoadTest` (count- or duration-based), `makeJobRequest`; `printResults` rates the run |
| Metrics, Docker, other scripts | `part_002` 181-486, `part_000`, `scripts/test-jobs.sh` | observation only | none that affect jobs |
| Logger, config package | `internal/logger`, `internal/config` | none | no program imports them: `cmd/worker` and `cmd/server` read the environment with their own `getConfig` |

### How the parts interact

- A job is created by `createJob`. The handler writes the Postgres row first, then pipelines the Redis record and pushes the id onto `pending`.
- A worker takes the tail of `pending` with BRPOPLPUSH, which also puts the id at the head of `processing`. It then reads the record, writes it back marked `processing`, and moves the counters.
- The worker records itself busy in Postgres and runs the handler.
- On success the worker calls `CompleteJob`. On an error it calls `FailJob`.
- In both cases it then mirrors its own local copy into Postgres and records itself idle.
- `cancelJob` reads the job, refuses terminal jobs, calls `FailJob` itself, and mirrors its early copy into Postgres.
- A heartbeat goroutine per worker upserts the worker row as `idle` every 30 s.

### What makes it hard

Every broker method is several round trips with no transaction around them:
- DequeueJob runs GET, then SET.
- CompleteJob and FailJob each run a GET, then a pipeline.

The callers run concurrently: N workers plus any number of HTTP requests. Other hazards:
- The retry branch of `FailJob` returns before it removes the id from `processing`.
- The worker mirrors "failed" to Postgres whatever the broker decided.
- No reaper reads `processing`.
- Shutdown cancels the context under a running job.

PROJECT.json lists every such hazard at its line.

## 2. Modules

| Module | Models | State | Actions / operators |
|---|---|---|---|
| `JobModel` | `types.Job`, `JobStatus`, `NewJob` | constants `Jobs`, `Workers` | `NewJob(m)`, `JobRec(bound)` |
| `RedisQueue` | `redis.go` | `pending`, `processing` (sequences, head first), `rjob`, `stats` | one operator per round trip: `EnqueueJob`, `BRPopLPush`, `LRemProcessing`, `UpdateJob`, `DequeueStats`, `CompleteJobExec`, `FailJobPipeline` = `RequeueJobWithDelay` or `FailJobExec`; record updates `Leased`, `CompletedRec`, `FailedRec`; reads `GetJob`, `GetStats` |
| `PostgresStorage` | `postgres.go` | `sjob`, `sworker` | `StoreCreateJob`, `StoreUpdateJob`, `RegisterWorker`; the read `StoreGetJob`; `ListJobs`' `CountJobs` and `ListJobsPage` (the LIMIT/OFFSET window) |
| `TaskFlow` | workers, heartbeat, `createJob`, `cancelJob`, `listJobs`, the supervisor and the API server, all composed | program counters `jpc`, `wpc`, `rpc`; the callers' local copies (`wcopy`, `bcopy`, `rcopy`, `rbcopy`); `cancelled`; `srv`; history `runs` | see below |
| `JobLifecycle` | the spec's lifecycle of a job (sections 3, 4.3) | `job` | `Submit`, `Start`, `Complete`, `Fail`: the abstract specification `TaskFlow` implements |
| `RetryDelay` | `calculateRetryDelay` and the retry part of `FailJob` | one job's `maxAttempts`, `attempts`, `status`, `delay` | `CalculateRetryDelay` on 64-bit words (`Word`, `ShiftLeft`, `SignedLess`, `Seconds`), `FailJob`; reference `SpecDelay` |
| `LoadTest` | `scripts/load-test.go` | `main`, `started`, per-goroutine `pc`, `rt`, `cur`; `sem`; the atomic counters; the printed `reliability` | `TestConnectivity`, `Spawn`, `StopSpawning`, `Wait`, `PrintResults` (with `RateAbove`, `Reliability`); per goroutine `Acquire`, `Request`, `MinLoad`, `MinCas`, `MaxLoad`, `MaxCas`, `Release` |
| `RetryableError` | `IsRetryableError`, `contains`, `hasSubstring` (`part_002` 124-168) | none: strings are sequences of bytes | `Slice` (Go's `s[i:k]`), `hasSubstring`, `contains`, `IsRetryableError` |
| `MC_TaskFlow` | TLC instantiation; extends `TaskFlow` and `RetryableError` | constant `RunBound` | symmetry set, state constraint; `TestStrings` and the reference check `ContainsAgrees` |

In `TaskFlow`, each action is one step of one actor.

- **createJob:** `CreateStore`, then `CreateEnqueue`.
- **Worker goroutine:** `WRegister`, `Exit`, `Lease`, `DqGet`, `DqLRem`, `DqSet`, `DqStats`, `Busy`, `Handle`, `CGet`, `CExec`, `CStore`, `FGet`, `FExec`, `FStore`, `Idle`.
- **Heartbeat goroutine:** `Heartbeat`.
- **Context cancelled:** `Abandon`. Every later call of that worker fails, and it goes back to its loop.
- **Process killed:** `Crash`.
- **Supervisor:** `Shutdown`.
- **cancelJob:** `CancelRead`, `CancelGet`, `CancelExec`, `CancelStore`.
- **API server (`cmd/server`):** `ServerInit` (serving), `ServerStop` (a signal: `Shutdown` closes the listeners, so no request starts) and `ServerExit` (main returns, when the requests in flight finish or the 30 s context expires first). After it, no request handler takes a step.
- **getJob:** read only. `JobView(j)` is its lookup: `GetJob` from Redis, else `StoreGetJob` from Postgres, else JOB_NOT_FOUND. `CancelRead` uses the same lookup, as cancelJob's code does.
- **getStats:** read only. `GetStats` is the counter hash.
- **listJobs:** read only. `ListJobsResponse(status, page, page_size)` is the body it sends, from `PageParam`, `PageSizeParam` (the clamps), `CountJobs`, `ListJobsPage` and `TotalPages`.

Modelling choices:

- **Timeout.** When `pending` is empty, BRPOPLPUSH times out and `processNextJob` returns nil. That changes nothing, so it is a stuttering step.
- **Handler outcome.** `ProcessJob` is a free choice between success and error. The handlers only do simulated I/O.
- **Ignored errors.** Postgres writes whose errors the code ignores are `MaybeStore(write)`. With `StoreFaults` they may change nothing.
- **Redis faults.** With `RedisFaults`, `EnqueueJob` may fail, and so may DequeueJob's GET and its SET (`redis.go:107`).
- **Pipelines.** A pipeline is one atomic step. go-redis sends it as one batch, and no other client's command lands between its commands in the cases that matter here.
- **Refinement.** `TaskFlow` defines `Lifecycle == INSTANCE JobLifecycle WITH job <- [j |-> LifecycleOf(rjob[j])]`: the broker's record of each job, cut to status, attempts and max_attempts. `LifecycleRefined == Lifecycle!Spec` is checked as a PROPERTY. Every round trip of every actor must be a step of the abstract lifecycle or leave the mapped record unchanged.
- **Record abstraction.** A record keeps these fields: status, attempts, max_attempts, the error kind, whether `result` and `completed_at` are set, and worker_id. No decision reads payloads, types or timestamps.

## 3. Properties and runs

| Run | Bounds | Checks | Result |
|---|---|---|---|
| `base` | 2 jobs, 2 workers, max_attempts 2, no faults | `TypeOK`, `LeaseExclusive`, `NoLostJob`, `PagesPartitionJobs`, `StatsAgreeWithRecords`, `ContainsIsSegment`, `TerminalStable`, `JobsFinish`, `LifecycleRefined` | pass, 44,146 states |
| `cancel` | 1 job, 2 workers, 1 cancel request, `runs <= 3` | `TypeOK`, `NoLostJob` | pass, 218,184 states |
| `faults` | as base, with crash, SIGTERM to workers and to the API server, Postgres and Redis faults, symmetry | `TypeOK`, `LeaseExclusive`, `AttemptsBounded`, `StatsAgreeWithRecords`, `TerminalStable` | pass, about 4.5 M states, 2 min |
| `loadtest` | 3 goroutines, 2 slots, response times {1, 2} or failure, both modes, health check up or down | `TypeOK`, `ReportCorrect`, `ReliabilityVerdict`, `Terminates` | pass, 18,737 states |
| `v_retry` | as base | `ProcessingHeld` | violated: FailJob's retry branch leaves the id in `processing` |
| `v_mirror` | as base | `StoreAgreesOnTerminal` | violated: the worker writes `failed` to Postgres while the broker retries |
| `v_heartbeat` | as base | `RegistryShowsBusy` | violated: a heartbeat tick overwrites `processing` with `idle` |
| `v_orphan` | base + crash + SIGTERM | `NoLostJob` | violated: a killed or shut-down worker's job stays in `processing`; no reaper requeues it (the spec, 4.3, requires one) |
| `v_dq_error` | base + Redis faults | `NoLostJob` | violated: DequeueJob LREMs the id when its GET fails |
| `v_cancel_dup` | as cancel | `LeaseExclusive` | violated: cancelJob's FailJob re-pushes a held id, so two workers run one job |
| `v_cancel_terminal` | as cancel | `TerminalStable` | violated: cancelJob's stale check lets FailJob overwrite a job completed in between |
| `v_retry_delay` | max_attempts 3 or 40 | `BackoffAsSpecified` | violated: `calculateRetryDelay(32)` wraps to a negative delay |

What the properties say:

- **`LeaseExclusive`:** the spec's serial lease-to-outcome rule (section 5).
- **`AttemptsBounded`:** attempts never exceed max_attempts (8.1).
- **`NoLostJob`:** a non-terminal job is in `pending` or held by a worker.
- **`TerminalStable`:** an action property. A completed or failed record never changes status.
- **`JobsFinish`:** every job whose row createJob inserted is eventually shown completed or failed by `getJob` (through `JobView`). This covers the window before `EnqueueJob` too. Its mutant drops the LPUSH of FailJob's retry branch: the record says retrying, but no id is queued, so the job never finishes. In `base` Redis does not fail, so the stranded row of a failed EnqueueJob (`handlers.go:97`) is outside this check. It is listed as a hazard with no property.
- **`StatsAgreeWithRecords`:** what `GET /stats` returns, against the records in Redis: `total` counts the stored records, `completed` and `failed` those with that status, and `pending + processing` those still open. The two open counters drift apart on their own: FailJob's retry branch skips its HINCRBYs, and DequeueJob moves them one round trip after its SET. Their sum must not drift. It holds in `base` and `faults`; with cancel it does not (see below).
- **`ContainsIsSegment`:** `contains`, which IsRetryableError matches its patterns with, is true exactly when the pattern is a contiguous segment of the message (the community `SubSeqs`). It is checked for every pair of byte strings of length at most 4 over {a, b}. `ContainsAgrees` is a constant that TLC computes once; the invariant reads it in every state where a worker runs a handler, whose error `processNextJob` classifies next.
- **`LifecycleRefined`:** the broker's records, seen through `LifecycleOf`, behave as `JobLifecycle` allows. A job is leased only while pending or retrying, completes or fails only while processing, and a failure spends exactly one attempt. This implies `AttemptsBounded` wherever it is checked.
- **`BackoffAsSpecified`:** every retry is scheduled with `min(5 s * 2^(k-1), 5 min)`. The reference `SpecDelay` is compared with `CalculateRetryDelay` for every attempt count a job reaches. With max_attempts up to 31 it holds.
- **`PagesPartitionJobs`:** checked in every reachable state of the store, for every status filter and for page_size absent, 1, 2 or over 100. Walking page=1..total_pages lists each selected row exactly once, no page in that range is empty, and the next page is empty. The reference is the set of row positions `1..total`.
- **`ReportCorrect`:** after `wg.Wait`, every goroutine is counted once. If any request succeeded, min and max are the true extremes and the average lies between them, whatever the interleaving of the load/CAS loops.
- **`ReliabilityVerdict`:** `printResults` prints "Excellent reliability" exactly when some request was made and every started goroutine's request succeeded. Below 100 requests one failure is already under 99%. A run with no request computes 0/0, NaN, and every comparison with NaN is false, so it is rated poor. `RateAbove` compares `100 * s > p * t`, which orders like the float quotient at these counts.
- **`Terminates`:** the program exits. Either the health check fails and `main` returns, or `wg.Wait` returns and the report is printed.
- **`ProcessingHeld`, `StoreAgreesOnTerminal`, `RegistryShowsBusy`:** the spec's statements in 8.3, 4.5e and 4.5c. They hold only in runs that show they fail.

Every property of a passing run has a mutant in PROJECT.json: a plausible bug in the mapped code that TLC then catches.

**Bounds.**
- Two workers and two jobs are enough for every pairwise race between two workers, or between two jobs in one list.
- max_attempts 2 gives both branches of FailJob: a retry, then a final failure.
- The load test uses 3 goroutines on 2 slots, so one always waits. With two distinct response times plus failure, two goroutines can race on both the min CAS and the max CAS. `Times = {1, 2}` with `MinInit = 3` keeps the order of the real values: every response time is below the sentinel.
- `TestStrings` (length at most 4, two letters) puts a pattern at the start, at the end, strictly inside, nowhere, and makes it longer than the message. That reaches each branch of `contains` and every iteration of `hasSubstring`, including the window at `len(s)-len(substr)`.
- `RetryDelay` needs only a job that keeps failing. max_attempts 40 reaches attempt 32, the first that wraps, and 3 is NewJob's default.
- In the cancel runs, a cancel re-pushes ids, and re-pushing can repeat without end. The history variable `runs` counts handler runs. The constraint `runs[j] <= RunBound` (3) keeps the state space finite, and it still allows one run beyond max_attempts.

**Fairness.** Weak fairness applies to each createJob request, to each worker's main goroutine and to its `Abandon`, and to each cancel request. Goroutines that are runnable get scheduled, and Redis and Postgres answer. There is no fairness on `Crash`, `Shutdown` or `Heartbeat`: kills and signals are external, and a tick is not needed for progress.

In `LoadTest`, weak fairness applies to every goroutine's steps, to main's health check, spawning, `Wait` and `printResults`, and to the end of the spawning loop, which a count ends or the clock ends. The health check ends by its 5 s client timeout at the latest. Weak fairness is enough for the goroutines blocked on the semaphore. Only finitely many goroutines start, and once all the others are done a waiting one finds the channel free for good.

The `loadtest` and `v_retry_delay` runs disable deadlock checking: the program exits after its report or a failed health check, and a job that has failed for good takes no more steps.

The `faults` run disables deadlock checking. After a shutdown, or once every worker has crashed, the process really stops.

## 4. Not modelled, and the plan

Left out for good:
- HTTP transport and middleware, `sendError`, metrics, Docker, the Makefile and `test-jobs.sh`. These are I/O or observation only, and no job decision reads them.
- `internal/config` and `internal/logger`: no program imports them. The worker reads `WORKER_COUNT` with its own `getEnvInt` (`cmd/worker/main.go` 125-160), which only knows the strings "1" to "10"; any other value, "20" included, gives the default 3, while the spec allows 1 to 100. The model's `Workers` constant is that count.
- Request validation (`ValidateJobRequest`): a rejected request returns 400 before any write, so it changes no state. It checks no bound on `max_attempts`, which is why `RetryDelay` lets max_attempts range freely.
- The processors' bodies (webhook, image resize, export, email): simulated I/O whose outcome, success or error, `Handle` chooses.
- The load test's flags, which are the constants of `LoadTest`, and the performance verdict of `printResults`, which rates requests per second and needs a clock.
- `getWorkers` and `healthCheck`, and the server's startup logging and `--help` text. `GetWorkers` filters on `last_seen` within 5 minutes, and the model has no clock.
- `ListJobs` is two queries. The race between its COUNT and its SELECT, and `created_at` ties, are listed as hazards. The model pages one snapshot in one fixed order.
- The 24 h expiry of `taskflow:job:<id>`: the model has no clock, and an untimed expiry would let a record vanish under a running handler.

Results seen while modelling that no run keeps:
- With the `cancel` configuration, `AttemptsBounded` fails (24 states): a worker's FailJob makes the job failed with attempts = max_attempts, then cancelJob, whose status check ran before, calls FailJob again and writes attempts = max_attempts + 1. The cause is the stale check at `handlers.go:199` that `v_cancel_terminal` shows. For the same reason `StatsAgreeWithRecords` does not hold there (15 states): cancelJob's FailJob counts a job that has just completed as failed too.
- `contains`' comment says it is case-insensitive, but it compares bytes exactly, so "Connection refused" is not retryable. No decision reads the classification: `processNextJob` only logs it, and FailJob spends an attempt either way (the spec, section 7, asks for retryable failures to be retried without spending one).

Hazards found but with no property (PROJECT.json says why):
- ListJobs' COUNT/SELECT race, its unstable order on equal `created_at`, and its offset overflow for a huge page.
- A server shutdown whose 30 s timeout ends a `createJob` between its two writes.
- An EnqueueJob that fails after the insert (`handlers.go:97`). Base has no Redis faults, and the faults run checks no liveness.
- cancelJob mirroring its early copy into Postgres (`handlers.go:215`). TLC shows the Postgres attempts column going down even without a cancel request: two workers' mirrors can land out of order, the ordering `v_mirror` shows. A run pairing a cancel request with that check would need a thirteenth run slot.
- The cancel-specific hazards (`redis.go:107`, `:178`, `:219`, `handlers.go:199`, `:205`) are caught only in the runs with a cancel request: `cancel` (`NoLostJob`), `v_cancel_dup` (`LeaseExclusive`) and `v_cancel_terminal` (`TerminalStable`). Base and faults have no second writer.
- The load test reports its sentinel minimum when nothing succeeds. (Its 0/0 success rate when nothing ran is now checked by `ReliabilityVerdict`.)

Planned, in order:

1. **More Redis faults.** Failures of the GETs and pipelines of CompleteJob and FailJob.
2. **Paging under writes.** A client walking pages while workers change statuses, against the race between ListJobs' two queries.
