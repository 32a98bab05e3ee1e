--------------------------- MODULE PostgresStorage ---------------------------
(***************************************************************************)
(* The durable store of TaskFlow: internal/storage/postgres.go.            *)
(*                                                                         *)
(* Two tables: jobs (one row per job) and workers (one row per worker id,  *)
(* upserted).  Each statement is a single-row write and is atomic.  Rows   *)
(* hold the same abstraction of types.Job as RedisQueue.tla; a worker row  *)
(* keeps its status and current_job (last_seen and job_types are left      *)
(* out: nothing in the core reads them).                                   *)
(***************************************************************************)
EXTENDS JobModel, FiniteSets

VARIABLES
    sjob,       \* sjob[j]: the row of jobs with id j, or NoRecord
    sworker     \* sworker[w]: the row of workers with id w, or NoRecord

storeVars == <<sjob, sworker>>

\* Worker.Status strings written by the worker.
WStarting   == "starting"
WProcessing == "processing"
WIdle       == "idle"

WorkerRow == [status: {WStarting, WProcessing, WIdle}, current: Jobs \cup {NoJob}]

StoreInit ==
    /\ sjob = [j \in Jobs |-> NoRecord]
    /\ sworker = [w \in Workers |-> NoRecord]

(* CreateJob: INSERT INTO jobs.                                            *)
StoreCreateJob(j, rec) ==
    /\ sjob' = [sjob EXCEPT ![j] = rec]
    /\ UNCHANGED sworker

(* GetJob: SELECT ... FROM jobs WHERE id = j; sql.ErrNoRows, like any     *)
(* failed query or scan, is an error, here NoRecord.                       *)
StoreGetJob(j) == sjob[j]

(* UpdateJob: UPDATE jobs SET every column but type, payload,              *)
(* max_attempts, created_at and scheduled_at WHERE id = j; no row, no      *)
(* change.                                                                 *)
StoreUpdateJob(j, rec) ==
    /\ sjob' = IF sjob[j] = NoRecord THEN sjob
               ELSE [sjob EXCEPT ![j] = [rec EXCEPT !.maxAttempts = sjob[j].maxAttempts]]
    /\ UNCHANGED sworker

(* RegisterWorker: INSERT ... ON CONFLICT (id) DO UPDATE, last writer      *)
(* wins.                                                                   *)
RegisterWorker(w, status, current) ==
    /\ sworker' = [sworker EXCEPT ![w] = [status |-> status, current |-> current]]
    /\ UNCHANGED sjob

(* ListJobs: a COUNT query, then SELECT ... ORDER BY created_at DESC      *)
(* LIMIT pageSize OFFSET (page-1)*pageSize, as two separate queries.  The *)
(* filter on status is the WHERE clause ("" selects every row; the type    *)
(* filter is not modelled); a page is the set of positions, 1 for the      *)
(* newest row, of the rows it returns.                                     *)
CountJobs(status) ==
    Cardinality({j \in Jobs : sjob[j] # NoRecord /\ status \in {"", sjob[j].status}})

ListJobsPage(page, pageSize, total) ==
    LET offset == (page - 1) * pageSize
    IN  {i \in 1..total : offset < i /\ i <= offset + pageSize}

=============================================================================
