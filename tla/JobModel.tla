------------------------------ MODULE JobModel ------------------------------
(***************************************************************************)
(* The job entity of TaskFlow (internal/types): the ids, statuses and the  *)
(* abstraction of types.Job shared by the broker and the store.            *)
(*                                                                         *)
(* A job record keeps the fields the lifecycle depends on: status,         *)
(* attempts, max_attempts, whether error, result and completed_at are set  *)
(* (error as the kind of message), and worker_id.  Payload, type and the   *)
(* other timestamps are left out: no decision of the core reads them.      *)
(***************************************************************************)
EXTENDS Naturals

CONSTANTS
    Jobs,       \* job ids; GenerateJobID never repeats one
    Workers,    \* worker ids ("worker-" + 8 hex digits of a uuid)
    NoWorker,   \* worker_id unset
    NoJob,      \* no job id
    NoRecord    \* no record: a missing Redis key or Postgres row

\* types.JobStatus values.
Pending    == "pending"
Processing == "processing"
Completed  == "completed"
Failed     == "failed"
Retrying   == "retrying"
Statuses   == {Pending, Processing, Completed, Failed, Retrying}
Terminal   == {Completed, Failed}

\* Job.Error: empty, a handler error, or "Job cancelled by user".
NoError     == "none"
HandlerErr  == "handler"
CancelErr   == "cancelled"
ErrorKinds  == {NoError, HandlerErr, CancelErr}

\* The abstraction of types.Job, attempts up to a bound.
JobRec(attemptsBound) ==
    [status: Statuses, attempts: 0..attemptsBound, maxAttempts: 1..attemptsBound,
     err: ErrorKinds, result: BOOLEAN, completed: BOOLEAN,
     worker: Workers \cup {NoWorker}]

(* types.NewJob: status pending, attempts 0, max_attempts 3 unless the     *)
(* request gives a positive value.                                         *)
NewJob(m) ==
    [status |-> Pending, attempts |-> 0, maxAttempts |-> IF m > 0 THEN m ELSE 3,
     err |-> NoError, result |-> FALSE, completed |-> FALSE, worker |-> NoWorker]

=============================================================================
