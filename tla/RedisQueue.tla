----------------------------- MODULE RedisQueue -----------------------------
(***************************************************************************)
(* The broker of TaskFlow: internal/queue/redis.go.                        *)
(*                                                                         *)
(* Redis keeps four keys: the list taskflow:jobs:pending, the list         *)
(* taskflow:jobs:processing, one string taskflow:job:<id> per job holding  *)
(* the JSON job record, and the hash taskflow:stats.  Every Redis command  *)
(* is atomic; a method of RedisQueue is a sequence of round trips, and a   *)
(* pipeline is sent as one batch.  This module gives the state and one     *)
(* operator per round trip; the callers (workers and the HTTP API) are     *)
(* composed in TaskFlow.tla, where the steps of different callers          *)
(* interleave.                                                             *)
(*                                                                         *)
(* Records are JobModel's abstraction of types.Job.  LPUSH pushes at the  *)
(* head of a list (Cons), BRPOPLPUSH pops the tail (Last/Front) and pushes *)
(* at the head, LREM key 1 removes the first occurrence from the head      *)
(* (RemoveFirst).                                                          *)
(***************************************************************************)
EXTENDS JobModel, Integers, Sequences, SequencesExt

VARIABLES
    pending,     \* the list taskflow:jobs:pending, head first
    processing,  \* the list taskflow:jobs:processing, head first
    rjob,        \* rjob[j]: the record under taskflow:job:<j>, or NoRecord
    stats        \* the hash taskflow:stats

redisVars == <<pending, processing, rjob, stats>>

StatKeys == {"total", "pending", "processing", "completed", "failed"}

RedisInit ==
    /\ pending = <<>>
    /\ processing = <<>>
    /\ rjob = [j \in Jobs |-> NoRecord]
    /\ stats = [k \in StatKeys |-> 0]

\* HINCRBY taskflow:stats for each key of the function d.
IncrStats(d) == [k \in StatKeys |-> IF k \in DOMAIN d THEN stats[k] + d[k] ELSE stats[k]]

(* GetJob: GET taskflow:job:<id>; a missing key (redis.Nil), like a failed *)
(* GET, is an error the caller handles, here NoRecord.                     *)
GetJob(j) == rjob[j]

(* GetStats: HGETALL taskflow:stats; a key never incremented reads as 0.   *)
GetStats == stats

-----------------------------------------------------------------------------
(* EnqueueJob: one pipeline SET job, LPUSH pending, HINCRBY total,        *)
(* HINCRBY pending.                                                        *)
EnqueueJob(j, rec) ==
    /\ rjob' = [rjob EXCEPT ![j] = rec]
    /\ pending' = Cons(j, pending)
    /\ stats' = IncrStats([total |-> 1, pending |-> 1])
    /\ UNCHANGED processing

\* Mutant: the pop leaves the id in pending.
BRPopLPushKeepsPending(j) ==
    /\ pending # <<>>
    /\ j = Last(pending)
    /\ processing' = Cons(j, processing)
    /\ UNCHANGED <<pending, rjob, stats>>

(* DequeueJob, first round trip: BRPOPLPUSH pending processing.  Only      *)
(* enabled when pending is non-empty; the timeout branch is the caller's. *)
BRPopLPush(j) ==
    /\ pending # <<>>
    /\ j = Last(pending)
    /\ pending' = Front(pending)
    /\ processing' = Cons(j, processing)
    /\ UNCHANGED <<rjob, stats>>

(* DequeueJob after a failed GetJob: LREM processing 1 id.                 *)
LRemProcessing(j) ==
    /\ processing' = RemoveFirst(processing, j)
    /\ UNCHANGED <<pending, rjob, stats>>

(* UpdateJob: SET taskflow:job:<id> to the caller's copy of the record.    *)
UpdateJob(j, rec) ==
    /\ rjob' = [rjob EXCEPT ![j] = rec]
    /\ UNCHANGED <<pending, processing, stats>>

\* Mutant: a status string outside types.JobStatus.
LeasedUnknownStatus(rec, w) == [rec EXCEPT !.status = "running", !.worker = w]

\* Mutant: the lease counts as an attempt.
LeasedCountsAttempt(rec, w) == [rec EXCEPT !.status = Processing, !.worker = w, !.attempts = @ + 1]

(* The mutation DequeueJob applies to the record it read.                  *)
Leased(rec, w) == [rec EXCEPT !.status = Processing, !.worker = w]

(* DequeueJob, last round trip: the stats pipeline.                        *)
DequeueStats ==
    /\ stats' = IncrStats([pending |-> -1, processing |-> 1])
    /\ UNCHANGED <<pending, processing, rjob>>

(* CompleteJob: the record read by its GET, marked completed.              *)
CompletedRec(rec) == [rec EXCEPT !.status = Completed, !.result = TRUE, !.completed = TRUE]

\* Mutant: CompleteJob's pipeline without HINCRBY processing -1.
CompleteJobExecKeepsCount(j, rec) ==
    /\ rjob' = [rjob EXCEPT ![j] = rec]
    /\ processing' = RemoveFirst(processing, j)
    /\ stats' = IncrStats([completed |-> 1])
    /\ UNCHANGED pending

\* Mutant: CompleteJob's pipeline also pushes the id back onto pending.
CompleteJobExecRequeues(j, rec) ==
    /\ rjob' = [rjob EXCEPT ![j] = rec]
    /\ processing' = RemoveFirst(processing, j)
    /\ pending' = Cons(j, pending)
    /\ stats' = IncrStats([processing |-> -1, completed |-> 1])

(* CompleteJob, pipeline: SET job, LREM processing 1 id, stats.            *)
CompleteJobExec(j, rec) ==
    /\ rjob' = [rjob EXCEPT ![j] = rec]
    /\ processing' = RemoveFirst(processing, j)
    /\ stats' = IncrStats([processing |-> -1, completed |-> 1])
    /\ UNCHANGED pending

\* Mutant: off by one, a job is retried when attempts reach max_attempts.
FailedRecRetryAtMax(rec, e) ==
    LET a == rec.attempts + 1
    IN  [rec EXCEPT !.attempts = a, !.err = e,
                    !.status = IF a <= rec.maxAttempts THEN Retrying ELSE Failed,
                    !.completed = IF a <= rec.maxAttempts THEN rec.completed ELSE TRUE]

(* FailJob: the record read by its GET with attempts incremented and the   *)
(* error set, Retrying while attempts < max_attempts, else Failed.         *)
FailedRec(rec, e) ==
    LET a == rec.attempts + 1
    IN  [rec EXCEPT !.attempts = a, !.err = e,
                    !.status = IF a < rec.maxAttempts THEN Retrying ELSE Failed,
                    !.completed = IF a < rec.maxAttempts THEN rec.completed ELSE TRUE]

\* Mutant: the retry writes the record but never pushes the id.
RequeueWithoutPush(j, rec) ==
    /\ rjob' = [rjob EXCEPT ![j] = rec]
    /\ UNCHANGED <<pending, processing, stats>>

(* FailJob, retry branch: requeueJobWithDelay's pipeline SET job, LPUSH    *)
(* pending.  It returns before FailJob's own pipeline, so the id stays in  *)
(* processing and no counter moves.                                        *)
RequeueJobWithDelay(j, rec) ==
    /\ rjob' = [rjob EXCEPT ![j] = rec]
    /\ pending' = Cons(j, pending)
    /\ UNCHANGED <<processing, stats>>

\* Mutant: the terminal branch also re-enqueues, like the retry branch.
FailJobExecRequeues(j, rec) ==
    /\ rjob' = [rjob EXCEPT ![j] = rec]
    /\ processing' = RemoveFirst(processing, j)
    /\ pending' = Cons(j, pending)
    /\ stats' = IncrStats([processing |-> -1, failed |-> 1])

(* FailJob, terminal branch: pipeline SET job, LREM processing 1 id,       *)
(* HINCRBY processing -1, HINCRBY failed 1.                                *)
FailJobExec(j, rec) ==
    /\ rjob' = [rjob EXCEPT ![j] = rec]
    /\ processing' = RemoveFirst(processing, j)
    /\ stats' = IncrStats([processing |-> -1, failed |-> 1])
    /\ UNCHANGED pending

\* Mutant: the two branches swapped.
FailJobPipelineSwapped(j, rec) ==
    IF rec.status = Failed THEN RequeueJobWithDelay(j, rec) ELSE FailJobExec(j, rec)

(* The pipeline FailJob sends for the record FailedRec returned.           *)
FailJobPipeline(j, rec) ==
    IF rec.status = Retrying THEN RequeueJobWithDelay(j, rec) ELSE FailJobExec(j, rec)

=============================================================================
