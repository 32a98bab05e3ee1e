---------------------------- MODULE JobLifecycle ----------------------------
(***************************************************************************)
(* The lifecycle of a job as the specification promises it (sections 3    *)
(* and 4.3): a job is submitted pending, a lease moves it to processing,   *)
(* and the outcome of that one lease either completes it or spends one     *)
(* attempt, leaving it retrying while attempts < max_attempts and failed   *)
(* after that.  Completed and failed are final.  One atomic step per       *)
(* transition; nothing about lists, workers or round trips.                *)
(***************************************************************************)
EXTENDS JobModel

CONSTANT Limits     \* the max_attempts values a submitted job can carry

VARIABLE job        \* job[j]: [status, attempts, max] of job j, or NoRecord

Init == job = [j \in Jobs |-> NoRecord]

Submit(j) ==
    /\ job[j] = NoRecord
    /\ \E m \in Limits : job' = [job EXCEPT ![j] = [status |-> Pending, attempts |-> 0, max |-> m]]

Start(j) ==
    /\ job[j] # NoRecord
    /\ job[j].status \in {Pending, Retrying}
    /\ job' = [job EXCEPT ![j].status = Processing]

Complete(j) ==
    /\ job[j] # NoRecord
    /\ job[j].status = Processing
    /\ job' = [job EXCEPT ![j].status = Completed]

\* The outcome of a failed attempt: one more attempt spent, retried while
\* attempts remain.
Fail(j) ==
    /\ job[j] # NoRecord
    /\ job[j].status = Processing
    /\ LET a == job[j].attempts + 1
       IN  job' = [job EXCEPT ![j].attempts = a,
                              ![j].status = IF a < job[j].max THEN Retrying ELSE Failed]

Next == \E j \in Jobs : Submit(j) \/ Start(j) \/ Complete(j) \/ Fail(j)

Spec == Init /\ [][Next]_job

=============================================================================
