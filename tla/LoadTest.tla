------------------------------ MODULE LoadTest ------------------------------
(***************************************************************************)
(* The load-test client, scripts/load-test.go: runLoadTest starts one      *)
(* goroutine per job request, limits the requests in flight with a         *)
(* buffered channel used as a semaphore, and accumulates the results in    *)
(* shared int64 counters with sync/atomic: AddInt64 for the counts and     *)
(* load / compare-and-swap loops for the minimum and maximum response      *)
(* time.  main first checks /api/v1/health and returns if it fails; after *)
(* the requests it waits on a WaitGroup, derives the averages and prints   *)
(* the report with its reliability verdict.                                *)
(*                                                                         *)
(* A response time is a positive natural from Times; makeJobRequest's 0    *)
(* stands for every failed request (marshal error, transport error, status *)
(* other than 201).  MinInit stands for the sentinel 999999999999 ns: it   *)
(* only has to exceed every response time, which the 10 s client timeout  *)
(* guarantees.                                                             *)
(***************************************************************************)
EXTENDS Naturals, FiniteSetsExt

CONSTANTS
    JobCount,       \* -jobs (count-based) or the bound on goroutines started
    Concurrent,     \* -concurrent: the capacity of the semaphore channel
    Times,          \* response times of successful requests
    MinInit         \* the initial minResponseTime

ASSUME
    /\ JobCount \in Nat /\ Concurrent \in Nat \ {0}
    /\ Times \subseteq Nat \ {0} /\ \A t \in Times : t < MinInit

G == 1..JobCount    \* the request goroutines, in the order main starts them

VARIABLES
    durationBased,  \* -duration > 0
    main,           \* main: "connect", "spawn", "wait", "report" or "exited"
    started,        \* goroutines started so far (wg.Add)
    pc,             \* pc[g]: where request goroutine g is
    rt,             \* rt[g]: the responseTime makeJobRequest returned to g
    cur,            \* cur[g]: the value g's CAS loop loaded
    sem,            \* tokens in the semaphore channel
    totalRequests, successfulJobs, failedRequests, totalDuration,
    minResponseTime, maxResponseTime,
    avgResponseTime,
    reliability     \* the reliability verdict printResults printed, "none" before

vars == <<durationBased, main, started, pc, rt, cur, sem, totalRequests, successfulJobs,
          failedRequests, totalDuration, minResponseTime, maxResponseTime, avgResponseTime,
          reliability>>

report == <<avgResponseTime, reliability>>

counters == <<totalRequests, successfulJobs, failedRequests, totalDuration,
              minResponseTime, maxResponseTime>>

Init ==
    /\ durationBased \in BOOLEAN
    /\ main = "connect"
    /\ started = 0
    /\ pc = [g \in G |-> "unborn"]
    /\ rt = [g \in G |-> 0]
    /\ cur = [g \in G |-> 0]
    /\ sem = 0
    /\ totalRequests = 0 /\ successfulJobs = 0 /\ failedRequests = 0 /\ totalDuration = 0
    /\ minResponseTime = MinInit /\ maxResponseTime = 0
    /\ avgResponseTime = 0
    /\ reliability = "none"

Goto(g, l) == pc' = [pc EXCEPT ![g] = l]

\* What makeJobRequest can return: 0 when json.Marshal or client.Post fails or
\* the status is not 201 (the payload it builds is not modelled), and the
\* measured time.Since(start) otherwise.
MakeJobRequest == Times \cup {0}

-----------------------------------------------------------------------------
(* main: the health check, the spawning loops, wg.Wait, printResults.      *)

\* testConnectivity: GET /api/v1/health, true iff it answers 200.  When it
\* does not, main prints that it cannot connect and returns.
TestConnectivity ==
    /\ main = "connect"
    /\ \E healthy \in BOOLEAN : main' = IF healthy THEN "spawn" ELSE "exited"
    /\ UNCHANGED <<durationBased, started, pc, rt, cur, sem, counters, report>>

\* wg.Add(1); go func(...) - in both the count-based and the duration-based loop.
Spawn ==
    /\ main = "spawn"
    /\ started < JobCount
    /\ started' = started + 1
    /\ pc' = [pc EXCEPT ![started + 1] = "acquire"]
    /\ UNCHANGED <<durationBased, main, rt, cur, sem, counters, report>>

\* The count-based loop ends after JobCount goroutines; the duration-based one
\* when time.Now() passes endTime, after any number of them.
StopSpawning ==
    /\ main = "spawn"
    /\ started = JobCount \/ durationBased
    /\ main' = "wait"
    /\ UNCHANGED <<durationBased, started, pc, rt, cur, sem, counters, report>>

\* wg.Wait() returns, then avgResponseTime = totalDuration / successfulJobs.
Wait ==
    /\ main = "wait"
    /\ \A g \in 1..started : pc[g] = "done"
    /\ main' = "report"
    /\ avgResponseTime' = IF successfulJobs > 0 THEN totalDuration \div successfulJobs ELSE 0
    /\ UNCHANGED <<durationBased, started, pc, rt, cur, sem, counters, reliability>>

\* Mutant: 0/0 taken as a full success rate instead of NaN.
RateAboveNaNFull(s, t, p) == t = 0 \/ 100 * s > p * t

\* float64(s)/float64(t)*100 > p.  With t = 0 the quotient 0/0 is NaN and
\* every comparison with NaN is false.  The requests counted here are far
\* fewer than 2^53, so the float quotient orders like the exact one.
RateAbove(s, t, p) == t > 0 /\ 100 * s > p * t

\* The reliability ladder of printResults on successRate.
Reliability(s, t) ==
    CASE RateAbove(s, t, 99) -> "excellent"
      [] RateAbove(s, t, 95) -> "good"
      [] RateAbove(s, t, 90) -> "moderate"
      [] OTHER               -> "poor"

\* printResults(result), after which main returns.  The counts it prints are
\* the counters; the performance ladder on RequestsPerSec needs the elapsed
\* time, which the model has no clock for, and is left out.
PrintResults ==
    /\ main = "report"
    /\ main' = "exited"
    /\ reliability' = Reliability(successfulJobs, totalRequests)
    /\ UNCHANGED <<durationBased, started, pc, rt, cur, sem, counters, avgResponseTime>>

-----------------------------------------------------------------------------
(* A request goroutine.                                                    *)

\* Mutant: a slot too many, as with a channel made with capacity Concurrent+1.
AcquireOffByOne(g) ==
    /\ pc[g] = "acquire"
    /\ sem <= Concurrent
    /\ sem' = sem + 1
    /\ Goto(g, "request")
    /\ UNCHANGED <<durationBased, main, started, rt, cur, counters, report>>

\* semaphore <- struct{}{}: blocks while the channel is full.
Acquire(g) ==
    /\ pc[g] = "acquire"
    /\ sem < Concurrent
    /\ sem' = sem + 1
    /\ Goto(g, "request")
    /\ UNCHANGED <<durationBased, main, started, rt, cur, counters, report>>

\* responseTime := makeJobRequest(...), then the AddInt64 calls of its branch.
Request(g) ==
    /\ pc[g] = "request"
    /\ \E t \in MakeJobRequest :
         /\ rt' = [rt EXCEPT ![g] = t]
         /\ totalRequests' = totalRequests + 1
         /\ IF t > 0
            THEN /\ successfulJobs' = successfulJobs + 1
                 /\ totalDuration' = totalDuration + t
                 /\ Goto(g, "min_load")
                 /\ UNCHANGED failedRequests
            ELSE /\ failedRequests' = failedRequests + 1
                 /\ Goto(g, "release")
                 /\ UNCHANGED <<successfulJobs, totalDuration>>
    /\ UNCHANGED <<durationBased, main, started, cur, sem, minResponseTime, maxResponseTime,
                   report>>

\* current := atomic.LoadInt64(&minResponseTime); break if not smaller.
MinLoad(g) ==
    /\ pc[g] = "min_load"
    /\ cur' = [cur EXCEPT ![g] = minResponseTime]
    /\ Goto(g, IF rt[g] >= minResponseTime THEN "max_load" ELSE "min_cas")
    /\ UNCHANGED <<durationBased, main, started, rt, sem, counters, report>>

\* Mutant: the CAS replaced by a plain store of the value tested earlier.
MinStore(g) ==
    /\ pc[g] = "min_cas"
    /\ minResponseTime' = rt[g]
    /\ Goto(g, "max_load")
    /\ UNCHANGED <<durationBased, main, started, rt, cur, sem, totalRequests, successfulJobs,
                   failedRequests, totalDuration, maxResponseTime, report>>

\* atomic.CompareAndSwapInt64(&minResponseTime, current, responseTime):
\* break on success, load again on failure.
MinCas(g) ==
    /\ pc[g] = "min_cas"
    /\ IF minResponseTime = cur[g]
       THEN minResponseTime' = rt[g] /\ Goto(g, "max_load")
       ELSE UNCHANGED minResponseTime /\ Goto(g, "min_load")
    /\ UNCHANGED <<durationBased, main, started, rt, cur, sem, totalRequests, successfulJobs,
                   failedRequests, totalDuration, maxResponseTime, report>>

MaxLoad(g) ==
    /\ pc[g] = "max_load"
    /\ cur' = [cur EXCEPT ![g] = maxResponseTime]
    /\ Goto(g, IF rt[g] <= maxResponseTime THEN "release" ELSE "max_cas")
    /\ UNCHANGED <<durationBased, main, started, rt, sem, counters, report>>

MaxCas(g) ==
    /\ pc[g] = "max_cas"
    /\ IF maxResponseTime = cur[g]
       THEN maxResponseTime' = rt[g] /\ Goto(g, "release")
       ELSE UNCHANGED maxResponseTime /\ Goto(g, "max_load")
    /\ UNCHANGED <<durationBased, main, started, rt, cur, sem, totalRequests, successfulJobs,
                   failedRequests, totalDuration, minResponseTime, report>>

\* Mutant: the deferred receive that frees the slot is missing.
ReleaseKeepsSlot(g) ==
    /\ pc[g] = "release"
    /\ Goto(g, "done")
    /\ UNCHANGED <<durationBased, main, started, rt, cur, sem, counters, report>>

\* The deferred calls, last registered first: <-semaphore, then wg.Done().
Release(g) ==
    /\ pc[g] = "release"
    /\ sem' = sem - 1
    /\ Goto(g, "done")
    /\ UNCHANGED <<durationBased, main, started, rt, cur, counters, report>>

Step(g) ==
    Acquire(g) \/ Request(g) \/ MinLoad(g) \/ MinCas(g) \/ MaxLoad(g) \/ MaxCas(g) \/ Release(g)

Next ==
    \/ TestConnectivity \/ Spawn \/ StopSpawning \/ Wait \/ PrintResults
    \/ \E g \in G : Step(g)

\* The Go scheduler runs every runnable goroutine; a goroutine blocked on the
\* channel is woken when a slot frees; the spawning loop ends, by its count
\* or because the clock passes endTime; the health check ends by the
\* client's 5 s timeout at the latest.
Spec == Init /\ [][Next]_vars
            /\ WF_vars(TestConnectivity) /\ WF_vars(Spawn) /\ WF_vars(StopSpawning)
            /\ WF_vars(Wait) /\ WF_vars(PrintResults)
            /\ \A g \in G : WF_vars(Step(g))

-----------------------------------------------------------------------------
(* Properties.                                                             *)

TypeOK ==
    /\ durationBased \in BOOLEAN /\ main \in {"connect", "spawn", "wait", "report", "exited"}
    /\ reliability \in {"none", "excellent", "good", "moderate", "poor"}
    /\ started \in 0..JobCount /\ sem \in 0..Concurrent
    /\ pc \in [G -> {"unborn", "acquire", "request", "min_load", "min_cas",
                     "max_load", "max_cas", "release", "done"}]
    /\ rt \in [G -> Times \cup {0}] /\ cur \in [G -> Times \cup {0, MinInit}]

\* What the report prints once wg.Wait returns: every started goroutine
\* counted once, as a success or a failure, and - when any request
\* succeeded - min and max equal to the least and greatest response time
\* and the average between them, although the goroutines update min and max
\* concurrently through load and CAS.
ReportCorrect ==
    main \in {"report", "exited"} =>
        LET ok == {rt[g] : g \in {h \in 1..started : rt[h] > 0}}
        IN  /\ totalRequests = started
            /\ successfulJobs + failedRequests = totalRequests
            /\ successfulJobs > 0 =>
                  /\ minResponseTime = Min(ok) /\ maxResponseTime = Max(ok)
                  /\ minResponseTime <= avgResponseTime /\ avgResponseTime <= maxResponseTime

\* The verdict printResults prints from the counters the goroutines
\* incremented concurrently: "Excellent reliability" exactly when some
\* request was made and every started goroutine's request succeeded (with
\* fewer than 100 requests one failure is already under 99%).  A run that
\* made no request - -jobs 0, or a duration over before the first one -
\* divides 0 by 0 and is rated poor, never excellent.
ReliabilityVerdict ==
    reliability # "none" =>
        (reliability = "excellent" <=> started > 0 /\ \A g \in 1..started : rt[g] > 0)

\* The program ends: either the health check fails, or wg.Wait returns and
\* the report is printed - no goroutine stays blocked on the semaphore and
\* no CAS loop spins forever.
Terminates == <>(main = "exited")

=============================================================================
