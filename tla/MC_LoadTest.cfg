\* Three request goroutines through a semaphore of two slots, two distinct
\* response times and a failure: every order of the min/max CAS loops, a
\* failed health check, and duration-based runs of 0 to 3 requests.
CONSTANTS
    JobCount = 3
    Concurrent = 2
    Times = {1, 2}
    MinInit = 3
SPECIFICATION Spec
INVARIANT TypeOK ReportCorrect ReliabilityVerdict
PROPERTY Terminates
\* The program exits, after the report or after a failed health check.
CHECK_DEADLOCK FALSE
