\* max_attempts 3 retries twice; 40 takes the delay past attempt 32, where
\* 5 s << 31 wraps to a negative Duration.  ValidateJobRequest lets both through.
CONSTANT MaxAttempts = {3, 40}
SPECIFICATION Spec
INVARIANT BackoffAsSpecified
\* A job that fails for good stops: no step follows status failed.
CHECK_DEADLOCK FALSE
