---------------------------- MODULE MC_TaskFlow ----------------------------
(* Model-checking instance of TaskFlow: worker and job ids are model       *)
(* values; symmetry over them is used by the safety runs only.             *)
EXTENDS TaskFlow, RetryableError, TLC

WorkerJobSymmetry == Permutations(Workers) \cup Permutations(Jobs)

CONSTANT RunBound   \* bound on handler runs per job, for runs with cancel

RunsWithinBound == \A j \in Jobs : runs[j] <= RunBound

\* Strings for the check of contains: every byte string of length at most 4
\* over a two-letter alphabet, so that a pattern can sit at the start, the
\* end, strictly inside, or nowhere, and be longer than the message.
TestStrings == BoundedSeq({"a", "b"}, 4)

\* contains(s, substr) against the community definition of a contiguous
\* segment, for every pair of test strings; a constant, computed once.
ContainsAgrees ==
    \A s, substr \in TestStrings : contains(s, substr) <=> substr \in SubSeqs(s)

\* Whenever a worker runs a handler, whose error processNextJob classifies
\* with IsRetryableError next, the helper IsRetryableError matches its
\* patterns with - contains, with its early prefix and suffix tests before
\* hasSubstring's scan - is true exactly when the pattern is a contiguous
\* segment of the message.
ContainsIsSegment == \A w \in Workers : wpc[w] = "handle" => ContainsAgrees

=============================================================================
