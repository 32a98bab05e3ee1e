--------------------------- MODULE RetryableError ---------------------------
(***************************************************************************)
(* IsRetryableError and its helpers contains and hasSubstring of package  *)
(* types (src/unnamed/part_002, lines 124-167).  A Go string               *)
(* is a sequence of bytes; s[i:k] with 0-based i and k is                  *)
(* SubSeq(s, i+1, k).  processNextJob calls IsRetryableError only for its *)
(* log line: the classification moves no state, so it is checked here as  *)
(* an algorithm, against the community definition of a contiguous          *)
(* segment (SubSeqs), over all short strings of a small alphabet.          *)
(***************************************************************************)
EXTENDS Naturals, Sequences, SequencesExt

\* Go's slice expression s[i:k].
Slice(s, i, k) == SubSeq(s, i + 1, k)

\* Mutant: the window is one byte short, s[i:i+len(substr)-1].
hasSubstringShortWindow(s, substr) ==
    \E i \in 0..(Len(s) - Len(substr)) : Slice(s, i, i + Len(substr) - 1) = substr

\* for i := 0; i <= len(s)-len(substr); i++ { if s[i:i+len(substr)] == substr
\* { return true } }; return false.
hasSubstring(s, substr) ==
    \E i \in 0..(Len(s) - Len(substr)) : Slice(s, i, i + Len(substr)) = substr

\* contains: the length guard, equality, then the prefix and the suffix
\* tried before the scan, each a short-circuit || as in the code.
contains(s, substr) ==
    /\ Len(s) >= Len(substr)
    /\ \/ s = substr
       \/ /\ Len(s) > Len(substr)
          /\ \/ Slice(s, 0, Len(substr)) = substr
             \/ Slice(s, Len(s) - Len(substr), Len(s)) = substr
             \/ hasSubstring(s, substr)

\* IsRetryableError: a nil error (NoError) is not retryable; otherwise the
\* message err.Error() is retryable iff it contains one of the patterns.
IsRetryableError(err, NoError, RetryablePatterns) ==
    /\ err # NoError
    /\ \E pattern \in RetryablePatterns : contains(err, pattern)

=============================================================================
