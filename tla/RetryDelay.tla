----------------------------- MODULE RetryDelay -----------------------------
(***************************************************************************)
(* The retry backoff of the broker: calculateRetryDelay                    *)
(* (internal/queue/redis.go), called by FailJob with the incremented       *)
(* attempts of a job it retries.                                           *)
(*                                                                         *)
(* time.Duration is a Go int64 counting nanoseconds, and Go's int64        *)
(* arithmetic wraps modulo 2^64.  Its values do not fit TLC's integers, so *)
(* a Duration is held as its 64 bits, least significant first, and the     *)
(* shift, multiplication and signed comparison of the code are computed on *)
(* those bits.                                                             *)
(***************************************************************************)
EXTENDS Integers, FiniteSetsExt

CONSTANT MaxAttempts    \* max_attempts values a JobRequest may carry (> 0)

ASSUME MaxAttempts \subseteq Nat \ {0}

Bits == 0..63

\* The Duration whose value is the natural n < 2^31.
Word(n) == [i \in Bits |-> IF i < 31 THEN (n \div 2^i) % 2 ELSE 0]

\* w << s on an int64: bits moved past bit 63 are lost, s >= 64 gives 0.
ShiftLeft(w, s) == [i \in Bits |-> IF i >= s THEN w[i - s] ELSE 0]

\* a < b for two int64 words in two's complement.
SignedLess(a, b) ==
    IF a[63] # b[63] THEN a[63] = 1
    ELSE LET diff == {i \in Bits : a[i] # b[i]}
         IN  diff # {} /\ b[Max(diff)] = 1

\* Whole seconds as a Duration: s * 10^9 = (s * 5^9) * 2^9, for s <= 1099.
Seconds(s) == ShiftLeft(Word(s * 1953125), 9)

(* calculateRetryDelay: base := 5 * time.Second; delay := base *           *)
(* time.Duration(1 << uint(attempts-1)); capped at 5 * time.Minute.  The   *)
(* factor is a single bit (0 once the shift count reaches 64, which        *)
(* uint(attempts-1) does for attempts < 1 too), so the product modulo      *)
(* 2^64 is base shifted left.                                              *)
CalculateRetryDelay(attempts) ==
    LET base  == Seconds(5)
        cap   == Seconds(300)
        s     == attempts - 1
        delay == IF s >= 0 /\ s < 64 THEN ShiftLeft(base, s) ELSE Word(0)
    IN  IF SignedLess(cap, delay) THEN cap ELSE delay

\* The specification's backoff (section 4.3): min(5 s * 2^(k-1), 5 min).
SpecDelay(k) == Seconds(IF k > 7 THEN 300 ELSE Min({5 * 2^(k - 1), 300}))

-----------------------------------------------------------------------------
(* One job failing again and again: the part of FailJob that increments    *)
(* attempts and, while attempts < max_attempts, retries the job with the   *)
(* delay of its new attempt count.                                         *)

VARIABLES maxAttempts, attempts, status, delay

vars == <<maxAttempts, attempts, status, delay>>

Init ==
    /\ maxAttempts \in MaxAttempts
    /\ attempts = 0
    /\ status = "pending"
    /\ delay = Word(0)

FailJob ==
    /\ status \in {"pending", "retrying"}
    /\ attempts' = attempts + 1
    /\ IF attempts' < maxAttempts
       THEN status' = "retrying" /\ delay' = CalculateRetryDelay(attempts')
       ELSE status' = "failed" /\ UNCHANGED delay
    /\ UNCHANGED maxAttempts

Spec == Init /\ [][FailJob]_vars

\* Every retry is scheduled with the specification's delay for its attempt
\* count: positive, doubling from 5 s and never above 5 min, for every
\* max_attempts a request may set.
BackoffAsSpecified == status = "retrying" => delay = SpecDelay(attempts)

=============================================================================
