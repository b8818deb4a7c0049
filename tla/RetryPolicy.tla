----------------------------- MODULE RetryPolicy -----------------------------
(***************************************************************************)
(* internal/retry/retry.go: which answers are retried and how often.  The  *)
(* outcome of an attempt is an HTTP status or NetError.  The length of the *)
(* jittered backoff is left out: only its order with a cancellation counts.*)
(***************************************************************************)
EXTENDS Integers

NetError == -1    \* hc.Do returned an error and no response

\* retry.New without its default (a mutant).
MaxAttemptsAsGiven(option) == option
\* What WithMaxAttempts(option) leads to.
MaxAttempts(option) == IF option <= 0 THEN 1 ELSE option

\* Retrying whatever the answer is (a mutant).
RetryAnything(outcome) == TRUE
DefaultShouldRetry(outcome) == outcome \in {NetError, 429, 500, 502, 503, 504}

\* The policy asked on the last attempt as on the others (a mutant).
ShouldRetryOnce(maxAttempts, attempt, outcome) ==
    attempt < maxAttempts /\ DefaultShouldRetry(outcome)
\* Attempts count from 0; the last one is never retried.
ShouldRetry(maxAttempts, attempt, outcome) ==
    attempt < maxAttempts - 1 /\ DefaultShouldRetry(outcome)

=============================================================================
