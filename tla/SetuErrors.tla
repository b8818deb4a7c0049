----------------------------- MODULE SetuErrors -----------------------------
(***************************************************************************)
(* What a call of the SDK ends with: the error types of                    *)
(* pkg/setuerrors/errors.go and the untyped errors the transport returns   *)
(* as they come.  Messages, codes and trace ids are left out.              *)
(***************************************************************************)
EXTENDS Integers

\* Error values that implement setuerrors.Error.
TypedKinds == {"api", "auth", "ratelimit", "network", "validation"}
\* Error values that do not: ctx.Err(), the limiter's error, a decode error
\* wrapped by fmt.Errorf.
UntypedKinds == {"ctx", "limiter", "decode"}
Kinds == {"ok", "pending"} \cup TypedKinds \cup UntypedKinds

Outcome(kind, status) == [kind |-> kind, status |-> status]
Pending == Outcome("pending", 0)
OK == Outcome("ok", 0)
APIError(status) == Outcome("api", status)
AuthError(status) == Outcome("auth", status)
RateLimitError == Outcome("ratelimit", 429)
NetworkError == Outcome("network", 0)
Untyped(kind) == Outcome(kind, 0)

\* APIError.Retryable that forgets the gateway timeout (a mutant).
APIRetryableButTimeout(status) == status \in {429, 500, 502, 503}
APIRetryable(status) == status \in {429, 500, 502, 503, 504}

IsRetryable(outcome) ==
    \/ outcome.kind = "api" /\ APIRetryable(outcome.status)
    \/ outcome.kind \in {"ratelimit", "network"}

=============================================================================
