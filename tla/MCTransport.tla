---------------------------- MODULE MCTransport ----------------------------
(* Model checking of Transport: two calls share one limiter. *)
EXTENDS Transport

CONSTANTS r1, r2

OneRequest == {r1}
TwoRequests == {r1, r2}

\* A success, an authentication failure, a missing resource, a rate limit, two
\* retried server errors and one that the policy leaves out.
MCStatuses == {200, 401, 404, 429, 500, 504, 501}

\* WithMaxAttempts(0) stands for what is not positive.
TwoAttempts == {2}
MCAttempts == {0, 3}
=============================================================================
