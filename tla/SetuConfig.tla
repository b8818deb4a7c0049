----------------------------- MODULE SetuConfig -----------------------------
(***************************************************************************)
(* setu.go and options.go: what New makes of its options.  Durations are   *)
(* in milliseconds, rates in requests per second.                          *)
(***************************************************************************)
EXTENDS RetryPolicy, Sequences, SequencesExt

\* What New starts from.
Defaults ==
    [clientID |-> "", clientSecret |-> "", productInstanceID |-> "",
     environment |-> "sandbox", timeout |-> 30000, maxAttempts |-> 4,
     retryWait |-> [base |-> 500, max |-> 10000],
     rateLimit |-> [rps |-> 100, burst |-> 20],
     httpTransport |-> "nil", userAgent |-> "setu-client-go"]

\* WithClientID and the other functional options: each sets one setting, those
\* of the backoff and of the rate limit a pair.
Option(setting, value) == [setting |-> setting, value |-> value]
Apply(cfg, option) == [cfg EXCEPT ![option.setting] = option.value]

\* Every option is run, in the order New is given them.
Configure(options) == FoldLeft(Apply, Defaults, options)

\* validate without its look at the timeout (a mutant).
AcceptsAnyTimeout(cfg) ==
    /\ cfg.clientID # ""
    /\ cfg.clientSecret # ""
    /\ cfg.environment \in {"sandbox", "production"}
\* config.validate, then the lookup of the environment's URLs.
Accepts(cfg) ==
    /\ cfg.clientID # ""
    /\ cfg.clientSecret # ""
    /\ cfg.timeout > 0
    /\ cfg.environment \in {"sandbox", "production"}

\* The HTTP client of the transport: without a transport of the caller's, New
\* passes none, and transport.New takes its default client.
DefaultTimeout == 30000
AttemptTimeout(cfg) ==
    IF cfg.httpTransport = "nil" THEN DefaultTimeout ELSE cfg.timeout

\* The limiter lets a request through at all: nothing keeps WithRateLimit from a
\* burst of zero, and its Wait then refuses calls and logins alike.
Admits(cfg) == cfg.rateLimit.burst > 0

=============================================================================
