----------------------------- MODULE Transport -----------------------------
(***************************************************************************)
(* internal/transport/client.go: Do and DoJSON, run for several requests   *)
(* at once over one client, one rate limiter and one retry policy.  Each   *)
(* request is one call of DoJSON with a context of its own.  The limiter   *)
(* (golang.org/x/time/rate), net/http and the server are external: they    *)
(* are modelled by what the code relies on.                                *)
(***************************************************************************)
EXTENDS RetryPolicy, SetuErrors, FiniteSets

CONSTANTS
    Requests,      \* calls of DoJSON
    WithBody,      \* those that carry a JSON body
    WithDeadline,  \* those whose ctx has a deadline
    Statuses,      \* HTTP statuses the server may answer with
    Burst,         \* the limiter's burst
    MaxAttemptsOptions \* what WithMaxAttempts may be given

ASSUME RequestsAssumption ==
    WithBody \subseteq Requests /\ WithDeadline \subseteq Requests
ASSUME StatusesAssumption == Statuses \subseteq 100..599
ASSUME BurstAssumption == Burst \in Nat
ASSUME MaxAttemptsAssumption == MaxAttemptsOptions \subseteq Int

VARIABLES
    maxAttempts, \* of the client's retry policy
    pc,          \* where each request is in DoJSON
    attempt,   \* the loop variable of Do
    last,      \* lastResp / lastErr: 0, a status or NetError
    body,      \* what is left to read of req.Body
    open,      \* response bodies received and not closed
    result,    \* what DoJSON returned
    cancelled, \* requests whose ctx is done
    bucket,    \* tokens in the limiter, negative when more are reserved than it has
    due,       \* tokens still to come before each reservation is due
    sends,     \* history: requests the network accepted from each call
    received,  \* history: the body the server saw last
    executed,  \* history: how often the server carried the request out
    late       \* history: calls of hc.Do made when the ctx was done

codeVars == <<pc, attempt, last, body, open, result>>
limiterVars == <<bucket, due>>
historyVars == <<sends, received, executed, late>>
vars == <<maxAttempts, codeVars, cancelled, limiterVars, historyVars>>

Places == {"idle", "limit", "queue", "send", "inflight", "decide", "backoff",
           "decode", "crash", "done"}
Bodies == {"none", "full", "drained"}
Success == 200..299
\* Answers the caller is to see: a success or a fault of its own.
FinalStatuses == Success \cup (400..499 \ {429})

Init ==
    /\ \E option \in MaxAttemptsOptions : maxAttempts = MaxAttempts(option)
    /\ pc = [r \in Requests |-> "idle"]
    /\ attempt = [r \in Requests |-> 0]
    /\ last = [r \in Requests |-> 0]
    /\ body = [r \in Requests |-> IF r \in WithBody THEN "full" ELSE "none"]
    /\ open = [r \in Requests |-> 0]
    /\ result = [r \in Requests |-> Pending]
    /\ cancelled = {}
    /\ bucket = Burst
    /\ due = [r \in Requests |-> 0]
    /\ sends = [r \in Requests |-> 0]
    /\ received = [r \in Requests |-> "none"]
    /\ executed = [r \in Requests |-> 0]
    /\ late = [r \in Requests |-> 0]

Goto(r, place) == pc' = [pc EXCEPT ![r] = place]
Return(r, outcome) ==
    /\ Goto(r, "done")
    /\ result' = [result EXCEPT ![r] = outcome]

\* The end of the loop of Do, then DoJSON: an error is returned, a response is
\* decoded, and without any attempt there is neither.
LeaveLoop(r, outcome) ==
    /\ IF outcome = NetError THEN Return(r, NetworkError)
       ELSE /\ Goto(r, IF outcome = 0 THEN "crash" ELSE "decode")
            /\ UNCHANGED result

\* decodeError: the status decides the type.
ErrorOf(status) ==
    IF status \in {401, 403} THEN AuthError(status)
    ELSE IF status = 429 THEN RateLimitError
    ELSE APIError(status)

-----------------------------------------------------------------------------
\* Do: the body is read into bodyBuf, which every attempt replays.

Start(r) ==
    /\ pc[r] = "idle"
    /\ body' = [body EXCEPT ![r] = IF @ = "full" THEN "drained" ELSE @]
    /\ IF maxAttempts > 0
       THEN Goto(r, "limit") /\ UNCHANGED result
       ELSE LeaveLoop(r, last[r])
    /\ UNCHANGED <<maxAttempts, attempt, last, open, cancelled, limiterVars,
                   historyVars>>

\* Limiter.Wait looks at the ctx and reserves a token, one that is there or the
\* next one to come that nobody has reserved.
LimiterAdmits(r) ==
    /\ pc[r] = "limit"
    /\ r \notin cancelled
    /\ Burst > 0
    /\ bucket' = bucket - 1
    /\ IF bucket > 0
       THEN Goto(r, "send") /\ UNCHANGED due
       ELSE Goto(r, "queue") /\ due' = [due EXCEPT ![r] = 1 - bucket]
    /\ UNCHANGED <<maxAttempts, attempt, last, body, open, result, cancelled,
                   historyVars>>

\* It waits for the token to come, and admits the call also when the ctx is done
\* as well: the select takes either branch.
ReservationDue(r) ==
    /\ pc[r] = "queue"
    /\ due[r] = 0
    /\ Goto(r, "send")
    /\ UNCHANGED <<maxAttempts, attempt, last, body, open, result, cancelled,
                   limiterVars, historyVars>>

\* The ctx ends the wait.  A reservation is given back when it is the last in the
\* line; no later one is moved up.
ReservationCancelled(r) ==
    /\ pc[r] = "queue"
    /\ r \in cancelled
    /\ bucket' = IF due[r] > 0 /\ due[r] = -bucket THEN bucket + 1 ELSE bucket
    /\ due' = [due EXCEPT ![r] = 0]
    /\ Return(r, Untyped("limiter"))
    /\ UNCHANGED <<maxAttempts, attempt, last, body, open, cancelled,
                   historyVars>>

\* The error of Limiter.Wait ignored and the wait begun again (a mutant).
LimiterAsksAgain(r) ==
    /\ pc[r] = "limit"
    /\ r \in cancelled \/ Burst = 0
    /\ UNCHANGED vars

\* Limiter.Wait fails at once: the ctx is done, the wait would outlast its
\* deadline, or the burst is too small for any request.
LimiterRefuses(r) ==
    /\ pc[r] = "limit"
    /\ \/ r \in cancelled
       \/ bucket <= 0 /\ r \in WithDeadline
       \/ Burst = 0
    /\ Return(r, Untyped("limiter"))
    /\ UNCHANGED <<maxAttempts, attempt, last, body, open, cancelled,
                   limiterVars, historyVars>>

\* req.Body left as the last attempt drained it (a mutant).
ReplayNothing(r) == body[r]
Replay(r) == IF r \in WithBody THEN "full" ELSE body[r]

\* hc.Do: net/http sends nothing for a ctx that is done.
Send(r) ==
    /\ pc[r] = "send"
    /\ IF r \in cancelled
       THEN /\ last' = [last EXCEPT ![r] = NetError]
            /\ body' = [body EXCEPT ![r] = Replay(r)]
            /\ Goto(r, "decide")
            /\ late' = [late EXCEPT ![r] = @ + 1]
            /\ UNCHANGED <<sends, received>>
       ELSE /\ received' = [received EXCEPT ![r] = Replay(r)]
            /\ body' = [body EXCEPT ![r] =
                          IF r \in WithBody THEN "drained" ELSE "none"]
            /\ sends' = [sends EXCEPT ![r] = @ + 1]
            /\ Goto(r, "inflight")
            /\ UNCHANGED <<last, late>>
    /\ UNCHANGED <<maxAttempts, attempt, open, result, cancelled, limiterVars,
                   executed>>

\* The server answers.  A success was carried out, a 4xx was not; a 5xx says
\* nothing about it.
Answer(r) ==
    /\ pc[r] = "inflight"
    /\ \E status \in Statuses :
         /\ last' = [last EXCEPT ![r] = status]
         /\ \E ran \in IF status \in Success THEN {1}
                       ELSE IF status < 500 THEN {0} ELSE {0, 1} :
              executed' = [executed EXCEPT ![r] = @ + ran]
    /\ open' = [open EXCEPT ![r] = @ + 1]
    /\ Goto(r, "decide")
    /\ UNCHANGED <<maxAttempts, attempt, body, result, cancelled, limiterVars,
                   sends, received, late>>

\* No answer: the connection fails, the timeout fires or the ctx is done, before
\* or after the server has carried the request out.
AnswerLost(r) ==
    /\ pc[r] = "inflight"
    /\ last' = [last EXCEPT ![r] = NetError]
    /\ \E ran \in {0, 1} : executed' = [executed EXCEPT ![r] = @ + ran]
    /\ Goto(r, "decide")
    /\ UNCHANGED <<maxAttempts, attempt, body, open, result, cancelled,
                   limiterVars,
                   sends, received, late>>

-----------------------------------------------------------------------------
\* Do, after an attempt.

\* Backing off with the response body still open (a mutant).
DiscardNothing(r) == UNCHANGED open
Discard(r) ==
    open' = [open EXCEPT ![r] = IF last[r] = NetError THEN @ ELSE @ - 1]

DecideRetry(r) ==
    /\ pc[r] = "decide"
    /\ ShouldRetry(maxAttempts, attempt[r], last[r])
    /\ Discard(r)
    /\ Goto(r, "backoff")
    /\ UNCHANGED <<maxAttempts, attempt, last, body, result, cancelled,
                   limiterVars, historyVars>>

DecideFinal(r) ==
    /\ pc[r] = "decide"
    /\ ~ShouldRetry(maxAttempts, attempt[r], last[r])
    /\ LeaveLoop(r, last[r])
    /\ UNCHANGED <<maxAttempts, attempt, last, body, open, cancelled,
                   limiterVars, historyVars>>

\* Rate-limiting the first attempt only (a mutant).
BackoffEndsUnlimited(r) ==
    /\ pc[r] = "backoff"
    /\ attempt' = [attempt EXCEPT ![r] = @ + 1]
    /\ Goto(r, "send")
    /\ UNCHANGED <<maxAttempts, last, body, open, result, cancelled,
                   limiterVars, historyVars>>

\* Leaving the loop after the first backoff (a mutant).
BackoffEndsGivesUp(r) ==
    /\ pc[r] = "backoff"
    /\ Return(r, ErrorOf(last[r]))
    /\ UNCHANGED <<maxAttempts, attempt, last, body, open, cancelled,
                   limiterVars, historyVars>>

\* retry.Wait returns nil, also when the ctx is done as well: the select takes
\* either branch.
BackoffEnds(r) ==
    /\ pc[r] = "backoff"
    /\ attempt' = [attempt EXCEPT ![r] = @ + 1]
    /\ IF attempt'[r] < maxAttempts
       THEN Goto(r, "limit") /\ UNCHANGED result
       ELSE LeaveLoop(r, last[r])
    /\ UNCHANGED <<maxAttempts, last, body, open, cancelled, limiterVars,
                   historyVars>>

BackoffCancelled(r) ==
    /\ pc[r] = "backoff"
    /\ r \in cancelled
    /\ Return(r, Untyped("ctx"))
    /\ UNCHANGED <<maxAttempts, attempt, last, body, open, cancelled,
                   limiterVars, historyVars>>

-----------------------------------------------------------------------------
\* DoJSON, after Do: read the body, close it, and map the status.

\* Every answer but a server error is taken for a success (a mutant).
DecodedLeniently(status) ==
    IF status < 500 THEN {OK, Untyped("decode")} ELSE {ErrorOf(status)}

\* What DoJSON makes of a body it could read; a body that is not the JSON dst
\* expects is an untyped error.
Decoded(status) ==
    IF status \in Success THEN {OK, Untyped("decode")} ELSE {ErrorOf(status)}

\* The body cannot be read (NetworkError), or is decoded.
Decode(r) ==
    /\ pc[r] = "decode"
    /\ \E outcome \in Decoded(last[r]) \cup {NetworkError} : Return(r, outcome)
    /\ open' = [open EXCEPT ![r] = @ - 1]
    /\ UNCHANGED <<maxAttempts, attempt, last, body, cancelled, limiterVars,
                   historyVars>>

-----------------------------------------------------------------------------
Cancel(r) ==
    /\ pc[r] # "done"
    /\ r \notin cancelled
    /\ cancelled' = cancelled \cup {r}
    /\ UNCHANGED <<maxAttempts, codeVars, limiterVars, historyVars>>

\* The limiter gains a token, which is the first one reserved if there is any.
Refill ==
    /\ bucket < Burst
    /\ bucket' = bucket + 1
    /\ due' = [r \in Requests |-> IF due[r] > 0 THEN due[r] - 1 ELSE 0]
    /\ UNCHANGED <<maxAttempts, codeVars, cancelled, historyVars>>

\* The steps of the calling goroutine.
Run(r) ==
    \/ Start(r) \/ LimiterAdmits(r) \/ LimiterRefuses(r) \/ ReservationDue(r)
    \/ ReservationCancelled(r) \/ Send(r)
    \/ DecideRetry(r) \/ DecideFinal(r) \/ BackoffEnds(r) \/ BackoffCancelled(r)
    \/ Decode(r)

AttemptEnds(r) == Answer(r) \/ AnswerLost(r)

\* Every call has returned.
AllDone == (\A r \in Requests : pc[r] = "done") /\ UNCHANGED vars

Next ==
    \/ \E r \in Requests : Run(r) \/ AttemptEnds(r) \/ Cancel(r)
    \/ Refill
    \/ AllDone

Spec == Init /\ [][Next]_vars

\* Goroutines run, attempts end by the HTTP client's timeout, tokens accrue.
Fairness ==
    /\ \A r \in Requests : WF_vars(Run(r)) /\ WF_vars(AttemptEnds(r))
    /\ WF_vars(Refill)
FairSpec == Spec /\ Fairness

-----------------------------------------------------------------------------
(***************************************************************************)
(* Properties                                                              *)
(***************************************************************************)

\* Every variable has its type; in particular the loop never runs past its last
\* attempt, and no response body is closed twice.
TypeOK ==
    /\ maxAttempts \in Nat \ {0}
    /\ pc \in [Requests -> Places]
    /\ attempt \in [Requests -> 0..(maxAttempts - 1)]
    /\ last \in [Requests -> {0, NetError} \cup Statuses]
    /\ body \in [Requests -> Bodies]
    /\ open \in [Requests -> {0, 1}]
    /\ result \in [Requests -> [kind : Kinds, status : {0} \cup 100..599]]
    /\ cancelled \subseteq Requests
    /\ bucket \in Int /\ bucket <= Burst
    /\ due \in [Requests -> Nat]
    /\ sends \in [Requests -> 0..maxAttempts]
    /\ received \in [Requests -> Bodies]
    /\ executed \in [Requests -> 0..maxAttempts]
    /\ late \in [Requests -> Nat]

\* A response is open exactly while it is looked at: it is closed before a
\* backoff and before DoJSON returns, and it is still open when DoJSON reads it.
BodiesAreReleased ==
    \A r \in Requests :
        /\ pc[r] \in {"limit", "queue", "send", "inflight", "backoff", "done"}
             => open[r] = 0
        /\ pc[r] = "decode" => open[r] = 1

\* Do never ends without a response or an error, whatever WithMaxAttempts says:
\* DoJSON would dereference a nil response.
NeverNilResponse == \A r \in Requests : pc[r] # "crash"

\* Every attempt carries the whole body, also after an attempt that read it.
EveryAttemptIsWhole ==
    \A r \in WithBody : sends[r] > 0 => received[r] = "full"

\* An outcome the policy retries reaches the caller only when every attempt has
\* been made, unless the ctx or the limiter stopped the call.
ExhaustsAttempts ==
    \A r \in Requests :
        /\ pc[r] = "done"
        /\ r \notin cancelled
        /\ result[r].kind # "limiter"
        /\ DefaultShouldRetry(last[r])
        => sends[r] = maxAttempts

\* Nothing is sent again after a final answer: a payment the server accepted is
\* not made a second time, nor one it refused for the caller's fault.
FinalAnswerEndsSending ==
    [][\A r \in Requests :
         sends'[r] > sends[r] => last[r] \notin FinalStatuses]_vars

\* A call tries at most once more after its ctx is done, although neither the end
\* of a backoff nor that of a wait for the limiter looks at the ctx: before every
\* attempt the limiter does.
CancelledCallTriesOnce == \A r \in Requests : late[r] <= 1

\* The classification the caller sees agrees with the one the retry loop used:
\* an HTTP error the SDK gave up retrying is Retryable(), one it did not retry
\* is not.
RetryableAgrees ==
    \A r \in Requests :
        pc[r] = "done" /\ result[r].kind \in {"api", "auth", "ratelimit"} =>
            (IsRetryable(result[r]) <=> DefaultShouldRetry(last[r]))

\* What the caller may conclude about the request: a success means that the
\* server carried it out at least once, and a refusal that at least one of the
\* attempts was not carried out, so a refused request sent once never was.
\* Every other error, NetworkError after a 2xx included, says nothing.
OutcomeIsHonest ==
    \A r \in Requests : pc[r] = "done" =>
        /\ result[r] = OK => executed[r] > 0
        /\ /\ result[r].kind \in {"api", "auth", "ratelimit"}
           /\ result[r].status < 500
           => executed[r] < sends[r]

\* A call as Exchange sees it.
PhaseOf(place) ==
    CASE place = "idle" -> "idle" [] place = "done" -> "done" [] OTHER -> "busy"
OutcomeOf(outcome) ==
    IF outcome.kind \in {"pending", "ok"} THEN outcome.kind ELSE "error"

ExchangeOfCalls ==
    INSTANCE Exchange WITH
        phase <- [r \in Requests |-> PhaseOf(pc[r])],
        settled <- {r \in Requests : last[r] \in FinalStatuses},
        outcome <- [r \in Requests |-> OutcomeOf(result[r])]

\* DoJSON keeps the promise SetuClient builds on: never more posts than
\* attempts, none once the answer is final, no success without such an answer.
ImplementsExchange == ExchangeOfCalls!ExchangeSpec

\* Every call returns.
CallReturns == \A r \in Requests : pc[r] # "idle" ~> pc[r] = "done"

-----------------------------------------------------------------------------
(***************************************************************************)
(* What the comments say and the code does not do                          *)
(***************************************************************************)

\* errors.go:2 "Every error returned by SDK methods implements the [Error]
\* interface".
ErrorsAreTyped ==
    \A r \in Requests : pc[r] = "done" => result[r].kind \notin UntypedKinds

=============================================================================
