# setu-client-go: a verification project

TLA+ models of the Go SDK in `src/`, the TLC runs that check them on small
instances, and TLAPS proofs that hold for every instance. `PROJECT.json` lists
the components, runs, mutants, hazards, findings and theorems, and maps every
definition that models code to its source lines.

## 1. The system

The SDK is a library. A program builds one `Client` (`setu.go`, `options.go`)
and shares it among its goroutines; nothing is persisted and the SDK starts no
goroutine of its own. What is concurrent is the callers.

```
   caller goroutines
        |  upi / bbps / billpay / whatsapp      aa / esign / kyc
        |  validate -> Token -> request         validate -> request
        v                                             |
   auth.TokenManager --- login request -----+         |
        (one cache, one flight)             v         v
                                        transport.Client  (Do, DoJSON)
                                          |  ratelimit.Limiter (shared bucket)
                                          |  retry.Policy      (immutable)
                                          v
                                        net/http -> Setu
   Setu -> webhook.Handler -> callbacks of the program
```

| Component | State | Operations | What is hard | What makes it correct |
|---|---|---|---|---|
| Token manager `internal/auth` | cached token and its expiry; the channel of the login in flight | `Token`, `Invalidate` | hand-written single flight over two mutexes; waiters, cancellation, expiry, invalidation racing a login | one login at a time, nobody stranded, no dead, older or invalidated token from the cache |
| Transport `internal/transport` | none between calls; per call: attempt, body, open response, last outcome | `Do`, `DoJSON` | retry loop around a shared limiter, body replay, cancellation in every wait, lost answers | whole bodies, no leaked response, retries to the end and never after a final answer, every call returns |
| Retry policy `internal/retry` | immutable | `ShouldRetry`, `Wait` | last attempt, status set, `select` between timer and context | exactly `MaxAttempts` attempts |
| Rate limiter `internal/ratelimit` | token bucket (`x/time/rate`) | `Wait` | shared by all calls, logins included | refuses only when the context or the burst says so |
| Error types `pkg/setuerrors` | none | constructors, `Retryable`, predicates | the same status set is written twice | the caller's view agrees with the retry loop's |
| Construction `setu.go`, `options.go` | `config` | `New`, `With...` | options that cancel each other | effective settings are those asked for |
| Product clients `payments/*`, `data/*` | base URL, headers | 57 operations: validate, authenticate, one request | checks repeated by hand in every operation; one token for all retries; a login server the data products must not need | a refused call has no effect; what is sent is complete and authorised; every call ends |
| eSign, eKYC, AA sessions | on the server, driven by the program | `IsComplete` | no code of the SDK steps through them | |
| Webhook handler `webhook` | immutable callbacks | `ServeHTTP` | at-least-once sender, concurrent and reordered deliveries | every accepted event reaches its callback |

The hazards of this code, each at its line and with the properties that would
catch it going wrong, are in `PROJECT.json` under `hazards`.

## 2. The modules

| Module | Models | Built on |
|---|---|---|
| `TokenManager` | `internal/auth/tokenmanager.go` | implements `TokenSource` |
| `TokenSource` | what `Token` promises, in the abstract | |
| `Transport` | `internal/transport/client.go`, with `internal/ratelimit` | `RetryPolicy`, `SetuErrors`; implements `Exchange` |
| `Exchange` | what `DoJSON` promises, in the abstract | |
| `RetryPolicy` | `internal/retry/retry.go` | |
| `SetuErrors` | `pkg/setuerrors/errors.go` | |
| `SetuConfig` | `setu.go` (`New`, `validate`) and `options.go` | `RetryPolicy` |
| `Endpoints` | the 57 operations of `payments/*` and `data/*`, as data | |
| `SetuClient` | a client built by `New` and concurrent calls of its operations | `SetuConfig`, `Endpoints`, `TokenSource`, `Exchange` |
| `AuthorizedCalls` | bearer calls from `Token` to the last answer: a header that is set once, tokens that expire or are revoked, 401 | `TokenManager`, `Exchange` |
| `Webhook` | `webhook/handler.go` and its sender | implements `Delivery` |
| `Delivery` | what the handler promises its sender and its program, in the abstract | |
| `TokenManagerProofs` | theorems about `TokenManager`: types and the single flight | `TokenManager` |
| `TokenFreshnessProofs` | theorems about the tokens it hands out, and its refinement | `TokenManagerProofs`, `TokenSource` |
| `TransportProofs` | theorems about `Transport`, and its refinement | `Transport`, `Exchange` |
| `AuthorizedCallsProofs` | theorems about `AuthorizedCalls`, and that it keeps what is proved of its parts | `AuthorizedCalls` |
| `SetuClientProofs` | theorems about `SetuClient` and the checks of the 57 operations, and that it keeps to the steps of its parts | `SetuClient` |
| `WebhookProofs` | theorems about `Webhook`, and its refinement | `Webhook`, `Delivery` |
| `MCTokenManager`, `MCTransport`, `MCAuthorizedCalls`, `MCSetuClient`, `MCWebhook` | values for TLC | |

The composition is layered. `SetuClient` does not contain the cache, the locks,
the limiter or the retry loop: it is built on `TokenSource` and `Exchange`, the
promises of the two shared components, and `TokenManager` and `Transport` keep
them (`ImplementsTokenSource`, `ImplementsExchange`): the runs `token_safety` and
`transport_calls` check it and section 4 proves it. `AuthorizedCalls` composes the
token manager in full with `Exchange`, because what it is about, the age of a
token while a request retries, is what `TokenSource` abstracts from.

### TokenManager

A critical section of `mu` or `flightMu` is one action; the locks need no
variable because nothing blocks inside a section. Between two sections any other
goroutine, the login server and the clock may move. `pc[c]` says where caller
`c` is: `refresh` (missed, about to look at `flightCh`), `wait` (in the
`select`), `reread` (channel closed, about to read the cache), `login` and
`response` (in `fetchToken`, before and after the server minted a token),
`clear` and `close` (the two steps after `fetchToken`), `done` (not in a call).

* `flightCh` is Nil or the leader that made the channel; a caller blocked on
  that channel has `waitsFor[c]` = leader, and closing it sets this to Nil.
* A token is its number in the order of minting, the time of its minting and
  its lifetime. The value of the string is not needed.
* The clock is explicit. It does not pass the HTTP timeout of an attempt whose
  answer is under way: a later answer would have been dropped. The time between
  receiving an answer and storing it is taken as zero.
* A cancellation is modelled where the code looks at it: in the `select`
  (`Cancel`, `Abandon`) and in the HTTP client (`LoginFails`).
* The login goes through `transport.Client`, which retries; `LoginRetried` is an
  answer that is lost and asked for again, so one flight can mint several tokens.
* `floor`, `startFloor`, `overlapped` and `landed` are history variables: what had
  been minted at the last `Invalidate`, the same when a call began, the tokens
  under way at an `Invalidate`, the token brought by the flight a caller waited on.

### SetuErrors, RetryPolicy, Transport

Each request is one call of `DoJSON`. `pc[r]`: `limit` (about to call
`Limiter.Wait`), `queue` (in it, with a reservation), `send` (admitted, about to call `hc.Do`), `inflight`, `decide` (after `hc.Do`),
`backoff` (in `retry.Wait`), `decode` (in `DoJSON`), `crash` (`DoJSON` with a nil
response: it must be unreachable), `done`. The limiter is a bucket
shared by all requests and works as `x/time/rate` v0.9.0 does: `Wait` looks at the
context on entry and reserves a token, so that `bucket` is negative while more are
reserved than it has (`due[r]` says how many have still to come before that of `r`);
then it selects between its timer and the context, and with both ready either
branch is taken, as in `retry.Wait`. A reservation that is cancelled is given back
only when it is the last. `late[r]` counts the calls of `hc.Do` made with a context
that had ended: net/http sends nothing then. The server may answer with any status; a 2xx means it carried
the request out, a 4xx that it did not, a 5xx or a lost answer says nothing.
`executed` counts how often it did. `open` counts response bodies received and
not closed. The duration of a backoff is not modelled: the steps that depend on
it are `BackoffEnds` and `BackoffCancelled`, and both are possible at any time.

### TokenSource and Exchange

`TokenSource`: a call asks and ends with a token or an error; the server mints
only while somebody asks; nobody gets a token older than one that had been handed
out to anybody when the call began. `TokenManager` maps to it with the callers
outside `done` as those who ask, its `issued` as `minted` and the histories
`newest` and `since`; a hit of the cache is `GrantAtOnce`.

`Exchange`: a request is posted at most `maxAttempts` times, never after a final
answer, and succeeds only with one. `Transport` maps its places to
idle, busy and done, and a last answer in `FinalStatuses` to `settled`.

### SetuConfig, Endpoints, SetuClient

`Configure` applies the options in their order; `Accepts` is `validate` with the
lookup of the environment; `AttemptTimeout` is the timeout of the HTTP client
that comes out; `Admits` says whether its limiter lets anything through (a burst
of zero does not). An operation is a record: how it is authorised (bearer token and
merchant id, bearer token, keys in the headers), its checks in their order, what
a nil request turns into and whether its body may fail to marshal, and which arguments go into the URL. A check is the set
of arguments that have to be in order; a call is given any set of them, a nil
request having no fields.

A call runs `Enter`, then `Refuse` (or `Panic`, where the code dereferences the
request before its check), `AskForToken` or `SkipToken`, `Build` (or
`BuildFails`), the steps of `DoJSON` (`Exchanging`) and `Finish`. Two calls share
the token source and the transport.

### AuthorizedCalls

Each caller makes one bearer call: `CallToken` (the operation calls `Token`),
`InToken` (the rest of `Token`, the steps of `TokenManager`), `Build` (`authReq`
puts the token into the header), then `Attempt`, `Accept` or `Deny`, and `Finish`.
The header is set once and every attempt carries it. The server, external, answers
401 when the token has outlived its lifetime or was revoked (`Revoke`). `Invalidate`
is not among the steps: nothing under `src/` calls it, and `New` keeps the token
manager to itself. `obtainedAt` and `startRefused` are history variables: when a
call got its token, and which tokens had been answered 401 when it began.

### Webhook

The handler keeps no state between deliveries, so what is modelled is a delivery:
`ReadBody` (or `ReadFails`, which answers 400), `Dispatch`, the callback, `Respond`.
The sender, external, is taken to deliver an event until it gets a 200, to several
workers at once if it likes; net/http recovers a panicking callback, and the
process may crash: `MaxFaults` bounds these. A payload is what `dispatch` tells
apart: whether it is JSON, its `type`, its `eventType`, whether it has events, and
whether the typed decoding succeeds.

`Delivery` is what is left without deliveries, payloads and faults: the events the
program wants, those handled and those accepted. A wanted event is handled before it
is accepted, an unwanted one never handled, and nothing is taken back.
`CallbackReturns` and `Respond` are its steps; all others, a crash and a panic among
them, are stutters (`ImplementsDelivery`).

## 3. The runs

One tick of the clock is 30 seconds in `MCTokenManager` and `MCAuthorizedCalls`:
the default lifetime is 10 ticks, the refresh buffer 2, the HTTP timeout 1.

| Run | Instance | Shows |
|---|---|---|
| `token_safety` | 3 callers, 2 tokens, 1 tick, symmetry | `TypeOK`, `SingleLogin`, `NoLostWakeup`, `WaiterGetsFlightsTokenOrNewer`, `InvalidateForcesLogin`, `NewestWins`, `NoNeedlessLogin`, `WaiterFailsForAReason`, `ImplementsTokenSource` |
| `token_liveness` | 2 callers, 2 tokens, 3 ticks | `CachedTokenIsAlive`, `CallReturns`, `CancelReleasesWaiter` |
| `token_waiter_failure` | 2 callers, lifetime within the buffer | violated: a waiter fails although its flight succeeded |
| `token_invalidate_in_flight` | 2 callers | violated: a token minted before `Invalidate` is returned after it |
| `transport_calls` | 2 requests, one with a body and a deadline, burst 1, `WithMaxAttempts` of 0 and 3, 7 statuses | `TypeOK`, `BodiesAreReleased`, `EveryAttemptIsWhole`, `ExhaustsAttempts`, `RetryableAgrees`, `NeverNilResponse`, `FinalAnswerEndsSending`, `CancelledCallTriesOnce`, `OutcomeIsHonest`, `ImplementsExchange`, `CallReturns` |
| `transport_untyped_errors` | 1 request | violated: an error that is no `setuerrors.Error` |
| `authorized_calls` | 2 bearer calls of up to 2 attempts, 2 tokens of 3 ticks, 5 ticks | `AuthTypeOK`, `FreshAttemptIsAuthorised`, `ExpiredTokenIsNotPresentedAgain` |
| `authorized_revoked` | the same, 1 tick | violated: a call presents a token that was answered 401 before it began |
| `client_calls` | a call of any of the 57 operations beside one of `GetTransaction` or `PANVerify`, 5 lists of options (one with a burst of zero), 2 tokens, 1 or 2 attempts | `TypeOK`, `RefusedCallsAreSilent`, `SentIsComplete`, `ResultTellsWhatWasSent`, `KeyedCallsNeedNoLogin`, `CallReturns` |
| `client_nil_request` | 1 call of a data product | violated: a nil request panics |
| `client_timeout` | 1 call, `WithTimeout` of 5 seconds | violated: attempts keep the default of 30 |
| `webhook` | an event of any payload beside a payment, 2 workers, 2 faults; all callbacks, all but one, none | `TypeOK`, `RightCallback`, `AckedIsHandled`, `EveryEventIsAcked`, `ImplementsDelivery` |

Why the bounds are enough. Three callers are a leader that is closing its
channel, a waiter on it, and the leader of the next flight; two tokens let an
older one meet a newer one in the cache. The races of `token_safety` are among
critical sections and need no clock beyond the step that separates minting from
receipt; what depends on time is in `token_liveness`, where a lifetime of 3 ticks
makes a token usable for one tick after its receipt and lets it die within the
bound. Two requests contend for one limiter token; three attempts have a first,
one in between and a last. In `client_calls` one call meets another that is
authorised the same way or the other way, and the arguments are all that an
operation looks at. In `authorized_calls` five ticks let a token be used, expire
while its call retries and be refused, and the other call begin after that with
its own login. Two events on two workers are delivered together, out of
order, or one of them twice.

Bounds in the guards: `MaxTime` stops the clock, `MaxIssued` and `MaxMinted` the
login server (a login can then only fail), `MaxFaults` the crashes, panics and
losses of the webhook. None is in the code.

Fairness. Weak fairness of each goroutine's own steps (`Run`): the Go scheduler
runs a goroutine that can run; where a call can go more than one way the ways are
in one action, so the fairness does not choose between them. The end of an
attempt is fair (`LoginsEnd` in `TokenManager`, `AttemptEnds` in `Transport`)
because the HTTP client has a timeout; `CallReturns` of `TokenManager` assumes it
(`LoginsEnd => ...`), and `CancelReleasesWaiter`, in the same run, does not: a waiter
gets away from a login that never ends. `Refill` is fair because the bucket gains
tokens as time passes. In `SetuClient` the fairness of `Finish`
is `CallReturns` of `Transport`, and is given only to a client whose attempts time
out (`AttemptTimeout(cfg) > 0`): what makes its calls end is that `New` accepts no
other, whatever the options. That calls of `Token` end (`TokensCome`) is
`CallReturns` of `TokenManager`, assumed for `CallReturns` and not for
`KeyedCallsNeedNoLogin`. The webhook sender delivers each unacknowledged event again
and again (strong fairness: a worker may be busy whenever it looks), and faults are
bounded. No fairness of `Invalidate`, `Cancel`, retried logins or the clock.

Every property of a passing run has a mutant in `PROJECT.json`: a definition that
models code is replaced by a plausible wrong version of it (they stand next to
the definition they alter, marked "a mutant") and TLC finds the property violated.

## 4. The proofs

All hold for every value of the constants. TLC had agreed with each theorem's
property, and with the inductive invariants, on the instances of section 3.

### TokenManagerProofs: any callers, `expires_in` values, durations and bounds

* `TypeCorrect`: `Spec => []TypeOK`. `TypeOK` is not inductive, because
  `StoreToken` reads a field of `tok[c]`: `TypeInv` adds that a caller in
  `response` holds a token (`TypeInvCorrect`).
* `FlightCorrect`: `Spec => []FlightInv`. `flightCh` names exactly the caller that
  is between publishing its channel and taking it back, and a caller with
  `waitsFor` set is in `wait` behind a caller that has still to close. The steps
  of the code are first reduced to what they do to `pc`, `flightCh` and
  `waitsFor` (`StepIsFlightStep`), and the invariant is proved over those
  (`FlightStepKeepsInv`).
* `SingleLoginCorrect` and `NoLostWakeupCorrect` follow from it.

### TokenFreshnessProofs: which token a call gets

* All but the lifetime of a token depends on ids alone, so a step of
  `TokenManager` is first shown to be a step of ids (`IdStep`), with the single
  flight from `FlightCorrect`: there is one caller at a time between minting and
  closing, so what it mints is the newest. `IdInv` is inductive over those steps
  (`IdsCorrect`). `OrderInv` orders the cached token, those of the callers and
  what has been handed out; `LandedInv` says that what a flight brought is in
  the cache, or a newer one is, or nothing; `FreshInv` relates the cache and
  each call to the last `Invalidate`.
* `WaiterCorrect`, `InvalidateCorrect` and `NewestWinsCorrect` follow from it,
  and so does `TokenSourceImplemented`: under the refinement mapping of
  `TokenManager` every step is a step of `TokenSource` or a stutter.
* `AheadInv` and `MissingInv` (`AheadCorrect`) sharpen `OrderInv`. The first: an answer
  that is being taken is newer than the cache, than what was handed out and than what
  a leader still in `close` holds. The second: where the cache is empty, `Invalidate`
  ran after the minting of whatever flights brought. Neither holds by itself: that
  there is one answer at a time is `FlightInv`, that it is no older `OrderInv`.
* `NoNeedlessLoginCorrect`: nobody looks at the cache under `flightMu`, so a caller may
  log in while the cache is valid again; the theorem says that a flight with a newer
  token landed in between. `ValidBefore` is its lemma: the only step that makes a
  worn-out cache valid is one that stores a newer token.
* `WaiterFailsForAReasonCorrect`: the only reasons for the failure of the finding
  `WaitersShareSuccess` are an invalidation and a token within the buffer.
* `CachedTokenIsAliveCorrect` needs the clock: `TimeInv` says that an answer is
  used within the timeout of its attempt, so a cached token outlives the expiry
  the manager wrote down by one timeout at most. That is no longer than the
  refresh buffer by `TimeoutAssumption` (30s and 60s in the code).

### TransportProofs: any requests, statuses, burst and `WithMaxAttempts`

* A step of a request leaves the others alone but for the bucket, so the
  invariant `TransportInv` is `CallInv(r)` for each request, and `CallsApart`
  carries it over to the others. `CallInv` says, at each place of `DoJSON`, how
  sends relate to the loop variable (`CountInv`), which outcomes lead there
  (`OutcomeInv`), what of the response is open (`BodyInv`) and what a result says
  about the last outcome (`ResultInv`). `TypeOK` and the other safety properties
  are not inductive: `crash` is unreachable, for instance, because `New` of the retry
  policy makes at least one attempt, hence the loop has an outcome.
* The invariants of the run follow: `TypeCorrect`, `BodiesCorrect`,
  `NeverNilCorrect`, `WholeCorrect`, `ExhaustsCorrect`, `RetryableCorrect`; and the
  action property `FinalAnswerCorrect`.
* `CancelledCorrect`: a call whose context has ended calls `hc.Do` at most once more,
  although both waits may let it pass. `LateInv` says that once it has, the call is never
  again in the queue, at `hc.Do` or in flight: the limiter refuses it on entry.
* `OutcomeIsHonestCorrect` needs `ExecInv` (`ExecCorrect`): where the last answer is a
  success the request was carried out, and where it is a refusal, fewer times than it
  was sent. Attempts apart no step touches any of the three (`OnlyAttemptsExecute`), and
  a result is made of the last answer (`ResultFromAnswer`). Of a `NetworkError`, which a
  2xx with an unreadable body becomes, it says nothing: that is all a caller may conclude.
* `ExchangeImplemented`: each step is seen by the caller of `DoJSON` as one of
  `Opens`, `Posts`, `Settles`, `Ends` or not at all (`StepIsSeen`), and these are
  the steps of `Exchange`.

The assumptions are the named `ASSUME`s of `TokenManager` and `Transport`: Nil
differs from callers and tokens, durations are naturals with the timeout at most
the refresh buffer, `expires_in` is an integer, statuses are three digits and the
options integers.

### AuthorizedCallsProofs: any calls, lifetimes above the buffer, policies

* `TokensKept`: `AuthSpec => Spec`. The composition runs the token manager as it
  is, so the theorems of the two modules above hold of it. `ExchangeKept` says the
  same of `Exchange`, and `TokenSourceKept` that of `TokenSource`: real bearer calls keep
  within the two promises `SetuClient` is built on.
* `AuthTypeCorrect` needs `HeaderInv`: a header is the token its caller holds.
* `FreshAttemptCorrect`: `LifeInv` says that a token is alive for `refreshBuffer -
  loginTimeout` after its call obtained it, whether from the cache (`CacheOutlives`)
  or from the login server (`AnswerOutlives`, where `LifetimeAssumption` is needed).
* `ExpiredTokenCorrect`: `SameInv` (two tokens of one id are one token, with one
  time of minting) and `RefusedInv` (a token that was refused unrevoked is dead, so
  it is no longer valid in the cache, nor on its way to it), with the time
  invariant of `TokenFreshnessProofs`.

### SetuClientProofs: any calls, lists of options and sets of operations

* `UPIChecksAll`, `BillChecksAll` and `DataChecksAll` go through the 57 operations:
  each checks what the API needs of its arguments (`NeededBy`). These are facts
  about the operations, not about runs; the invariant rests on them.
* `ClientInv` is inductive: `CallInv(c)` says, at each place of a call, what was
  checked, whether a token was asked for and got, and what was sent. A call leaves
  the others alone but for the tokens minted (`OthersKeepInv`).
* `RefusedCorrect`, `SentCorrect` and `TypeCorrect` follow.
* `ResultCorrect` looks at the end of a call: `EndInv` (`EndCorrect`) ties each result to
  the place it was returned from, and so to whether the exchange was opened.
* `TokensKept` and `ExchangeKept`: `Spec => TokenSpec` and `Spec => ExchangeSpec`. A call
  uses its parts by their own steps only, so the client rests on nothing but what
  `TokenSourceImplemented` and `ExchangeImplemented` prove of the code beneath it.

### WebhookProofs: any events, workers, payloads, callbacks and faults

* `RouteIsMeant`: for each payload the dispatch arrives at the callback it is meant
  for (`MeantFor`, which has a table of its own for the UPI families), by cases on
  `type` and `eventType`.
* `AckedIsHandled` is not inductive: a 200 is written by a delivery that is at
  `respond`. `DeliveryInv` adds that it is there for a wanted event only when a
  callback has run, and that a delivery at its callback is for one to be invoked.
  `WebhookInv` with it is inductive, faults included (`WebhookInvCorrect`).
* `DeliveryImplemented`: the handler implements `Delivery`. A callback that returns is a
  `Handle` of an event the program wants (`CallbackHandles`), an answer that arrives an
  `Accept` of one that was handled or is not wanted (`RespondAccepts`), both by
  `DeliveryInv`; `OthersAreUnseen` goes through the rest.

The assumptions of these three are the named `ASSUME`s of their modules:
`LifetimeAssumption` (tokens live longer than the buffer: 300s and 60s by
`tokenmanager.go:3`), calls that are the callers and requests of the parts, sets
of operations and of events that are not empty, and the types of the constants.

Only model-checked: liveness (`CallReturns`, `CancelReleasesWaiter`,
`KeyedCallsNeedNoLogin`, `EveryEventIsAcked`), which is out of the prover's reach.

## 5. Where the code and its comments differ

Six statements of the code are contradicted by a run (`findings` in
`PROJECT.json`): a waiter of a successful refresh can fail; `Invalidate` does not
force a fresh fetch while a login is in flight; some errors are not
`setuerrors.Error`; `VerifySync` and `VerifyAsync` panic on the nil request their
check is there for; `WithTimeout` has no effect without `WithHTTPTransport`; nothing
calls `Invalidate` after a 401, nor can a program, so a revoked token is presented
again until it expires.

Noted and in no run: a 501 is not retried although `retry.go:15` says 5xx
(`DefaultShouldRetry` models the code); a webhook whose body cannot be read is
answered 400 although `handler.go:219` says always 200 (`ReadFails`); a BBPS settlement whose callback is nil goes
on to the UPI switch and is logged there as unknown.

## 6. Not modelled, and why

* The consent, data-session, eSign and eKYC protocols. Their state is the server's
  and their steps are the program's: the SDK has one call for each step, all of
  them in `Endpoints`, and `IsComplete`, one comparison of a status.
* The length of backoffs (`retry.Wait`). A backoff ends or is cancelled at any time
  in `Transport`, which covers every length; no property is about the length.
* The predicates of `pkg/setuerrors` other than `Retryable`, and the text, codes and
  trace ids `decodeError` collects: pure functions of one error.
* `expires_in` at the width of `time.Duration`: it takes 292 years to overflow.
* A panic inside `fetchToken` (of a custom transport), which leaves `flightCh` set.
* JSON field layout, header wording, base URLs, logging, `pkg/types`, the example.

Where the models' assumptions end: with a custom transport and a `WithTimeout` above
60 seconds an answer can be under way for longer than the refresh buffer, and
`TimeoutAssumption` fails; a `WithRateLimit` of zero requests a second never refills
the bucket, and the fairness of `Refill`, hence `CallReturns`, fails after the first
burst.
