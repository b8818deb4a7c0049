------------------------------ MODULE SetuClient ------------------------------
(***************************************************************************)
(* A Client built by New (setu.go) and calls of its product operations by  *)
(* several goroutines: each checks its arguments, gets a token if it needs *)
(* one, builds its request and hands it to DoJSON.  The token manager and  *)
(* the transport, which all calls share, are present as what they promise: *)
(* TokenSource and Exchange.                                               *)
(***************************************************************************)
EXTENDS Endpoints, SetuConfig, TokenSource, Exchange

CONSTANTS
    Calls,         \* calls of operations, each made once
    OperationsOf,  \* the operations each call may be of
    OptionLists,   \* what New may be given
    MaxMinted      \* bound: tokens the login server mints

\* A call is the caller of Token and the sender of a request.
ASSUME CallsAssumption == Callers = Calls /\ Requests = Calls
ASSUME OperationsAssumption ==
    OperationsOf \in [Calls -> (SUBSET Operations) \ {{}}]
ASSUME MintedAssumption == MaxMinted \in Nat

VARIABLES
    cfg,      \* the config New ended with
    stage,    \* where each call is in its operation
    op,       \* its operation
    given,    \* the arguments that are in order
    result,   \* what it ended with
    asked     \* history: calls that called Token

callVars == <<stage, op, given, result, asked>>
vars == <<cfg, callVars, tokenVars, exchangeVars>>

Stages == {"idle", "validate", "token", "build", "exchange", "done", "panicked"}
Results == {"none", "validation", "token", "build", "ok", "error"}

Init ==
    /\ \E options \in OptionLists : cfg = Configure(options)
    /\ stage = [c \in Calls |-> "idle"]
    /\ op = [c \in Calls |-> CHOOSE o \in OperationsOf[c] : TRUE]
    /\ given = [c \in Calls |-> {}]
    /\ result = [c \in Calls |-> "none"]
    /\ asked = {}
    /\ TokenInit
    /\ maxAttempts = MaxAttempts(cfg.maxAttempts)
    /\ ExchangeInit

Goto(c, place) == stage' = [stage EXCEPT ![c] = place]
Return(c, r) ==
    /\ Goto(c, "done")
    /\ result' = [result EXCEPT ![c] = r]

\* An operation with a bearer token, not one with the keys in its headers.
NeedsTokenAlways(o) == TRUE    \* (a mutant)
NeedsToken(o) == o.auth # "keys"
InOrder(c) == Passes(op[c], given[c])

-----------------------------------------------------------------------------
\* The program calls an operation of a client that New accepted.
Enter(c) ==
    /\ Accepts(cfg)
    /\ stage[c] = "idle"
    /\ \E o \in OperationsOf[c] : \E g \in ArgumentsOf(o) :
         /\ op' = [op EXCEPT ![c] = o]
         /\ given' = [given EXCEPT ![c] = g]
    /\ Goto(c, "validate")
    /\ UNCHANGED <<cfg, result, asked, tokenVars, exchangeVars>>

Panic(c) ==
    /\ stage[c] = "validate"
    /\ Panics(op[c], given[c])
    /\ Goto(c, "panicked")
    /\ UNCHANGED <<cfg, op, given, result, asked, tokenVars, exchangeVars>>

Refuse(c) ==
    /\ stage[c] = "validate"
    /\ ~Panics(op[c], given[c]) /\ ~InOrder(c)
    /\ Return(c, "validation")
    /\ UNCHANGED <<cfg, op, given, asked, tokenVars, exchangeVars>>

\* Token called before the arguments are looked at (a mutant).
AskForTokenFirst(c) ==
    /\ stage[c] = "validate"
    /\ NeedsToken(op[c])
    /\ asked' = asked \cup {c}
    /\ \/ Ask(c) /\ Goto(c, "token")
       \/ GrantAtOnce(c) /\ Goto(c, "build")
    /\ UNCHANGED <<cfg, op, given, result, exchangeVars>>

\* tm.Token, which may answer from its cache.
AskForToken(c) ==
    /\ stage[c] = "validate"
    /\ InOrder(c)
    /\ NeedsToken(op[c])
    /\ asked' = asked \cup {c}
    /\ \/ Ask(c) /\ Goto(c, "token")
       \/ GrantAtOnce(c) /\ Goto(c, "build")
    /\ UNCHANGED <<cfg, op, given, result, exchangeVars>>

\* The keys go into the headers; the token manager is not involved.
SkipToken(c) ==
    /\ stage[c] = "validate"
    /\ InOrder(c)
    /\ ~NeedsToken(op[c])
    /\ Goto(c, "build")
    /\ UNCHANGED <<cfg, op, given, result, asked, tokenVars, exchangeVars>>

TokenGranted(c) ==
    /\ stage[c] = "token"
    /\ Grant(c)
    /\ Goto(c, "build")
    /\ UNCHANGED <<cfg, op, given, result, asked, exchangeVars>>

\* The error is wrapped and returned.
TokenDenied(c) ==
    /\ stage[c] = "token"
    /\ Deny(c)
    /\ Return(c, "token")
    /\ UNCHANGED <<cfg, op, given, asked, exchangeVars>>

\* NewJSONRequest fails: the URL does not parse, or the body has a field that
\* does not marshal.
BuildFails(c) ==
    /\ stage[c] = "build"
    /\ op[c].inPath # {} \/ op[c].body = "open"
    /\ Return(c, "build")
    /\ UNCHANGED <<cfg, op, given, asked, tokenVars, exchangeVars>>

Build(c) ==
    /\ stage[c] = "build"
    /\ Open(c)
    /\ Goto(c, "exchange")
    /\ UNCHANGED <<cfg, op, given, result, asked, tokenVars>>

\* The steps of DoJSON; a limiter that admits nothing ends it with its error.
Exchanging(c) ==
    /\ Admits(cfg)
    /\ Post(c) \/ Settle(c)
    /\ UNCHANGED <<cfg, callVars, tokenVars>>

Finish(c) ==
    /\ stage[c] = "exchange"
    /\ Close(c)
    /\ Return(c, outcome'[c])
    /\ UNCHANGED <<cfg, op, given, asked, tokenVars>>

\* The login server mints a token for a flight somebody leads.  The login takes
\* from the same limiter as the calls.
Login ==
    /\ Admits(cfg)
    /\ minted < MaxMinted
    /\ Mint
    /\ UNCHANGED <<cfg, callVars, exchangeVars>>

\* Every call has ended, or New refused and there is no client to call.
AllDone ==
    /\ Accepts(cfg) => \A c \in Calls : stage[c] \in {"done", "panicked"}
    /\ UNCHANGED vars

\* The steps of the calling goroutine outside the token manager and DoJSON.
Run(c) ==
    \/ Panic(c) \/ Refuse(c) \/ AskForToken(c) \/ SkipToken(c)
    \/ BuildFails(c) \/ Build(c)

TokenAnswers(c) == TokenGranted(c) \/ TokenDenied(c)

Next ==
    \/ \E c \in Calls : 
         \/ Enter(c) \/ Run(c) \/ TokenAnswers(c)
         \/ Exchanging(c) \/ Finish(c)
    \/ Login
    \/ AllDone

Spec == Init /\ [][Next]_vars

\* Goroutines run, and DoJSON ends (CallReturns of Transport) when its attempts
\* do: an http.Client ends them only if its timeout is positive.
FairSpec ==
    /\ Spec
    /\ \A c \in Calls :
         /\ WF_vars(Run(c))
         /\ WF_vars(AttemptTimeout(cfg) > 0 /\ Finish(c))

\* Token ends when login attempts do (CallReturns of TokenManager).
TokensCome == \A c \in Calls : WF_vars(TokenAnswers(c))

-----------------------------------------------------------------------------
(***************************************************************************)
(* Properties                                                              *)
(***************************************************************************)

\* Every variable has its type; no request is posted more often than the
\* options say.
TypeOK ==
    /\ stage \in [Calls -> Stages]
    /\ op \in [Calls -> Operations]
    /\ \A c \in Calls : given[c] \subseteq NamesOf(op[c])
    /\ result \in [Calls -> Results]
    /\ asked \subseteq Calls
    /\ asking \subseteq Calls
    /\ minted \in 0..MaxMinted
    /\ newest \in 0..minted
    /\ got \in [Calls -> 0..minted]
    /\ maxAttempts \in Nat \ {0}
    /\ sends \in [Calls -> 0..maxAttempts]

\* A call whose arguments are not in order has no effect at all: it neither
\* starts a login nor reaches the API, whichever product it is of.
RefusedCallsAreSilent ==
    \A c \in Calls :
        stage[c] # "idle" /\ ~InOrder(c) => c \notin asked /\ sends[c] = 0

\* What the API needs to make sense of a request: the ids in its URL, the
\* merchantId header, a body that is not null.
NeededBy(o) ==
    o.inPath
    \cup (IF o.auth = "merchant" THEN {"merchantID"} ELSE {})
    \cup (IF o.body \in {"plain", "open"} THEN {"req"} ELSE {})

\* Whatever reaches the API is complete and authorised: no URL with an id
\* missing, no null body, no bearer request without a token.
SentIsComplete ==
    \A c \in Calls :
        sends[c] > 0 =>
            /\ NeededBy(op[c]) \subseteq given[c]
            /\ op[c].auth # "keys" => got[c] # 0

\* What a call ends with tells its program whether anything reached the API: a
\* success did, and was answered for good; a call refused, left without a token,
\* not built, or broken off by a panic sent nothing and may be made again.
ResultTellsWhatWasSent ==
    \A c \in Calls :
        /\ result[c] = "ok" => c \in settled /\ sends[c] > 0
        /\ result[c] \in {"validation", "token", "build"} \/ stage[c] = "panicked"
             => sends[c] = 0

\* The data products do not depend on the login server: their calls end even if
\* no call of Token ever does.
KeyedCallsNeedNoLogin ==
    \A c \in Calls :
        stage[c] = "validate" /\ op[c].auth = "keys"
            ~> stage[c] \in {"done", "panicked"}

\* Every call ends when calls of Token do, of any client New accepts: none of
\* them can be left waiting for an attempt that never times out.
CallReturns ==
    TokensCome =>
        \A c \in Calls : stage[c] = "validate" ~> stage[c] \in {"done", "panicked"}

-----------------------------------------------------------------------------
(***************************************************************************)
(* What the code and its comments say and the code does not do             *)
(***************************************************************************)

\* bav/client.go:115 "if isNil": a nil request is refused with "request is
\* required".
NilRequestIsRefused == \A c \in Calls : stage[c] # "panicked"

\* options.go:35 "WithTimeout sets the per-request HTTP timeout."
TimeoutIsAsGiven ==
    \A c \in Calls : stage[c] # "idle" => AttemptTimeout(cfg) = cfg.timeout

=============================================================================
