--------------------------- MODULE AuthorizedCalls ---------------------------
(***************************************************************************)
(* Bearer calls from Token to the last answer (authReq and bearerReq of    *)
(* payments/upi/client.go, then DoJSON): the token manager in full, with   *)
(* its clock, the exchange of the request as Transport implements it, and  *)
(* a server (external) that looks at the token when an attempt arrives.    *)
(* A token goes into the header of a request once, before DoJSON, and      *)
(* stays there for all attempts; it may expire or be revoked meanwhile.    *)
(*                                                                         *)
(* Invalidate is not among the steps: no code under src/ calls it, and New *)
(* keeps the token manager to itself.                                      *)
(***************************************************************************)
EXTENDS TokenManager, Exchange

CONSTANT AttemptLimits   \* maxAttempts of the retry policies to consider

ASSUME SameCallsAssumption == Requests = Callers
ASSUME AttemptLimitsAssumption == AttemptLimits \subseteq Nat \ {0}
\* tokenmanager.go:3 "Setu issues Bearer tokens valid for 300 seconds", and the
\* buffer is 60s: no token is worn out when it is received.
ASSUME LifetimeAssumption == \A e \in ExpiresIn : ttlOf(e) > refreshBuffer

VARIABLES
    entered,      \* calls that have called Token
    header,       \* the token in the Authorization header of each request
    denied,       \* calls that were answered 401
    revoked,      \* tokens the server has revoked
    obtainedAt,   \* history: when the token a call uses came from the cache, or
                  \* from the login server
    startRefused  \* history: tokens answered with 401 before the call began

requestVars == <<entered, header, denied, obtainedAt, startRefused>>
authVars == <<vars, exchangeVars, requestVars, revoked>>

AuthInit ==
    /\ Init
    /\ maxAttempts \in AttemptLimits
    /\ ExchangeInit
    /\ entered = {}
    /\ header = [c \in Callers |-> Nil]
    /\ denied = {}
    /\ revoked = {}
    /\ obtainedAt = [c \in Callers |-> 0]
    /\ startRefused = [c \in Callers |-> {}]

Refused == {header[c].id : c \in denied}
Dead(t) == now >= DiesAt(t)

-----------------------------------------------------------------------------
\* The operation calls tm.Token.
CallToken(c) ==
    /\ c \notin entered
    /\ TokenHit(c) \/ TokenMiss(c)
    /\ entered' = entered \cup {c}
    /\ obtainedAt' = [obtainedAt EXCEPT ![c] = now]
    /\ startRefused' = [startRefused EXCEPT ![c] = Refused]
    /\ UNCHANGED <<exchangeVars, header, denied, revoked>>

\* Token, after its look at the cache.
InToken(c) ==
    /\ Run(c) \/ LoginEnds(c) \/ LoginRetried(c) \/ Cancel(c)
    /\ obtainedAt' = [obtainedAt EXCEPT ![c] =
                        IF pc[c] \in {"reread", "response"} THEN now ELSE @]
    /\ UNCHANGED <<exchangeVars, entered, header, denied, startRefused, revoked>>

\* authReq: the token goes into the header.  When Token failed the call ends.
Build(c) ==
    /\ c \in entered
    /\ pc[c] = "done"
    /\ tok[c] # Nil
    /\ Open(c)
    /\ header' = [header EXCEPT ![c] = tok[c]]
    /\ UNCHANGED <<vars, entered, denied, obtainedAt, startRefused, revoked>>

\* One more attempt with the same header.
Attempt(c) ==
    /\ Post(c)
    /\ UNCHANGED <<vars, requestVars, revoked>>

\* The attempt is authorised and gets an answer that is final.
Accept(c) ==
    /\ c \notin settled
    /\ Settle(c)
    /\ ~Dead(header[c])
    /\ header[c].id \notin revoked
    /\ UNCHANGED <<vars, requestVars, revoked>>

\* 401, which is final too.
Deny(c) ==
    /\ c \notin settled
    /\ Settle(c)
    /\ Dead(header[c]) \/ header[c].id \in revoked
    /\ denied' = denied \cup {c}
    /\ UNCHANGED <<vars, entered, header, obtainedAt, startRefused, revoked>>

\* DoJSON returns; a 401 becomes an AuthError.
Finish(c) ==
    /\ Close(c)
    /\ c \in denied => outcome'[c] = "error"
    /\ UNCHANGED <<vars, requestVars, revoked>>

\* The server revokes a token: the keys were changed, or somebody logged out.
Revoke ==
    /\ \E id \in 1..issued : revoked' = revoked \cup {id}
    /\ UNCHANGED <<vars, exchangeVars, requestVars>>

TimePasses ==
    /\ Tick
    /\ UNCHANGED <<exchangeVars, requestVars, revoked>>

\* Every call has ended.
AllEnded ==
    /\ entered = Callers
    /\ \A c \in Callers : pc[c] = "done" /\ (tok[c] = Nil \/ phase[c] = "done")
    /\ UNCHANGED authVars

AuthNext ==
    \/ \E c \in Callers :
         \/ CallToken(c) \/ InToken(c) \/ Build(c) \/ Attempt(c)
         \/ Accept(c) \/ Deny(c) \/ Finish(c)
    \/ Revoke
    \/ TimePasses
    \/ AllEnded

AuthSpec == AuthInit /\ [][AuthNext]_authVars

-----------------------------------------------------------------------------
(***************************************************************************)
(* Properties                                                              *)
(***************************************************************************)

\* Every variable of the composition has its type; a request that is under way
\* has a token in its header, and no more attempts than the policy allows.
AuthTypeOK ==
    /\ entered \subseteq Callers
    /\ header \in [Callers -> Token \cup {Nil}]
    /\ denied \subseteq Callers
    /\ revoked \subseteq Nat
    /\ obtainedAt \in [Callers -> Nat]
    /\ startRefused \in [Callers -> SUBSET Nat]
    /\ phase \in [Callers -> {"idle", "busy", "done"}]
    /\ \A c \in Callers : phase[c] # "idle" => header[c] # Nil
    /\ sends \in [Callers -> 0..maxAttempts]

\* A token that was not revoked is refused only when the call has used it for
\* longer than refreshBuffer - loginTimeout: the buffer pays for a login answer
\* that was under way for loginTimeout and leaves the rest of it to the call.
\* With 60s and 30s that is one attempt of 30s; later attempts of the same call,
\* which carry the same header, may be refused.
FreshAttemptIsAuthorised ==
    [][\A c \in denied' \ denied :
         header[c].id \notin revoked =>
             now > obtainedAt[c] + refreshBuffer - loginTimeout]_authVars

\* A 401 for an expired token does not repeat itself: a call that begins after
\* it presents another token, though nothing tells the token manager of the 401
\* and its own clock of the token is ahead of the server's.
ExpiredTokenIsNotPresentedAgain ==
    \A c \in Callers :
        header[c] # Nil /\ header[c].id \in startRefused[c] =>
            header[c].id \in revoked

-----------------------------------------------------------------------------
(***************************************************************************)
(* What the comments say and the code does not do                          *)
(***************************************************************************)

\* tokenmanager.go:77-78 "Invalidate clears the cached token, forcing a fresh
\* fetch on next call.  Call this when the API returns HTTP 401": a call that
\* begins after a 401 does not present the token that was refused.
RefusedTokenIsNotPresentedAgain ==
    \A c \in Callers :
        header[c] # Nil => header[c].id \notin startRefused[c]

=============================================================================
