---------------------------- MODULE TokenManager ----------------------------
(***************************************************************************)
(* The access-token cache of internal/auth/tokenmanager.go: Token, refresh *)
(* (the hand-written single flight), fetchToken and Invalidate, run by any *)
(* number of goroutines over one TokenManager.                             *)
(*                                                                         *)
(* A critical section of mu or of flightMu is one action, so the locks     *)
(* themselves need no variable.  Everything between two critical sections  *)
(* is a place where other goroutines, the login server and the clock move. *)
(* The channel made by a leader is named by that leader: a caller blocked  *)
(* on it has waitsFor[c] = leader, and closing it sets waitsFor[c] to Nil. *)
(***************************************************************************)
EXTENDS Integers, FiniteSets

CONSTANTS
    Callers,        \* goroutines that call Token, each at most once at a time
    Nil,            \* Go's nil
    ExpiresIn,      \* the expires_in values the login server answers with
    tokenTTL,       \* lifetime used when expires_in is absent or not positive
    refreshBuffer,  \* a token is renewed this long before it expires
    loginTimeout,   \* the HTTP client's timeout of one login attempt
    MaxTime,        \* bound: the clock stops here
    MaxIssued       \* bound: tokens the login server may mint

ASSUME NilAssumption == Nil \notin Callers
ASSUME ExpiresInAssumption == ExpiresIn \subseteq Int
ASSUME DurationAssumption ==
    /\ tokenTTL \in Nat \ {0}
    /\ refreshBuffer \in Nat
    /\ loginTimeout \in Nat
ASSUME BoundAssumption == MaxTime \in Nat /\ MaxIssued \in Nat
\* The default client times out after 30s, the buffer is 60s.
ASSUME TimeoutAssumption == loginTimeout <= refreshBuffer

VARIABLES
    now,         \* the clock, in ticks
    cached,      \* m.cached
    flightCh,    \* m.flightCh: Nil, or the leader whose channel it holds
    pc,          \* where each caller is in Token / refresh / fetchToken
    waitsFor,    \* the open channel each caller is blocked on, named by leader
    tok,         \* the token each caller has fetched or been given
    err,         \* the error each caller returned
    cancelled,   \* callers whose ctx is done
    issued,      \* how many tokens the login server has minted
    floor,       \* history: issued at the last Invalidate
    startFloor,  \* history: floor when the caller's current call began
    overlapped,  \* history: tokens on their way to a leader at an Invalidate
    landed,      \* history: token brought by the flight a caller waited on
    newest,      \* history: the newest token handed out
    since        \* history: newest when the caller's current call began

codeVars == <<cached, flightCh, pc, waitsFor, tok, err, cancelled>>
history == <<floor, startFloor, overlapped, landed, since>>
vars == <<now, codeVars, issued, history, newest>>

\* What the login server minted: the id orders tokens by the time of minting.
Token == [id : Nat \ {0}, issuedAt : Nat, ttl : Nat \ {0}]
CachedToken == [token : Token, expiresAt : Nat]

ASSUME NilTokenAssumption == Nil \notin Token /\ Nil \notin CachedToken

Places == {"done", "refresh", "wait", "reread", "login", "response",
           "clear", "close"}
Errors == {"none", "ctx", "login", "refresh failed"}

\* A leader holds the flight from the moment it publishes its channel until it
\* takes it back; its waiters are released a step later.
HoldsFlight(c) == pc[c] \in {"login", "response", "clear"}
Leading(c) == HoldsFlight(c) \/ pc[c] = "close"

\* The answer's expires_in taken as it comes (a mutant).
ttlUnchecked(expiresIn) == expiresIn
ttlOf(expiresIn) == IF expiresIn > 0 THEN expiresIn ELSE tokenTTL
DiesAt(t) == t.issuedAt + t.ttl

\* A cachedToken without the buffer (a mutant).
validWithoutBuffer(t) == t # Nil /\ now < t.expiresAt
valid(t) == t # Nil /\ now < t.expiresAt - refreshBuffer

Init ==
    /\ now = 0
    /\ cached = Nil
    /\ flightCh = Nil
    /\ pc = [c \in Callers |-> "done"]
    /\ waitsFor = [c \in Callers |-> Nil]
    /\ tok = [c \in Callers |-> Nil]
    /\ err = [c \in Callers |-> "none"]
    /\ cancelled = {}
    /\ issued = 0
    /\ floor = 0
    /\ startFloor = [c \in Callers |-> 0]
    /\ overlapped = {}
    /\ landed = [c \in Callers |-> 0]
    /\ newest = 0
    /\ since = [c \in Callers |-> 0]

Goto(c, place) == pc' = [pc EXCEPT ![c] = place]

\* t is given to the caller.
HandOut(t) == newest' = IF t # Nil /\ t.id > newest THEN t.id ELSE newest

Return(c, t, e) ==
    /\ Goto(c, "done")
    /\ tok' = [tok EXCEPT ![c] = t]
    /\ err' = [err EXCEPT ![c] = e]
    /\ cancelled' = cancelled \ {c}
    /\ HandOut(t)

\* A new call of Token, with a context of its own.
Begin(c) ==
    /\ pc[c] = "done"
    /\ startFloor' = [startFloor EXCEPT ![c] = floor]
    /\ landed' = [landed EXCEPT ![c] = 0]
    /\ since' = [since EXCEPT ![c] = newest]

-----------------------------------------------------------------------------
\* Token: the read-locked look at the cache.

TokenHit(c) ==
    /\ valid(cached)
    /\ Begin(c)
    /\ Return(c, cached.token, "none")
    /\ UNCHANGED <<now, cached, flightCh, waitsFor, issued, floor, overlapped>>

\* Token goes to refresh without looking at the cache (a mutant).
TokenMissAlways(c) ==
    /\ Begin(c)
    /\ Goto(c, "refresh")
    /\ tok' = [tok EXCEPT ![c] = Nil]
    /\ err' = [err EXCEPT ![c] = "none"]
    /\ UNCHANGED <<now, cached, flightCh, waitsFor, cancelled, issued, floor,
                   overlapped, newest>>

TokenMiss(c) ==
    /\ ~valid(cached)
    /\ Begin(c)
    /\ Goto(c, "refresh")
    /\ tok' = [tok EXCEPT ![c] = Nil]
    /\ err' = [err EXCEPT ![c] = "none"]
    /\ UNCHANGED <<now, cached, flightCh, waitsFor, cancelled, issued, floor,
                   overlapped, newest>>

-----------------------------------------------------------------------------
\* refresh: join the flight that is up, or lead a new one.

Join(c) ==
    /\ pc[c] = "refresh"
    /\ flightCh # Nil
    /\ waitsFor' = [waitsFor EXCEPT ![c] = flightCh]
    /\ Goto(c, "wait")
    /\ UNCHANGED <<now, cached, flightCh, tok, err, cancelled, issued, history,
                   newest>>

\* Lead without looking at flightCh (a mutant).
LeadAlways(c) ==
    /\ pc[c] = "refresh"
    /\ flightCh' = c
    /\ Goto(c, "login")
    /\ UNCHANGED <<now, cached, waitsFor, tok, err, cancelled, issued, history,
                   newest>>

\* The leader does not look at the cache again: it may have been filled since
\* this caller's miss, and the login is then made all the same.
Lead(c) ==
    /\ pc[c] = "refresh"
    /\ flightCh = Nil
    /\ flightCh' = c
    /\ Goto(c, "login")
    /\ UNCHANGED <<now, cached, waitsFor, tok, err, cancelled, issued, history,
                   newest>>

\* <-ch: the channel has been closed.
Wake(c) ==
    /\ pc[c] = "wait"
    /\ waitsFor[c] = Nil
    /\ Goto(c, "reread")
    /\ UNCHANGED <<now, cached, flightCh, waitsFor, tok, err, cancelled, issued,
                   history, newest>>

\* A bare receive instead of the select (a mutant).
AbandonNever(c) == FALSE /\ UNCHANGED vars

\* <-ctx.Done(): the select takes either branch when both are ready.
Abandon(c) ==
    /\ pc[c] = "wait"
    /\ c \in cancelled
    /\ waitsFor' = [waitsFor EXCEPT ![c] = Nil]
    /\ Return(c, Nil, "ctx")
    /\ UNCHANGED <<now, cached, flightCh, issued, history>>

Reread(c) ==
    /\ pc[c] = "reread"
    /\ IF valid(cached)
       THEN Return(c, cached.token, "none")
       ELSE Return(c, Nil, "refresh failed")
    /\ UNCHANGED <<now, cached, flightCh, waitsFor, issued, history>>

-----------------------------------------------------------------------------
\* fetchToken, run by the leader.

\* The login server (external) mints a token; its answer is on the way.
LoginIssued(c) ==
    /\ pc[c] = "login"
    /\ issued < MaxIssued
    /\ issued' = issued + 1
    /\ \E e \in ExpiresIn :
         tok' = [tok EXCEPT ![c] =
                   [id |-> issued + 1, issuedAt |-> now, ttl |-> ttlOf(e)]]
    /\ Goto(c, "response")
    /\ UNCHANGED <<now, cached, flightCh, waitsFor, err, cancelled, history,
                   newest>>

\* The answer is lost and the transport, which retries network errors, logs in
\* again: one login mints several tokens.
LoginRetried(c) ==
    /\ pc[c] = "response"
    /\ tok' = [tok EXCEPT ![c] = Nil]
    /\ Goto(c, "login")
    /\ UNCHANGED <<now, cached, flightCh, waitsFor, err, cancelled, issued,
                   history, newest>>

\* Any of fetchToken's error returns: transport error (the ctx of the leader is
\* done, attempts exhausted), a status other than 200, an undecodable answer.
LoginFails(c) ==
    /\ pc[c] \in {"login", "response"}
    /\ tok' = [tok EXCEPT ![c] = Nil]
    /\ err' = [err EXCEPT ![c] = "login"]
    /\ Goto(c, "clear")
    /\ UNCHANGED <<now, cached, flightCh, waitsFor, cancelled, issued, history,
                   newest>>

\* The leader returns its token and leaves the cache as it is (a mutant).
StoreNothing(c) ==
    /\ pc[c] = "response"
    /\ Goto(c, "clear")
    /\ UNCHANGED <<now, cached, flightCh, waitsFor, tok, err, cancelled, issued,
                   history, newest>>

\* The lifetime counts from the receipt of the token, not from its minting.
StoreToken(c) ==
    /\ pc[c] = "response"
    /\ cached' = [token |-> tok[c], expiresAt |-> now + tok[c].ttl]
    /\ Goto(c, "clear")
    /\ UNCHANGED <<now, flightCh, waitsFor, tok, err, cancelled, issued,
                   history, newest>>

-----------------------------------------------------------------------------
\* refresh, after fetchToken: take the channel back, then close it.

ClearFlight(c) ==
    /\ pc[c] = "clear"
    /\ flightCh' = Nil
    /\ Goto(c, "close")
    /\ UNCHANGED <<now, cached, waitsFor, tok, err, cancelled, issued, history,
                   newest>>

\* The channel is dropped without being closed (a mutant).
CloseNothing(c) ==
    /\ pc[c] = "close"
    /\ Goto(c, "done")
    /\ UNCHANGED <<now, cached, flightCh, waitsFor, tok, err, cancelled, issued,
                   history, newest>>

CloseFlight(c) ==
    /\ pc[c] = "close"
    /\ waitsFor' = [w \in Callers |->
                      IF waitsFor[w] = c THEN Nil ELSE waitsFor[w]]
    /\ landed' = [w \in Callers |->
                    IF waitsFor[w] = c /\ tok[c] # Nil
                    THEN tok[c].id ELSE landed[w]]
    /\ Goto(c, "done")
    /\ UNCHANGED <<now, cached, flightCh, tok, err, cancelled, issued, floor,
                   startFloor, overlapped, since>>
    /\ HandOut(tok[c])

-----------------------------------------------------------------------------
\* Invalidate that leaves the cache as it is (a mutant).
InvalidateNothing ==
    /\ floor' = issued
    /\ UNCHANGED <<now, codeVars, issued, startFloor, overlapped, landed, since,
                   newest>>

\* Invalidate clears the cache and nothing else: a login that is in flight is
\* neither stopped nor marked.
Invalidate ==
    /\ cached' = Nil
    /\ floor' = issued
    /\ overlapped' = overlapped \cup
                     {tok[c].id : c \in {d \in Callers : pc[d] = "response"}}
    /\ UNCHANGED <<now, flightCh, pc, waitsFor, tok, err, cancelled, issued,
                   startFloor, landed, since, newest>>

\* The context of a call is cancelled or reaches its deadline.  The code looks
\* at it in two places: in the select, here, and in the HTTP client, where
\* LoginFails covers it.  Earlier, a cancellation changes nothing.
Cancel(c) ==
    /\ pc[c] = "wait"
    /\ c \notin cancelled
    /\ cancelled' = cancelled \cup {c}
    /\ UNCHANGED <<now, cached, flightCh, pc, waitsFor, tok, err, issued,
                   history, newest>>

\* The HTTP client gives an attempt up at its timeout, so an answer that is
\* used was minted less than loginTimeout ago.
Tick ==
    /\ now < MaxTime
    /\ \A c \in Callers :
         pc[c] = "response" => now < tok[c].issuedAt + loginTimeout
    /\ now' = now + 1
    /\ UNCHANGED <<codeVars, issued, history, newest>>

-----------------------------------------------------------------------------
\* What a caller's own goroutine does once Token has been entered.
Run(c) ==
    \/ Join(c) \/ Lead(c) \/ Wake(c) \/ Abandon(c) \/ Reread(c)
    \/ StoreToken(c) \/ ClearFlight(c) \/ CloseFlight(c)

\* One attempt ends: an answer or a failure.
LoginEnds(c) == LoginIssued(c) \/ LoginFails(c)

Next ==
    \/ \E c \in Callers :
         \/ TokenHit(c) \/ TokenMiss(c) \/ Run(c)
         \/ LoginEnds(c) \/ LoginRetried(c) \/ Cancel(c)
    \/ Invalidate
    \/ Tick

Spec == Init /\ [][Next]_vars

\* A goroutine that can run does.  Nothing is assumed of Invalidate, Cancel, the
\* clock or the login server.
FairSpec == Spec /\ \A c \in Callers : WF_vars(Run(c))

\* A login attempt ends, with an answer or without: the HTTP client times out.
LoginsEnd == \A c \in Callers : WF_vars(LoginEnds(c))

-----------------------------------------------------------------------------
(***************************************************************************)
(* Properties                                                              *)
(***************************************************************************)

\* Every variable has its type; in particular a token's lifetime is positive
\* whatever expires_in the server answers (tokenmanager.go:167-170).
TypeOK ==
    /\ now \in Nat
    /\ cached \in CachedToken \cup {Nil}
    /\ flightCh \in Callers \cup {Nil}
    /\ pc \in [Callers -> Places]
    /\ waitsFor \in [Callers -> Callers \cup {Nil}]
    /\ tok \in [Callers -> Token \cup {Nil}]
    /\ err \in [Callers -> Errors]
    /\ cancelled \subseteq Callers
    /\ issued \in Nat
    /\ floor \in Nat
    /\ startFloor \in [Callers -> Nat]
    /\ overlapped \subseteq Nat
    /\ landed \in [Callers -> Nat]
    /\ newest \in Nat
    /\ since \in [Callers -> Nat]

\* The single flight: at most one caller is between publishing its channel and
\* taking it back, so no two logins run at once, although the miss and the look
\* at flightCh are separate critical sections.
SingleLogin ==
    \A c, d \in Callers : HoldsFlight(c) /\ HoldsFlight(d) => c = d

\* No lost wake-up: whoever is blocked on a channel is blocked on one that its
\* leader has still to close, although a new flight may already be up when the
\* old leader closes its channel.
NoLostWakeup ==
    \A c \in Callers : waitsFor[c] # Nil => Leading(waitsFor[c])

\* A token handed out from the cache is alive when it is handed out, although
\* expiresAt counts from the receipt of the answer and not from the minting:
\* the buffer makes up for the time the answer was under way.
CachedTokenIsAlive ==
    [][\A c \in Callers :
         (TokenHit(c) \/ Reread(c)) /\ tok'[c] # Nil => now < DiesAt(tok'[c])]_vars

\* A refresh never replaces a token of the cache by one minted earlier.
NewestWins ==
    [][cached # Nil /\ cached' # Nil => cached'.token.id >= cached.token.id]_vars

\* A waiter that is given a token is given the one its flight brought or one
\* minted later, never one that was in the cache before.
WaiterGetsFlightsTokenOrNewer ==
    \A c \in Callers :
        pc[c] = "done" /\ tok[c] # Nil /\ landed[c] # 0 => tok[c].id >= landed[c]

\* Nobody looks at the cache under flightMu, so a caller may log in although the
\* cache is valid again (tokenmanager.go:72, 86, 102); but then a flight landed
\* since its miss, with a token newer than all that were known at the miss.
NoNeedlessLogin ==
    \A c \in Callers :
        pc[c] = "refresh" /\ valid(cached) => cached.token.id > since[c]

\* A waiter that fails although its flight succeeded (tokenmanager.go:95-100) is
\* told so for one of two reasons only: Invalidate ran after the minting of the
\* flight's token, or that token, or a newer one, is within the buffer.
WaiterFailsForAReason ==
    \A c \in Callers :
        pc[c] = "reread" /\ landed[c] # 0 /\ ~valid(cached) =>
            \/ landed[c] <= floor
            \/ cached # Nil /\ cached.token.id >= landed[c]

\* A call that begins after Invalidate never returns a token that was in the
\* cache then: its token was minted later, or was on its way to a leader while
\* some Invalidate ran (the exception is the finding below).
InvalidateForcesLogin ==
    \A c \in Callers :
        pc[c] = "done" /\ tok[c] # Nil =>
            \/ tok[c].id > startFloor[c]
            \/ tok[c].id \in overlapped

\* A call of Token ends with a token or an error, tokens are minted only while
\* somebody asks, and they never go back: a call gets no token older than one
\* handed out before it began, however cache hits, waiters and leaders overlap.
Source == INSTANCE TokenSource WITH
    asking <- {c \in Callers : pc[c] # "done"},
    minted <- issued,
    got <- [c \in Callers |->
              IF pc[c] = "done" /\ tok[c] # Nil THEN tok[c].id ELSE 0]
ImplementsTokenSource == Source!TokenSpec

\* Every call of Token returns if login attempts end.
CallReturns ==
    LoginsEnd => \A c \in Callers : pc[c] # "done" ~> pc[c] = "done"

\* A waiter whose ctx is done is released even if its leader's login never ends.
CancelReleasesWaiter ==
    \A c \in Callers : pc[c] = "wait" /\ c \in cancelled ~> pc[c] # "wait"

-----------------------------------------------------------------------------
(***************************************************************************)
(* What the comments say and the code does not do                          *)
(***************************************************************************)

\* tokenmanager.go:65 "Token returns a valid access token, refreshing
\* transparently if needed": a waiter does not fail when its flight succeeded.
WaitersShareSuccess ==
    \A c \in Callers :
        pc[c] = "done" /\ err[c] = "refresh failed" => landed[c] = 0

\* tokenmanager.go:77 "Invalidate clears the cached token, forcing a fresh fetch
\* on next call": a call that begins after Invalidate returns a token minted
\* after it.
InvalidateForcesFreshFetch ==
    \A c \in Callers :
        pc[c] = "done" /\ tok[c] # Nil => tok[c].id > startFloor[c]

=============================================================================
