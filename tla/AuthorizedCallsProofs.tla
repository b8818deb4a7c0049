------------------------ MODULE AuthorizedCallsProofs ------------------------
(***************************************************************************)
(* Proofs about AuthorizedCalls.  Its steps are steps of TokenManager, so  *)
(* the invariants proved of that module hold of it too; what is added ties *)
(* the token in the header of a request to the one Token returned.         *)
(***************************************************************************)
EXTENDS AuthorizedCalls, TokenFreshnessProofs

\* A request goes out with the token of its call, and keeps it.
HeaderInv ==
    \A c \in Callers :
        /\ c \notin entered => pc[c] = "done" /\ tok[c] = Nil
        /\ header[c] # Nil => c \in entered /\ pc[c] = "done" /\ tok[c] = header[c]
        /\ phase[c] = "idle" <=> header[c] = Nil
        /\ c \in denied => header[c] # Nil

\* An id names one token, wherever it is.
Held == {t \in Token : \/ \E c \in Callers : tok[c] = t
                       \/ cached # Nil /\ cached.token = t}
SameInv == \A s, t \in Held : s.id = t.id => s = t

\* What a call gets from the cache or from a login outlives that moment by the
\* buffer, less the time a login answer may have been under way.
Outlives(c) == DiesAt(tok[c]) > obtainedAt[c] + refreshBuffer - loginTimeout
LifeInv ==
    \A c \in Callers :
        /\ pc[c] = "response" => tok[c].ttl > refreshBuffer
        /\ c \in entered /\ tok[c] # Nil /\ pc[c] \in {"clear", "close", "done"}
             => Outlives(c)

\* Tokens that were refused are dead or revoked, and the call holds none that
\* had been refused for its age.
RefusedInv ==
    \A c \in Callers :
        /\ c \in denied => header[c].id \in revoked \/ Dead(header[c])
        /\ startRefused[c] \subseteq Refused
        /\ tok[c] # Nil /\ tok[c].id \in startRefused[c] => tok[c].id \in revoked

-----------------------------------------------------------------------------
(***************************************************************************)
(* The steps of Token by what they do to the token of the caller.          *)
(***************************************************************************)
InCall(c) == Run(c) \/ LoginEnds(c) \/ LoginRetried(c) \/ Cancel(c)

\* Neither the token nor the cache changes.
Keeps(c) ==
    /\ tok'[c] = tok[c] /\ cached' = cached
    /\ pc[c] \notin {"done", "reread", "response"} /\ pc'[c] # "response"
    /\ pc'[c] \in {"clear", "close", "done"} => pc[c] \in {"clear", "close"}

Loses(c) == tok'[c] = Nil /\ cached' = cached /\ pc'[c] # "response"

\* The caller is given the token of the cache.
Takes(c) ==
    /\ pc[c] \in {"done", "reread"} /\ pc'[c] = "done"
    /\ valid(cached) /\ cached' = cached
    /\ tok'[c] = cached.token

\* A leader is sent a new token.
Receives(c) ==
    /\ pc'[c] = "response" /\ cached' = cached
    /\ tok'[c] \in Token /\ tok'[c].id = issued + 1
    /\ tok'[c].ttl > refreshBuffer

\* A leader puts its token into the cache.
Caches(c) ==
    /\ pc[c] = "response" /\ pc'[c] = "clear"
    /\ tok'[c] = tok[c] /\ cached'.token = tok[c]

Alone(c) ==
    /\ now' = now
    /\ \A d \in Callers \ {c} : pc'[d] = pc[d] /\ tok'[d] = tok[d]

\* Each step of Token does one of these to its caller, and nothing to another
\* (tokenmanager.go:66-180).
LEMMA TokenStep ==
    ASSUME TypeInv, NEW c \in Callers, TokenHit(c) \/ TokenMiss(c) \/ InCall(c)
    PROVE  /\ Alone(c)
           /\ Keeps(c) \/ Loses(c) \/ Takes(c) \/ Receives(c) \/ Caches(c)
<1> pc \in [Callers -> Places] /\ tok \in [Callers -> Token \cup {Nil}]
  BY Zenon DEF TypeInv, TypeOK
<1>1. CASE TokenHit(c)
  BY <1>1 DEF TokenHit, Begin, Return, Goto, Alone, Takes
<1>2. CASE TokenMiss(c)
  BY <1>2 DEF TokenMiss, Begin, Goto, Alone, Loses
<1>3. CASE Join(c)
  BY <1>3 DEF Join, Goto, Alone, Keeps
<1>4. CASE Lead(c)
  BY <1>4 DEF Lead, Goto, Alone, Keeps
<1>5. CASE Wake(c)
  BY <1>5 DEF Wake, Goto, Alone, Keeps
<1>6. CASE Abandon(c)
  BY <1>6 DEF Abandon, Return, Goto, Alone, Loses
<1>7. CASE Reread(c)
  BY <1>7 DEF Reread, Return, Goto, Alone, Takes, Loses
<1>8. CASE LoginIssued(c)
  <2>1. PICK e \in ExpiresIn :
          tok' = [tok EXCEPT ![c] =
                    [id |-> issued + 1, issuedAt |-> now, ttl |-> ttlOf(e)]]
    BY <1>8 DEF LoginIssued
  <2>2. tok'[c] = [id |-> issued + 1, issuedAt |-> now, ttl |-> ttlOf(e)]
    BY <2>1
  <2>3. tok'[c] \in Token
    BY <2>2, MintedIsToken DEF TypeInv, TypeOK
  <2>4. ttlOf(e) > refreshBuffer
    BY LifetimeAssumption
  <2>5. /\ tok'[c].id = issued + 1 /\ tok'[c].ttl > refreshBuffer
        /\ \A d \in Callers \ {c} : tok'[d] = tok[d]
    BY <2>1, <2>2, <2>4
  <2>6. Goto(c, "response") /\ UNCHANGED <<now, cached>>
    BY <1>8, Zenon DEF LoginIssued
  <2>7. pc'[c] = "response" /\ \A d \in Callers \ {c} : pc'[d] = pc[d]
    BY <2>6 DEF Goto
  <2> QED
    BY <2>3, <2>5, <2>6, <2>7 DEF Alone, Receives
<1>9. CASE LoginFails(c)
  BY <1>9 DEF LoginFails, Goto, Alone, Loses
<1>10. CASE LoginRetried(c)
  BY <1>10 DEF LoginRetried, Goto, Alone, Loses
<1>11. CASE StoreToken(c)
  BY <1>11 DEF StoreToken, Goto, Alone, Caches
<1>12. CASE ClearFlight(c)
  BY <1>12 DEF ClearFlight, Goto, Alone, Keeps
<1>13. CASE CloseFlight(c)
  BY <1>13 DEF CloseFlight, Goto, Alone, Keeps
<1>14. CASE Cancel(c)
  BY <1>14 DEF Cancel, Alone, Keeps
<1> QED
  BY <1>1, <1>2, <1>3, <1>4, <1>5, <1>6, <1>7, <1>8, <1>9, <1>10, <1>11, <1>12,
     <1>13, <1>14 DEF InCall, Run, LoginEnds

-----------------------------------------------------------------------------
(***************************************************************************)
(* AuthorizedCalls composes TokenManager and Exchange.                     *)
(***************************************************************************)

\* The calls of operations use the token manager as it is.
THEOREM TokensKept == AuthSpec => Spec
<1>1. AuthInit => Init
  BY Zenon DEF AuthInit
<1>2. [AuthNext]_authVars => [Next]_vars
  <2>1. ASSUME NEW c \in Callers, CallToken(c) PROVE Next
    BY <2>1, Zenon DEF CallToken, Next
  <2>2. ASSUME NEW c \in Callers, InToken(c) PROVE Next
    BY <2>2, Zenon DEF InToken, Next
  <2>3. ASSUME TimePasses PROVE Next
    BY <2>3, Zenon DEF TimePasses, Next
  <2>4. ASSUME NEW c \in Callers,
               Build(c) \/ Attempt(c) \/ Accept(c) \/ Deny(c) \/ Finish(c)
        PROVE  UNCHANGED vars
    BY <2>4, Zenon DEF Build, Attempt, Accept, Deny, Finish
  <2>5. ASSUME Revoke \/ AllEnded \/ UNCHANGED authVars PROVE UNCHANGED vars
    BY <2>5 DEF Revoke, AllEnded, authVars
  <2> QED
    BY <2>1, <2>2, <2>3, <2>4, <2>5, Zenon DEF AuthNext
<1> QED
  BY <1>1, <1>2, PTL DEF AuthSpec, Spec

\* Each call's request is exchanged as the transport promises.
THEOREM ExchangeKept == AuthSpec => ExchangeSpec
<1>1. AuthInit => ExchangeInit
  BY Zenon DEF AuthInit
<1>2. [AuthNext]_authVars => [ExchangeNext]_exchangeVars
  <2>1. ASSUME NEW c \in Callers,
               Build(c) \/ Attempt(c) \/ Accept(c) \/ Deny(c) \/ Finish(c)
        PROVE  ExchangeNext
    BY <2>1, SameCallsAssumption, Zenon
       DEF Build, Attempt, Accept, Deny, Finish, ExchangeNext
  <2>2. ASSUME NEW c \in Callers, CallToken(c) \/ InToken(c)
        PROVE  UNCHANGED exchangeVars
    BY <2>2, Zenon DEF CallToken, InToken, exchangeVars
  <2>3. ASSUME Revoke \/ TimePasses \/ AllEnded \/ UNCHANGED authVars
        PROVE  UNCHANGED exchangeVars
    BY <2>3 DEF Revoke, TimePasses, AllEnded, authVars, exchangeVars
  <2> QED
    BY <2>1, <2>2, <2>3, Zenon DEF AuthNext
<1> QED
  BY <1>1, <1>2, PTL DEF AuthSpec, ExchangeSpec

-----------------------------------------------------------------------------
(***************************************************************************)
(* The header of a request.                                                *)
(***************************************************************************)
AuthInv == AuthTypeOK /\ HeaderInv /\ maxAttempts \in Nat \ {0}

\* A call that has its token is through with Token.
LEMMA HeaderIsKept ==
    ASSUME TypeInv, HeaderInv, NEW c \in Callers,
           (CallToken(c) /\ Alone(c)) \/ (InToken(c) /\ Alone(c) /\ pc[c] # "done")
    PROVE  HeaderInv'
<1> pc \in [Callers -> Places] /\ tok \in [Callers -> Token \cup {Nil}]
  BY Zenon DEF TypeInv, TypeOK
<1>1. header[c] = Nil /\ phase[c] = "idle"
  BY DEF HeaderInv, CallToken, InToken
<1>2. UNCHANGED <<header, denied, phase>>
  BY Zenon DEF CallToken, InToken, exchangeVars
<1>3. c \in entered' /\ entered \subseteq entered' /\ entered' \subseteq entered \cup {c}
  BY DEF HeaderInv, CallToken, InToken
<1> QED
  BY <1>1, <1>2, <1>3 DEF HeaderInv, Alone

\* The types, and what ties the token in a header to the call of Token
\* (upi/client.go:1110-1136).
THEOREM AuthInvCorrect == AuthSpec => []AuthInv
<1>1. AuthInit => AuthInv
  <2> SUFFICES ASSUME AuthInit PROVE AuthInv
    OBVIOUS
  <2>1. maxAttempts \in Nat \ {0} /\ sends = [c \in Callers |-> 0]
        /\ phase = [c \in Callers |-> "idle"]
    BY SameCallsAssumption DEF AuthInit, ExchangeInit
  <2>2. sends \in [Callers -> 0..maxAttempts]
    BY <2>1
  <2> QED
    BY <2>1, <2>2 DEF AuthInit, Init, AuthInv, AuthTypeOK, HeaderInv
<1>2. TypeInv /\ TypeInv' /\ AuthInv /\ [AuthNext]_authVars => AuthInv'
  <2> SUFFICES ASSUME TypeInv, TypeInv', AuthInv, [AuthNext]_authVars PROVE AuthInv'
    OBVIOUS
  <2> tok \in [Callers -> Token \cup {Nil}] /\ now \in Nat
    BY Zenon DEF TypeInv, TypeOK
  <2>r. Refused \in SUBSET Nat
    BY DEF Refused, AuthInv, AuthTypeOK, HeaderInv, Token
  <2>1. ASSUME NEW c \in Callers, CallToken(c) PROVE AuthInv'
    <3>1. Alone(c)
      BY <2>1, TokenStep, Zenon DEF CallToken
    <3>2. HeaderInv'
      BY <2>1, <3>1, HeaderIsKept, Zenon DEF AuthInv
    <3>3. UNCHANGED <<maxAttempts, phase, sends, header, denied, revoked>>
      BY <2>1, Zenon DEF CallToken, exchangeVars
    <3>4. entered' \subseteq Callers /\ obtainedAt' \in [Callers -> Nat]
          /\ startRefused' \in [Callers -> SUBSET Nat]
      BY <2>1, <2>r DEF CallToken, AuthInv, AuthTypeOK
    <3> QED
      BY <3>2, <3>3, <3>4 DEF AuthInv, AuthTypeOK
  <2>2. ASSUME NEW c \in Callers, InToken(c) PROVE AuthInv'
    <3>1. Alone(c)
      BY <2>2, TokenStep, Zenon DEF InToken, InCall
    <3>2. pc[c] # "done"
      BY <2>2 DEF InToken, Run, LoginEnds, LoginRetried, Cancel, Join, Lead, Wake,
                  Abandon, Reread, StoreToken, ClearFlight, CloseFlight,
                  LoginIssued, LoginFails
    <3>3. HeaderInv'
      BY <2>2, <3>1, <3>2, HeaderIsKept, Zenon DEF AuthInv
    <3>4. UNCHANGED <<maxAttempts, phase, sends, entered, header, denied,
                      startRefused, revoked>>
      BY <2>2, Zenon DEF InToken, exchangeVars
    <3>5. obtainedAt' \in [Callers -> Nat]
      BY <2>2 DEF InToken, AuthInv, AuthTypeOK
    <3> QED
      BY <3>3, <3>4, <3>5 DEF AuthInv, AuthTypeOK
  <2>3. ASSUME NEW c \in Callers, Build(c) PROVE AuthInv'
    <3>1. header' = [header EXCEPT ![c] = tok[c]]
          /\ phase' = [phase EXCEPT ![c] = "busy"]
          /\ UNCHANGED <<maxAttempts, sends, pc, tok, entered, denied, obtainedAt,
                         startRefused, revoked>>
      BY <2>3 DEF Build, Open, vars, codeVars
    <3>2. c \in entered /\ pc[c] = "done" /\ tok[c] # Nil
      BY <2>3 DEF Build
    <3> QED
      BY <3>1, <3>2 DEF AuthInv, AuthTypeOK, HeaderInv
  <2>4. ASSUME NEW c \in Callers, Attempt(c) PROVE AuthInv'
    <3>1. UNCHANGED <<maxAttempts, phase, pc, tok, entered, header, denied,
                      obtainedAt, startRefused, revoked>>
      BY <2>4 DEF Attempt, Post, vars, codeVars, requestVars
    <3>2. sends' = [sends EXCEPT ![c] = @ + 1] /\ sends[c] < maxAttempts
      BY <2>4 DEF Attempt, Post
    <3>3. sends' \in [Callers -> 0..maxAttempts]
      <4>1. sends[c] + 1 \in 0..maxAttempts
        BY <3>2 DEF AuthInv, AuthTypeOK
      <4> QED
        BY <3>2, <4>1 DEF AuthInv, AuthTypeOK
    <3> QED
      BY <3>1, <3>3 DEF AuthInv, AuthTypeOK, HeaderInv
  <2>5. ASSUME NEW c \in Callers, Accept(c) PROVE AuthInv'
    BY <2>5 DEF Accept, Settle, vars, codeVars, requestVars, AuthInv, AuthTypeOK,
                HeaderInv
  <2>6. ASSUME NEW c \in Callers, Deny(c) PROVE AuthInv'
    <3>1. header[c] # Nil
      BY <2>6 DEF Deny, Settle, AuthInv, HeaderInv
    <3>2. denied' = denied \cup {c}
          /\ UNCHANGED <<maxAttempts, phase, sends, pc, tok, entered, header,
                         obtainedAt, startRefused, revoked>>
      BY <2>6 DEF Deny, Settle, vars, codeVars
    <3> QED
      BY <3>1, <3>2 DEF AuthInv, AuthTypeOK, HeaderInv
  <2>7. ASSUME NEW c \in Callers, Finish(c) PROVE AuthInv'
    <3>1. phase[c] = "busy" /\ phase' = [phase EXCEPT ![c] = "done"]
          /\ UNCHANGED <<maxAttempts, sends, pc, tok, entered, header, denied,
                         obtainedAt, startRefused, revoked>>
      BY <2>7 DEF Finish, Close, vars, codeVars, requestVars
    <3> QED
      BY <3>1 DEF AuthInv, AuthTypeOK, HeaderInv
  <2>8. ASSUME Revoke PROVE AuthInv'
    <3>1. issued \in Nat
      BY Zenon DEF TypeInv, TypeOK
    <3>2. revoked' \subseteq Nat
      BY <2>8, <3>1 DEF Revoke, AuthInv, AuthTypeOK
    <3>3. UNCHANGED <<maxAttempts, phase, sends, pc, tok, entered, header, denied,
                      obtainedAt, startRefused>>
      BY <2>8 DEF Revoke, vars, codeVars, exchangeVars, requestVars
    <3> QED
      BY <3>2, <3>3 DEF AuthInv, AuthTypeOK, HeaderInv
  <2>9. CASE TimePasses \/ AllEnded \/ UNCHANGED authVars
    <3>1. UNCHANGED <<maxAttempts, phase, sends, pc, tok, entered, header, denied,
                      obtainedAt, startRefused, revoked>>
      BY <2>9 DEF TimePasses, Tick, AllEnded, authVars, vars, codeVars,
                  exchangeVars, requestVars
    <3> QED
      BY <3>1 DEF AuthInv, AuthTypeOK, HeaderInv
  <2> QED
    BY <2>1, <2>2, <2>3, <2>4, <2>5, <2>6, <2>7, <2>8, <2>9, Zenon DEF AuthNext
<1> QED
  BY <1>1, <1>2, TokensKept, TypeInvCorrect, PTL DEF AuthSpec

\* Requests are posted at most maxAttempts times, with a token each.
THEOREM AuthTypeCorrect == AuthSpec => []AuthTypeOK
<1>1. AuthInv => AuthTypeOK
  BY DEF AuthInv
<1> QED
  BY <1>1, AuthInvCorrect, PTL

-----------------------------------------------------------------------------
(***************************************************************************)
(* The age of the token in a header.                                       *)
(***************************************************************************)

\* The other steps of a call leave Token alone.
LEMMA RequestStep ==
    ASSUME NEW c \in Callers,
           Build(c) \/ Attempt(c) \/ Accept(c) \/ Deny(c) \/ Finish(c)
    PROVE  UNCHANGED <<now, cached, pc, tok, issued, entered, obtainedAt,
                       startRefused, revoked>>
<1>1. UNCHANGED <<vars, entered, obtainedAt, startRefused, revoked>>
  BY Zenon DEF Build, Attempt, Accept, Deny, Finish, requestVars
<1> QED
  BY <1>1 DEF vars, codeVars

\* What is taken from the cache is as good as the buffer promises
\* (tokenmanager.go:44-46).
LEMMA CacheOutlives ==
    ASSUME TypeInv, TimeInv, valid(cached)
    PROVE  /\ DiesAt(cached.token) > now + refreshBuffer - loginTimeout
           /\ DiesAt(cached.token) > now
<1>1. cached \in CachedToken /\ now < cached.expiresAt - refreshBuffer
      /\ cached.expiresAt <= cached.token.issuedAt + cached.token.ttl + loginTimeout
  BY DEF valid, TypeInv, TypeOK, TimeInv, DiesAt
<1>2. cached.token.issuedAt \in Nat /\ cached.token.ttl \in Nat
      /\ cached.expiresAt \in Nat
  BY <1>1 DEF CachedToken, Token
<1>3. now \in Nat /\ loginTimeout \in Nat /\ refreshBuffer \in Nat
      /\ loginTimeout <= refreshBuffer
  BY DurationAssumption, TimeoutAssumption DEF TypeInv, TypeOK
<1> QED
  BY <1>1, <1>2, <1>3 DEF DiesAt

\* So is what a login has brought, when it is stored (tokenmanager.go:167-179).
LEMMA AnswerOutlives ==
    ASSUME TypeInv, TimeInv, NEW c \in Callers, pc[c] = "response",
           tok[c].ttl > refreshBuffer
    PROVE  DiesAt(tok[c]) > now + refreshBuffer - loginTimeout
<1>1. tok[c] \in Token /\ now <= tok[c].issuedAt + loginTimeout
  BY DEF TypeInv, TimeInv
<1>2. tok[c].issuedAt \in Nat /\ tok[c].ttl \in Nat
  BY <1>1 DEF Token
<1>3. now \in Nat /\ loginTimeout \in Nat /\ refreshBuffer \in Nat
  BY DurationAssumption DEF TypeInv, TypeOK
<1> QED
  BY <1>1, <1>2, <1>3 DEF DiesAt

\* A step of Token leaves its caller with a token that is as good as promised.
LEMMA StepKeepsLife ==
    ASSUME TypeInv, TimeInv, LifeInv, AuthInv, NEW c \in Callers, Alone(c),
           obtainedAt' = [obtainedAt EXCEPT ![c] =
               IF pc[c] \in {"done", "reread", "response"} THEN now ELSE @],
           entered \subseteq entered', entered' \subseteq entered \cup {c},
           pc[c] # "done" => c \in entered,
           Keeps(c) \/ Loses(c) \/ Takes(c) \/ Receives(c) \/ Caches(c)
    PROVE  LifeInv'
<1> obtainedAt \in [Callers -> Nat]
  BY DEF AuthInv, AuthTypeOK
<1>1. \A d \in Callers \ {c} :
        pc'[d] = pc[d] /\ tok'[d] = tok[d] /\ obtainedAt'[d] = obtainedAt[d]
        /\ (d \in entered' <=> d \in entered)
  BY DEF Alone
<1>2. CASE Keeps(c)
  <2>1. obtainedAt'[c] = obtainedAt[c] /\ c \in entered
    BY <1>2 DEF Keeps
  <2> QED
    BY <1>1, <1>2, <2>1 DEF Keeps, LifeInv, Outlives, DiesAt
<1>3. CASE Loses(c)
  BY <1>1, <1>3 DEF Loses, LifeInv, Outlives, DiesAt
<1>4. CASE Takes(c)
  <2>1. obtainedAt'[c] = now /\ DiesAt(tok'[c]) > now + refreshBuffer - loginTimeout
    BY <1>4, CacheOutlives DEF Takes
  <2> QED
    BY <1>1, <1>4, <2>1 DEF Takes, LifeInv, Outlives, DiesAt
<1>5. CASE Receives(c)
  BY <1>1, <1>5 DEF Receives, LifeInv, Outlives, DiesAt
<1>6. CASE Caches(c)
  <2>1. tok[c].ttl > refreshBuffer
    BY <1>6 DEF Caches, LifeInv
  <2>2. obtainedAt'[c] = now /\ DiesAt(tok'[c]) > now + refreshBuffer - loginTimeout
    BY <1>6, <2>1, AnswerOutlives DEF Caches
  <2> QED
    BY <1>1, <1>6, <2>2 DEF Caches, LifeInv, Outlives, DiesAt
<1> QED
  BY <1>2, <1>3, <1>4, <1>5, <1>6

\* A call of Token that is under way was entered.
LEMMA InCallIsEntered ==
    ASSUME HeaderInv, NEW c \in Callers, InToken(c)
    PROVE  c \in entered /\ pc[c] # "done"
<1>1. pc[c] # "done"
  BY DEF InToken, Run, LoginEnds, LoginRetried, Cancel, Join, Lead, Wake, Abandon,
         Reread, StoreToken, ClearFlight, CloseFlight, LoginIssued, LoginFails
<1> QED
  BY <1>1 DEF HeaderInv

\* The token a call goes on with is good for the buffer less the login timeout.
THEOREM LifeCorrect == AuthSpec => []LifeInv
<1>1. AuthInit => LifeInv
  BY DEF AuthInit, Init, LifeInv
<1>2. TypeInv /\ TimeInv /\ AuthInv /\ LifeInv /\ [AuthNext]_authVars => LifeInv'
  <2> SUFFICES ASSUME TypeInv, TimeInv, AuthInv, LifeInv, [AuthNext]_authVars
               PROVE  LifeInv'
    OBVIOUS
  <2> obtainedAt \in [Callers -> Nat]
    BY DEF AuthInv, AuthTypeOK
  <2>1. ASSUME NEW c \in Callers, CallToken(c) PROVE LifeInv'
    <3>1. Alone(c) /\ (Keeps(c) \/ Loses(c) \/ Takes(c) \/ Receives(c) \/ Caches(c))
      BY <2>1, TokenStep, Zenon DEF CallToken
    <3>2. pc[c] = "done" /\ entered' = entered \cup {c}
          /\ obtainedAt' = [obtainedAt EXCEPT ![c] = now]
      BY <2>1 DEF CallToken, TokenHit, TokenMiss, Begin
    <3> QED
      BY <3>1, <3>2, StepKeepsLife
  <2>2. ASSUME NEW c \in Callers, InToken(c) PROVE LifeInv'
    <3>1. Alone(c) /\ (Keeps(c) \/ Loses(c) \/ Takes(c) \/ Receives(c) \/ Caches(c))
      BY <2>2, TokenStep, Zenon DEF InToken, InCall
    <3>2. c \in entered /\ pc[c] # "done"
      BY <2>2, InCallIsEntered, Zenon DEF AuthInv
    <3>3. entered' = entered
          /\ obtainedAt' = [obtainedAt EXCEPT ![c] =
                              IF pc[c] \in {"reread", "response"} THEN now ELSE @]
      BY <2>2, Zenon DEF InToken
    <3> QED
      BY <3>1, <3>2, <3>3, StepKeepsLife
  <2>3. ASSUME NEW c \in Callers,
               Build(c) \/ Attempt(c) \/ Accept(c) \/ Deny(c) \/ Finish(c)
        PROVE  LifeInv'
    BY <2>3, RequestStep DEF LifeInv, Outlives, DiesAt
  <2>4. CASE Revoke \/ TimePasses \/ AllEnded \/ UNCHANGED authVars
    <3>1. UNCHANGED <<pc, tok, entered, obtainedAt>>
      BY <2>4 DEF Revoke, TimePasses, Tick, AllEnded, authVars, vars, codeVars,
                  requestVars
    <3> QED
      BY <3>1 DEF LifeInv, Outlives, DiesAt
  <2> QED
    BY <2>1, <2>2, <2>3, <2>4, Zenon DEF AuthNext
<1> QED
  BY <1>1, <1>2, TokensKept, TypeInvCorrect, TimeCorrect, AuthInvCorrect, PTL
     DEF AuthSpec

\* A token that was not revoked is refused only after its call has used it for
\* longer than the buffer less the login timeout, for any lifetimes, timeouts
\* and attempts (tokenmanager.go:44-46, 172-179; upi/client.go:1119).
THEOREM FreshAttemptCorrect == AuthSpec => FreshAttemptIsAuthorised
<1>1. TypeInv /\ AuthInv /\ LifeInv /\ [AuthNext]_authVars
      => [\A c \in denied' \ denied :
            header[c].id \notin revoked =>
                now > obtainedAt[c] + refreshBuffer - loginTimeout]_authVars
  <2> SUFFICES ASSUME TypeInv, AuthInv, LifeInv, AuthNext,
                      NEW c \in denied' \ denied, header[c].id \notin revoked
               PROVE  now > obtainedAt[c] + refreshBuffer - loginTimeout
    OBVIOUS
  <2>1. c \in Callers /\ Deny(c)
    <3>1. ASSUME NEW d \in Callers,
                 CallToken(d) \/ InToken(d) \/ Build(d) \/ Attempt(d) \/ Accept(d)
                 \/ Finish(d)
          PROVE  denied' = denied
      BY <3>1, Zenon DEF CallToken, InToken, Build, Attempt, Accept, Finish,
                         requestVars
    <3>2. ASSUME Revoke \/ TimePasses \/ AllEnded PROVE denied' = denied
      BY <3>2, Zenon DEF Revoke, TimePasses, AllEnded, requestVars, authVars
    <3>3. PICK d \in Callers : Deny(d)
      BY <3>1, <3>2 DEF AuthNext
    <3>4. c = d
      BY <3>3 DEF Deny
    <3> QED
      BY <3>3, <3>4
  <2>2. header[c] # Nil /\ Dead(header[c])
    BY <2>1 DEF Deny, Settle, AuthInv, HeaderInv
  <2>3. tok[c] = header[c] /\ Outlives(c)
    BY <2>1, <2>2 DEF AuthInv, HeaderInv, LifeInv
  <2>4. now >= DiesAt(tok[c])
        /\ DiesAt(tok[c]) > obtainedAt[c] + refreshBuffer - loginTimeout
    BY <2>2, <2>3 DEF Dead, Outlives
  <2>5. now \in Nat /\ obtainedAt[c] \in Nat /\ refreshBuffer \in Nat
        /\ loginTimeout \in Nat
    BY <2>1, DurationAssumption DEF TypeInv, TypeOK, AuthInv, AuthTypeOK
  <2>6. DiesAt(tok[c]) \in Nat
    <3>1. tok[c] \in Token
      BY <2>1, <2>2, <2>3 DEF AuthInv, AuthTypeOK
    <3> QED
      BY <3>1 DEF DiesAt, Token
  <2> QED
    BY <2>4, <2>5, <2>6
<1> QED
  BY <1>1, TokensKept, TypeInvCorrect, AuthInvCorrect, LifeCorrect, PTL
     DEF AuthSpec, FreshAttemptIsAuthorised

-----------------------------------------------------------------------------
(***************************************************************************)
(* Tokens that were refused.                                               *)
(***************************************************************************)

\* Nothing is held that was not minted.
LEMMA HeldIsMinted ==
    ASSUME TypeInv, IdInv, NEW t \in Held
    PROVE  t.id \in Nat /\ t.id <= issued /\ issued \in Nat
<1>1. TypeOK /\ t \in Token /\ t # Nil
  BY NilTokenAssumption DEF Held, TypeInv
<1>2. CASE \E c \in Callers : tok[c] = t
  <2>1. PICK c \in Callers : tok[c] = t
    BY <1>2
  <2>2. TokId[c] = t.id
    BY <1>1, <2>1 DEF TokId, IdOf
  <2> QED
    BY <1>1, <2>1, <2>2 DEF IdInv, OrderInv, Token, TypeOK
<1>3. CASE cached # Nil /\ cached.token = t
  BY <1>1, <1>3 DEF CachedId, IdInv, OrderInv, Token, TypeOK
<1> QED
  BY <1>2, <1>3 DEF Held

\* A step brings at most one token that was not there, with the next id.
LEMMA HeldGrows ==
    ASSUME TypeInv, TypeInv', [Next]_vars
    PROVE  \/ Held' \subseteq Held
           \/ \E n \in Token : n.id = issued + 1 /\ Held' \subseteq Held \cup {n}
<1> TypeOK /\ TypeOK'
  BY Zenon DEF TypeInv
<1>1. ASSUME NEW c \in Callers, TokenHit(c) \/ TokenMiss(c) \/ InCall(c)
      PROVE  \/ Held' \subseteq Held
             \/ \E n \in Token : n.id = issued + 1 /\ Held' \subseteq Held \cup {n}
  <2>1. \A d \in Callers \ {c} : tok'[d] = tok[d]
    BY <1>1, TokenStep DEF Alone
  <2>2. Keeps(c) \/ Loses(c) \/ Takes(c) \/ Receives(c) \/ Caches(c)
    BY <1>1, TokenStep, Zenon
  <2>3. CASE Keeps(c)
    BY <2>1, <2>3 DEF Keeps, Held
  <2>4. CASE Loses(c)
    BY <2>1, <2>4, NilTokenAssumption DEF Loses, Held
  <2>5. CASE Takes(c)
    BY <2>1, <2>5 DEF Takes, valid, Held
  <2>6. CASE Receives(c)
    <3>1. Held' \subseteq Held \cup {tok'[c]}
      BY <2>1, <2>6 DEF Receives, Held
    <3> QED
      BY <2>6, <3>1 DEF Receives
  <2>7. CASE Caches(c)
    BY <2>1, <2>7 DEF Caches, Held
  <2> QED
    BY <2>2, <2>3, <2>4, <2>5, <2>6, <2>7
<1>2. ASSUME Invalidate \/ Tick \/ UNCHANGED vars PROVE Held' \subseteq Held
  <2>1. UNCHANGED tok /\ (cached' = Nil \/ cached' = cached)
    BY <1>2 DEF Invalidate, Tick, vars, codeVars
  <2> QED
    BY <2>1 DEF Held
<1> QED
  BY <1>1, <1>2, Zenon DEF Next, InCall

\* An id names one token (tokenmanager.go:127-180 copies what the server sent).
THEOREM SameCorrect == Spec => []SameInv
<1>1. Init => SameInv
  BY NilTokenAssumption DEF Init, SameInv, Held
<1>2. TypeInv /\ TypeInv' /\ IdInv /\ SameInv /\ [Next]_vars => SameInv'
  <2> SUFFICES ASSUME TypeInv, TypeInv', IdInv, SameInv, [Next]_vars PROVE SameInv'
    OBVIOUS
  <2>1. CASE Held' \subseteq Held
    BY <2>1 DEF SameInv
  <2>2. ASSUME NEW n \in Token, n.id = issued + 1, Held' \subseteq Held \cup {n}
        PROVE  SameInv'
    <3>1. \A t \in Held : t.id # n.id
      BY <2>2, HeldIsMinted
    <3> QED
      BY <2>2, <3>1 DEF SameInv
  <2> QED
    BY <2>1, <2>2, HeldGrows
<1> QED
  BY <1>1, <1>2, TypeInvCorrect, IdsCorrect, PTL DEF Spec

\* A refused token was minted, and is with the call it was refused to.
LEMMA RefusedIsHeld ==
    ASSUME AuthInv, NEW id \in Refused
    PROVE  \E t \in Held : t.id = id /\ (RefusedInv => id \in revoked \/ Dead(t))
<1>1. PICK d \in denied : id = header[d].id
  BY DEF Refused
<1>2. d \in Callers /\ header[d] # Nil /\ tok[d] = header[d]
  BY <1>1 DEF AuthInv, AuthTypeOK, HeaderInv
<1>3. header[d] \in Token
  BY <1>2 DEF AuthInv, AuthTypeOK
<1>4. header[d] \in Held
  BY <1>2, <1>3 DEF Held
<1> QED
  BY <1>1, <1>2, <1>4 DEF RefusedInv

\* The cache hands out no token that was refused for its age.
LEMMA CacheIsNotRefused ==
    ASSUME TypeInv, TimeInv, AuthInv, SameInv, RefusedInv, valid(cached),
           cached.token.id \in Refused
    PROVE  cached.token.id \in revoked
<1>1. cached.token \in Token /\ cached.token \in Held
  BY DEF valid, TypeInv, TypeOK, CachedToken, Held
<1>2. PICK t \in Held : t.id = cached.token.id /\ (t.id \in revoked \/ Dead(t))
  BY RefusedIsHeld
<1>3. t = cached.token
  BY <1>1, <1>2 DEF SameInv
<1>4. ~Dead(cached.token)
  <2>1. DiesAt(cached.token) > now
    BY CacheOutlives
  <2>2. now \in Nat /\ DiesAt(cached.token) \in Nat
    BY <1>1 DEF TypeInv, TypeOK, DiesAt, Token
  <2> QED
    BY <2>1, <2>2 DEF Dead
<1> QED
  BY <1>2, <1>3, <1>4

\* A call that begins looks at what has been refused; it has no token yet.
Starts(c) ==
    \/ UNCHANGED startRefused
    \/ /\ startRefused' = [startRefused EXCEPT ![c] = Refused]
       /\ ~Keeps(c) /\ ~Caches(c)

\* No step of Token gives its caller a token refused for its age.
LEMMA StepKeepsRefused ==
    ASSUME TypeInv, TimeInv, IdInv, AuthInv, SameInv, RefusedInv,
           NEW c \in Callers, Alone(c),
           UNCHANGED <<header, denied, revoked>>,
           Starts(c),
           Keeps(c) \/ Loses(c) \/ Takes(c) \/ Receives(c) \/ Caches(c)
    PROVE  RefusedInv'
<1> startRefused \in [Callers -> SUBSET Nat]
  BY DEF AuthInv, AuthTypeOK
<1>1. Refused' = Refused /\ \A t : Dead(t)' <=> Dead(t)
  BY DEF Refused, Dead, DiesAt, Alone
<1>2. \A d \in Callers : startRefused'[d] \subseteq Refused
  BY DEF RefusedInv, Starts
<1>3. \A d \in Callers \ {c} : tok'[d] = tok[d] /\ startRefused'[d] = startRefused[d]
  BY DEF Alone, Starts
<1>4. tok'[c] # Nil /\ tok'[c].id \in startRefused'[c] => tok'[c].id \in revoked
  <2>1. CASE Keeps(c) \/ Caches(c)
    BY <2>1 DEF Keeps, Caches, RefusedInv, Starts
  <2>2. CASE Loses(c)
    BY <2>2 DEF Loses
  <2>3. CASE Takes(c)
    BY <1>2, <2>3, CacheIsNotRefused DEF Takes
  <2>4. CASE Receives(c)
    <3>1. \A id \in Refused : id \in Nat /\ id <= issued /\ issued \in Nat
      BY RefusedIsHeld, HeldIsMinted
    <3>2. tok'[c].id = issued + 1
      BY <2>4 DEF Receives
    <3>3. tok'[c].id \notin Refused
      BY <3>1, <3>2
    <3> QED
      BY <1>2, <3>3
  <2> QED
    BY <2>1, <2>2, <2>3, <2>4
<1> QED
  BY <1>1, <1>2, <1>3, <1>4 DEF RefusedInv, Dead, DiesAt, Alone

\* A header, once built, stays as it is.
LEMMA HeaderStays ==
    ASSUME AuthInv, NEW c \in Callers, Build(c)
    PROVE  /\ \A d \in denied : header'[d] = header[d]
           /\ Refused' = Refused
<1>1. header[c] = Nil
  BY DEF Build, Open, AuthInv, HeaderInv
<1>2. \A d \in denied : header'[d] = header[d]
  BY <1>1 DEF Build, AuthInv, AuthTypeOK, HeaderInv
<1>3. denied' = denied
  BY Zenon DEF Build
<1> QED
  BY <1>2, <1>3 DEF Refused

\* What was refused is dead or revoked, and no call comes by it again.
THEOREM RefusedCorrect == AuthSpec => []RefusedInv
<1>1. AuthInit => RefusedInv
  BY DEF AuthInit, Init, RefusedInv, Refused
<1>2. TypeInv /\ TimeInv /\ IdInv /\ AuthInv /\ SameInv /\ RefusedInv
      /\ [AuthNext]_authVars => RefusedInv'
  <2> SUFFICES ASSUME TypeInv, TimeInv, IdInv, AuthInv, SameInv, RefusedInv,
                      [AuthNext]_authVars
               PROVE  RefusedInv'
    OBVIOUS
  <2>1. ASSUME NEW c \in Callers, CallToken(c) PROVE RefusedInv'
    <3>1. Alone(c) /\ (Keeps(c) \/ Loses(c) \/ Takes(c) \/ Receives(c) \/ Caches(c))
      BY <2>1, TokenStep, Zenon DEF CallToken
    <3>2. pc[c] = "done"
      BY <2>1 DEF CallToken, TokenHit, TokenMiss, Begin
    <3>3. startRefused' = [startRefused EXCEPT ![c] = Refused]
          /\ UNCHANGED <<header, denied, revoked>>
      BY <2>1, Zenon DEF CallToken
    <3>4. Starts(c)
      BY <3>2, <3>3 DEF Keeps, Caches, Starts
    <3> QED
      BY <3>1, <3>3, <3>4, StepKeepsRefused, Zenon
  <2>2. ASSUME NEW c \in Callers, InToken(c) PROVE RefusedInv'
    <3>1. Alone(c) /\ (Keeps(c) \/ Loses(c) \/ Takes(c) \/ Receives(c) \/ Caches(c))
      BY <2>2, TokenStep, Zenon DEF InToken, InCall
    <3>2. Starts(c) /\ UNCHANGED <<header, denied, revoked>>
      BY <2>2, Zenon DEF InToken, Starts
    <3> QED
      BY <3>1, <3>2, StepKeepsRefused, Zenon
  <2>3. ASSUME NEW c \in Callers, Build(c) PROVE RefusedInv'
    <3>1. denied' = denied
      BY <2>3, Zenon DEF Build
    <3>2. Refused' = Refused /\ \A d \in denied : header'[d] = header[d]
      BY <2>3, HeaderStays
    <3>3. UNCHANGED <<now, tok, startRefused, revoked>>
      BY <2>3, RequestStep
    <3> QED
      BY <3>1, <3>2, <3>3 DEF RefusedInv, Dead, DiesAt
  <2>4. ASSUME NEW c \in Callers, Attempt(c) \/ Accept(c) \/ Finish(c)
        PROVE  RefusedInv'
    <3>1. UNCHANGED <<header, denied>>
      BY <2>4, Zenon DEF Attempt, Accept, Finish, requestVars
    <3> QED
      BY <2>4, <3>1, RequestStep DEF RefusedInv, Refused, Dead, DiesAt
  <2>5. ASSUME NEW c \in Callers, Deny(c) PROVE RefusedInv'
    <3>1. denied' = denied \cup {c} /\ header' = header
          /\ (Dead(header[c]) \/ header[c].id \in revoked)
      BY <2>5, Zenon DEF Deny
    <3>2. Refused \subseteq Refused'
      BY <3>1 DEF Refused
    <3> QED
      BY <2>5, <3>1, <3>2, RequestStep DEF RefusedInv, Dead, DiesAt
  <2>6. CASE Revoke
    <3>1. revoked \subseteq revoked'
          /\ UNCHANGED <<now, tok, header, denied, startRefused>>
      BY <2>6 DEF Revoke, vars, codeVars, requestVars
    <3> QED
      BY <3>1 DEF RefusedInv, Refused, Dead, DiesAt
  <2>7. CASE TimePasses
    <3>1. now' = now + 1 /\ UNCHANGED <<tok, header, denied, startRefused, revoked>>
      BY <2>7 DEF TimePasses, Tick, codeVars, requestVars
    <3>2. \A d \in denied : Dead(header[d]) => Dead(header[d])'
      <4> SUFFICES ASSUME NEW d \in denied, Dead(header[d]) PROVE Dead(header[d])'
        OBVIOUS
      <4>1. header[d] \in Token
        BY DEF AuthInv, AuthTypeOK, HeaderInv
      <4>2. DiesAt(header[d]) \in Nat /\ now \in Nat /\ now >= DiesAt(header[d])
        BY <4>1 DEF DiesAt, Token, Dead, TypeInv, TypeOK
      <4>3. now' >= DiesAt(header[d])
        BY <3>1, <4>2
      <4> QED
        BY <3>1, <4>3 DEF Dead, DiesAt
    <3> QED
      BY <3>1, <3>2 DEF RefusedInv, Refused, Dead, DiesAt
  <2>8. CASE AllEnded \/ UNCHANGED authVars
    <3>1. UNCHANGED <<now, tok, header, denied, startRefused, revoked>>
      BY <2>8 DEF AllEnded, authVars, vars, codeVars, requestVars
    <3> QED
      BY <3>1 DEF RefusedInv, Refused, Dead, DiesAt
  <2> QED
    BY <2>1, <2>2, <2>3, <2>4, <2>5, <2>6, <2>7, <2>8, Zenon DEF AuthNext
<1> QED
  BY <1>1, <1>2, TokensKept, TypeInvCorrect, TimeCorrect, IdsCorrect, SameCorrect,
     AuthInvCorrect, PTL DEF AuthSpec

\* A 401 for an expired token is not followed by another for the same token,
\* though nobody tells the token manager (tokenmanager.go:44-46, 97-100).
THEOREM ExpiredTokenCorrect == AuthSpec => []ExpiredTokenIsNotPresentedAgain
<1>1. AuthInv /\ RefusedInv => ExpiredTokenIsNotPresentedAgain
  BY DEF AuthInv, HeaderInv, RefusedInv, ExpiredTokenIsNotPresentedAgain
<1> QED
  BY <1>1, AuthInvCorrect, RefusedCorrect, PTL

\* Bearer calls get from the token manager what TokenSource promises, on which
\* SetuClient builds; ExchangeKept is its other half (upi/client.go:1110-1136).
THEOREM TokenSourceKept == AuthSpec => ImplementsTokenSource
BY TokensKept, TokenSourceImplemented

=============================================================================
