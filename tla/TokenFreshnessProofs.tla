------------------------ MODULE TokenFreshnessProofs ------------------------
(***************************************************************************)
(* Proofs about the tokens TokenManager hands out: which one, how old, and *)
(* that it keeps the promise of TokenSource.  Only the ids of tokens       *)
(* matter for all but their lifetime, so the steps are first reduced to    *)
(* what they do to ids (IdStep), and IdInv is proved over those.           *)
(***************************************************************************)
EXTENDS TokenManagerProofs

IdOf(t) == IF t = Nil THEN 0 ELSE t.id
CachedId == IF cached = Nil THEN 0 ELSE cached.token.id
TokId == [c \in Callers |-> IdOf(tok[c])]
Given(id) == newest' = IF id > newest THEN id ELSE newest

IdTypes ==
    /\ CachedId \in Nat /\ TokId \in [Callers -> Nat]
    /\ issued \in Nat /\ floor \in Nat /\ newest \in Nat
    /\ startFloor \in [Callers -> Nat] /\ since \in [Callers -> Nat]
    /\ landed \in [Callers -> Nat] /\ overlapped \subseteq Nat
    /\ pc \in [Callers -> Places]

\* A token is no older than the last Invalidate, or was under way during one.
Fresh(id, since0) == id > since0 \/ id \in overlapped

\* The order of minting is kept everywhere.
OrderInv ==
    /\ floor <= issued /\ newest <= issued /\ CachedId <= issued
    /\ CachedId # 0 => newest <= CachedId
    /\ \A c \in Callers :
         /\ startFloor[c] <= floor /\ since[c] <= newest
         /\ TokId[c] <= issued /\ landed[c] <= issued
         /\ pc[c] = "response" => TokId[c] = issued
         /\ pc[c] \in {"response", "clear", "close"} /\ TokId[c] # 0
              => TokId[c] >= since[c]
         /\ pc[c] \in {"clear", "close"} /\ CachedId # 0 => TokId[c] <= CachedId

\* What a waiter's flight brought is in the cache, or a newer one is, or none.
LandedInv ==
    \A c \in Callers :
        /\ landed[c] # 0 => pc[c] \in {"wait", "reread", "done"}
        /\ pc[c] \in {"wait", "reread"} /\ CachedId # 0 => landed[c] <= CachedId
        /\ pc[c] = "done" /\ TokId[c] # 0 => landed[c] <= TokId[c]

FreshInv ==
    /\ CachedId # 0 => Fresh(CachedId, floor)
    /\ \A c \in Callers :
         /\ pc[c] = "response" => Fresh(TokId[c], floor)
         /\ TokId[c] # 0 => Fresh(TokId[c], startFloor[c])

IdInv == OrderInv /\ LandedInv /\ FreshInv

\* An answer is used within the timeout of its attempt; so a token of the cache
\* outlives its expiry by the timeout at most.
TimeInv ==
    /\ cached # Nil => cached.expiresAt <= DiesAt(cached.token) + loginTimeout
    /\ \A c \in Callers :
         pc[c] = "response" => now <= tok[c].issuedAt + loginTimeout

-----------------------------------------------------------------------------
(***************************************************************************)
(* The steps of the code as steps of ids.                                  *)
(***************************************************************************)
ids == <<CachedId, TokId, issued, floor, newest, startFloor, since, landed,
         overlapped>>

Begun(c) ==
    /\ pc[c] = "done"
    /\ startFloor' = [startFloor EXCEPT ![c] = floor]
    /\ landed' = [landed EXCEPT ![c] = 0]
    /\ since' = [since EXCEPT ![c] = newest]

Moves(c) ==
    /\ UNCHANGED ids
    /\ \/ pc[c] = "refresh" /\ (Goto(c, "wait") \/ Goto(c, "login"))
       \/ pc[c] = "wait" /\ Goto(c, "reread")
       \/ pc[c] = "clear" /\ Goto(c, "close")

Hits(c) ==
    /\ Begun(c) /\ CachedId # 0
    /\ Goto(c, "done")
    /\ TokId' = [TokId EXCEPT ![c] = CachedId]
    /\ Given(CachedId)
    /\ UNCHANGED <<CachedId, issued, floor, overlapped>>

Misses(c) ==
    /\ Begun(c)
    /\ Goto(c, "refresh")
    /\ TokId' = [TokId EXCEPT ![c] = 0]
    /\ UNCHANGED <<CachedId, issued, floor, newest, overlapped>>

\* A waiter gives up or finds nothing.
GivesUp(c) ==
    /\ pc[c] \in {"wait", "reread"}
    /\ Goto(c, "done")
    /\ TokId' = [TokId EXCEPT ![c] = 0]
    /\ UNCHANGED <<CachedId, issued, floor, newest, startFloor, since, landed,
                   overlapped>>

Finds(c) ==
    /\ pc[c] = "reread" /\ CachedId # 0
    /\ Goto(c, "done")
    /\ TokId' = [TokId EXCEPT ![c] = CachedId]
    /\ Given(CachedId)
    /\ UNCHANGED <<CachedId, issued, floor, startFloor, since, landed, overlapped>>

Mints(c) ==
    /\ pc[c] = "login"
    /\ Goto(c, "response")
    /\ issued' = issued + 1
    /\ TokId' = [TokId EXCEPT ![c] = issued + 1]
    /\ UNCHANGED <<CachedId, floor, newest, startFloor, since, landed, overlapped>>

Drops(c) ==
    /\ pc[c] \in {"login", "response"}
    /\ Goto(c, "login") \/ Goto(c, "clear")
    /\ TokId' = [TokId EXCEPT ![c] = 0]
    /\ UNCHANGED <<CachedId, issued, floor, newest, startFloor, since, landed,
                   overlapped>>

Stores(c) ==
    /\ pc[c] = "response"
    /\ Goto(c, "clear")
    /\ CachedId' = TokId[c]
    /\ UNCHANGED <<TokId, issued, floor, newest, startFloor, since, landed,
                   overlapped>>

Closes(c) ==
    /\ pc[c] = "close"
    /\ Goto(c, "done")
    /\ landed' = [w \in Callers |->
                    IF waitsFor[w] = c /\ TokId[c] # 0 THEN TokId[c] ELSE landed[w]]
    /\ Given(TokId[c])
    /\ UNCHANGED <<CachedId, TokId, issued, floor, startFloor, since, overlapped>>

IdStep(c) ==
    \/ Moves(c) \/ Hits(c) \/ Misses(c) \/ GivesUp(c) \/ Finds(c)
    \/ Mints(c) \/ Drops(c) \/ Stores(c) \/ Closes(c)

Invalidates ==
    /\ CachedId' = 0
    /\ floor' = issued
    /\ overlapped' = overlapped \cup
                     {TokId[c] : c \in {d \in Callers : pc[d] = "response"}}
    /\ UNCHANGED <<pc, TokId, issued, newest, startFloor, since, landed>>

LEMMA IdsAreTyped == ASSUME TypeOK PROVE IdTypes
<1>1. CachedId \in Nat
  <2>1. cached \in CachedToken => cached.token.id \in Nat
    BY DEF CachedToken, Token
  <2> QED
    BY <2>1 DEF TypeOK, CachedId
<1>2. TokId \in [Callers -> Nat]
  <2>1. \A t \in Token \cup {Nil} : IdOf(t) \in Nat
    BY DEF IdOf, Token
  <2> QED
    BY <2>1 DEF TypeOK, TokId
<1> QED
  BY <1>1, <1>2, Zenon DEF TypeOK, IdTypes

\* An id is 0 only where there is no token.
LEMMA IdOfToken ==
    ASSUME NEW t \in Token \cup {Nil}
    PROVE  IdOf(t) \in Nat /\ (IdOf(t) = 0 <=> t = Nil)
BY NilTokenAssumption DEF IdOf, Token

LEMMA CachedIdOfToken ==
    ASSUME TypeOK, cached # Nil
    PROVE  /\ cached \in CachedToken /\ cached.token \in Token
           /\ CachedId = cached.token.id /\ CachedId # 0
           /\ CachedId = IdOf(cached.token)
<1>1. cached \in CachedToken /\ cached.token \in Token
  BY DEF TypeOK, CachedToken
<1>2. cached.token # Nil
  BY <1>1, NilTokenAssumption
<1> QED
  BY <1>1, <1>2 DEF CachedId, IdOf, Token

LEMMA TokIdUpdated ==
    ASSUME TypeOK, NEW c \in Callers, NEW t, tok' = [tok EXCEPT ![c] = t]
    PROVE  TokId' = [TokId EXCEPT ![c] = IdOf(t)]
BY DEF TypeOK, TokId

LEMMA HandOutGives == ASSUME NEW t \in Token, HandOut(t) PROVE Given(IdOf(t))
<1>1. t # Nil
  BY NilTokenAssumption
<1> QED
  BY <1>1 DEF HandOut, Given, IdOf

LEMMA HandOutNothing ==
    ASSUME newest \in Nat, HandOut(Nil)
    PROVE  newest' = newest /\ Given(0)
BY DEF HandOut, Given

\* Every step of the code is one of the steps of ids, or leaves them and the
\* control alone (tokenmanager.go:66-180).
LEMMA StepIsIdStep ==
    ASSUME TypeInv, [Next]_vars
    PROVE  \/ UNCHANGED <<ids, pc>>
           \/ Invalidates
           \/ \E c \in Callers : IdStep(c)
<1> TypeOK
  BY Zenon DEF TypeInv
<1>1. ASSUME NEW c \in Callers, TokenHit(c) PROVE Hits(c)
  <2>1. valid(cached) /\ Begin(c) /\ Return(c, cached.token, "none")
        /\ UNCHANGED <<now, cached, flightCh, waitsFor, issued, floor, overlapped>>
    BY <1>1, Zenon DEF TokenHit
  <2>2. cached # Nil
    BY <2>1 DEF valid
  <2>3. TokId' = [TokId EXCEPT ![c] = CachedId] /\ Given(CachedId)
    BY <2>1, <2>2, CachedIdOfToken, TokIdUpdated, HandOutGives DEF Return
  <2> QED
    BY <2>1, <2>2, <2>3, CachedIdOfToken DEF Hits, Begin, Begun, Return, CachedId
<1>2. ASSUME NEW c \in Callers, TokenMiss(c) PROVE Misses(c)
  <2>1. TokId' = [TokId EXCEPT ![c] = 0]
    BY <1>2, TokIdUpdated DEF TokenMiss, IdOf
  <2> QED
    BY <1>2, <2>1 DEF TokenMiss, Misses, Begin, Begun, CachedId
<1>3. ASSUME NEW c \in Callers, Join(c) PROVE Moves(c)
  BY <1>3 DEF Join, Moves, ids, CachedId, TokId, history
<1>4. ASSUME NEW c \in Callers, Lead(c) PROVE Moves(c)
  BY <1>4 DEF Lead, Moves, ids, CachedId, TokId, history
<1>5. ASSUME NEW c \in Callers, Wake(c) PROVE Moves(c)
  BY <1>5 DEF Wake, Moves, ids, CachedId, TokId, history
<1>6. ASSUME NEW c \in Callers, Abandon(c) PROVE GivesUp(c)
  <2>1. TokId' = [TokId EXCEPT ![c] = 0] /\ newest' = newest
    BY <1>6, TokIdUpdated, HandOutNothing DEF Abandon, Return, IdOf, TypeOK
  <2> QED
    BY <1>6, <2>1 DEF Abandon, Return, GivesUp, CachedId, history
<1>7. ASSUME NEW c \in Callers, Reread(c) PROVE Finds(c) \/ GivesUp(c)
  <2>1. pc[c] = "reread"
        /\ UNCHANGED <<now, cached, flightCh, waitsFor, issued, history>>
    BY <1>7, Zenon DEF Reread
  <2>2. CASE valid(cached)
    <3>1. Return(c, cached.token, "none") /\ cached # Nil
      BY <1>7, <2>2, Zenon DEF Reread, valid
    <3>2. TokId' = [TokId EXCEPT ![c] = CachedId] /\ Given(CachedId)
      BY <3>1, CachedIdOfToken, TokIdUpdated, HandOutGives DEF Return
    <3> QED
      BY <2>1, <3>1, <3>2, CachedIdOfToken DEF Return, Finds, CachedId, history
  <2>3. CASE ~valid(cached)
    <3>1. Return(c, Nil, "refresh failed")
      BY <1>7, <2>3, Zenon DEF Reread
    <3>2. TokId' = [TokId EXCEPT ![c] = 0] /\ newest' = newest
      BY <3>1, TokIdUpdated, HandOutNothing DEF Return, IdOf, TypeOK
    <3> QED
      BY <2>1, <3>1, <3>2 DEF Return, GivesUp, CachedId, history
  <2> QED
    BY <2>2, <2>3
<1>8. ASSUME NEW c \in Callers, LoginIssued(c) PROVE Mints(c)
  <2>1. PICK e \in ExpiresIn :
          tok' = [tok EXCEPT ![c] =
                    [id |-> issued + 1, issuedAt |-> now, ttl |-> ttlOf(e)]]
    BY <1>8 DEF LoginIssued
  <2> DEFINE t == [id |-> issued + 1, issuedAt |-> now, ttl |-> ttlOf(e)]
  <2>2. t \in Token
    BY MintedIsToken DEF TypeOK
  <2>3. IdOf(t) = issued + 1
    BY <2>2, NilTokenAssumption DEF IdOf
  <2>4. TokId' = [TokId EXCEPT ![c] = issued + 1]
    BY <2>1, <2>3, TokIdUpdated
  <2> QED
    BY <1>8, <2>4 DEF LoginIssued, Mints, CachedId, history
<1>9. ASSUME NEW c \in Callers, LoginRetried(c) PROVE Drops(c)
  <2>1. TokId' = [TokId EXCEPT ![c] = 0]
    BY <1>9, TokIdUpdated DEF LoginRetried, IdOf
  <2> QED
    BY <1>9, <2>1 DEF LoginRetried, Drops, CachedId, history
<1>10. ASSUME NEW c \in Callers, LoginFails(c) PROVE Drops(c)
  <2>1. TokId' = [TokId EXCEPT ![c] = 0]
    BY <1>10, TokIdUpdated DEF LoginFails, IdOf
  <2> QED
    BY <1>10, <2>1 DEF LoginFails, Drops, CachedId, history
<1>11. ASSUME NEW c \in Callers, StoreToken(c) PROVE Stores(c)
  <2>1. tok[c] \in Token /\ pc[c] = "response"
    BY <1>11, Zenon DEF StoreToken, TypeInv
  <2>2. cached' = [token |-> tok[c], expiresAt |-> now + tok[c].ttl]
        /\ Goto(c, "clear")
        /\ UNCHANGED <<now, flightCh, waitsFor, tok, err, cancelled, issued,
                       history, newest>>
    BY <1>11, Zenon DEF StoreToken
  <2>3. now + tok[c].ttl \in Nat
    <3>1. now \in Nat /\ tok[c].ttl \in Nat
      BY <2>1 DEF Token, TypeOK
    <3> QED
      BY <3>1, SumIsNatural, Zenon
  <2>4. cached' # Nil
    <3>1. cached' \in CachedToken
      BY <2>1, <2>2, <2>3 DEF CachedToken
    <3> QED
      BY <3>1, NilTokenAssumption
  <2>5. CachedId' = TokId[c]
    <3>1. tok[c] # Nil
      BY <2>1, NilTokenAssumption
    <3> QED
      BY <2>2, <2>4, <3>1 DEF CachedId, TokId, IdOf
  <2> QED
    BY <2>1, <2>2, <2>5, Zenon DEF Stores, TokId, history
<1>12. ASSUME NEW c \in Callers, ClearFlight(c) PROVE Moves(c)
  BY <1>12 DEF ClearFlight, Moves, ids, CachedId, TokId, history
<1>13. ASSUME NEW c \in Callers, CloseFlight(c) PROVE Closes(c)
  <2>1. tok[c] \in Token \cup {Nil} /\ newest \in Nat
    BY Zenon DEF TypeOK
  <2>2. TokId[c] = IdOf(tok[c])
    BY DEF TokId
  <2>3. TokId[c] # 0 <=> tok[c] # Nil
    BY <2>1, <2>2, IdOfToken
  <2>4. tok[c] # Nil => TokId[c] = tok[c].id
    BY <2>2 DEF IdOf
  <2>5. landed' = [w \in Callers |->
                     IF waitsFor[w] = c /\ TokId[c] # 0
                     THEN TokId[c] ELSE landed[w]]
    BY <1>13, <2>3, <2>4 DEF CloseFlight
  <2>6. Given(TokId[c])
    BY <1>13, <2>1, <2>2, HandOutGives, HandOutNothing DEF CloseFlight, IdOf
  <2> QED
    BY <1>13, <2>5, <2>6 DEF CloseFlight, Closes, CachedId, TokId
<1>14. ASSUME NEW c \in Callers, Cancel(c) PROVE UNCHANGED <<ids, pc>>
  BY <1>14 DEF Cancel, ids, CachedId, TokId, history
<1>15. ASSUME Invalidate PROVE Invalidates
  <2> DEFINE D == {d \in Callers : pc[d] = "response"}
  <2>1. \A c \in D : TokId[c] = tok[c].id
    BY NilTokenAssumption DEF TypeInv, TokId, IdOf
  <2>2. {tok[c].id : c \in D} = {TokId[c] : c \in D}
    BY <2>1
  <2> QED
    BY <1>15, <2>2 DEF Invalidate, Invalidates, CachedId, TokId
<1>16. ASSUME Tick PROVE UNCHANGED <<ids, pc>>
  BY <1>16 DEF Tick, ids, CachedId, TokId, history, codeVars
<1>17. ASSUME UNCHANGED vars PROVE UNCHANGED <<ids, pc>>
  BY <1>17 DEF vars, ids, CachedId, TokId, history, codeVars
<1> QED
  BY <1>1, <1>2, <1>3, <1>4, <1>5, <1>6, <1>7, <1>8, <1>9, <1>10, <1>11,
     <1>12, <1>13, <1>14, <1>15, <1>16, <1>17
     DEF Next, Run, LoginEnds, IdStep

-----------------------------------------------------------------------------
(***************************************************************************)
(* IdInv is inductive.                                                     *)
(***************************************************************************)
\* While a caller is about to log in nobody else has an answer to use.
LEMMA OneAnswer ==
    ASSUME FlightInv, NEW c \in Callers, NEW d \in Callers,
           pc[c] \in {"login", "response"}, pc[d] = "response"
    PROVE  c = d
BY DEF FlightInv, HoldsFlight

LEMMA StepKeepsOrder ==
    ASSUME IdTypes, FlightInv, LandedInv, OrderInv, NEW c \in Callers, IdStep(c)
    PROVE  OrderInv'
<1> USE DEF IdTypes, OrderInv, LandedInv, Goto
<1>1. CASE Moves(c)
  BY <1>1 DEF Moves, ids
<1>2. CASE Hits(c)
  BY <1>2 DEF Hits, Begun, Given
<1>3. CASE Misses(c)
  BY <1>3 DEF Misses, Begun
<1>4. CASE GivesUp(c)
  BY <1>4 DEF GivesUp
<1>5. CASE Finds(c)
  BY <1>5 DEF Finds, Given
<1>6. CASE Mints(c)
  BY <1>6, OneAnswer DEF Mints
<1>7. CASE Drops(c)
  BY <1>7 DEF Drops
<1>8. CASE Stores(c)
  BY <1>8 DEF Stores
<1>9. CASE Closes(c)
  BY <1>9 DEF Closes, Given
<1> QED
  BY <1>1, <1>2, <1>3, <1>4, <1>5, <1>6, <1>7, <1>8, <1>9 DEF IdStep

LEMMA StepKeepsLanded ==
    ASSUME IdTypes, FlightInv, OrderInv, LandedInv, NEW c \in Callers, IdStep(c)
    PROVE  LandedInv'
<1> USE DEF IdTypes, OrderInv, LandedInv, Goto
<1>1. CASE Moves(c)
  BY <1>1 DEF Moves, ids
<1>2. CASE Hits(c)
  BY <1>2 DEF Hits, Begun, Given
<1>3. CASE Misses(c)
  BY <1>3 DEF Misses, Begun
<1>4. CASE GivesUp(c)
  BY <1>4 DEF GivesUp
<1>5. CASE Finds(c)
  BY <1>5 DEF Finds, Given
<1>6. CASE Mints(c)
  BY <1>6 DEF Mints
<1>7. CASE Drops(c)
  BY <1>7 DEF Drops
<1>8. CASE Stores(c)
  BY <1>8 DEF Stores
<1>9. CASE Closes(c)
  <2>1. \A w \in Callers : waitsFor[w] = c => pc[w] = "wait"
    BY NilAssumption DEF FlightInv
  <2> QED
    BY <1>9, <2>1 DEF Closes, Given
<1> QED
  BY <1>1, <1>2, <1>3, <1>4, <1>5, <1>6, <1>7, <1>8, <1>9 DEF IdStep

LEMMA StepKeepsFresh ==
    ASSUME IdTypes, FlightInv, OrderInv, FreshInv, NEW c \in Callers, IdStep(c)
    PROVE  FreshInv'
<1> USE DEF IdTypes, OrderInv, FreshInv, Fresh, Goto
<1>1. CASE Moves(c)
  BY <1>1 DEF Moves, ids
<1>2. CASE Hits(c)
  BY <1>2 DEF Hits, Begun, Given
<1>3. CASE Misses(c)
  BY <1>3 DEF Misses, Begun
<1>4. CASE GivesUp(c)
  BY <1>4 DEF GivesUp
<1>5. CASE Finds(c)
  BY <1>5 DEF Finds, Given
<1>6. CASE Mints(c)
  BY <1>6 DEF Mints
<1>7. CASE Drops(c)
  BY <1>7 DEF Drops
<1>8. CASE Stores(c)
  BY <1>8 DEF Stores
<1>9. CASE Closes(c)
  BY <1>9 DEF Closes, Given
<1> QED
  BY <1>1, <1>2, <1>3, <1>4, <1>5, <1>6, <1>7, <1>8, <1>9 DEF IdStep

LEMMA InvalidateKeepsIds ==
    ASSUME IdTypes, IdInv, Invalidates
    PROVE  IdInv'
<1>1. OrderInv' /\ LandedInv'
  BY DEF IdInv, IdTypes, OrderInv, LandedInv, Invalidates
<1>2. FreshInv'
  BY DEF IdInv, IdTypes, OrderInv, FreshInv, Fresh, Invalidates
<1> QED
  BY <1>1, <1>2 DEF IdInv

\* The order of tokens, by their ids, is kept (tokenmanager.go:66-180).
THEOREM IdsCorrect == Spec => []IdInv
<1>1. Init => IdInv
  <2> SUFFICES ASSUME Init PROVE IdInv
    OBVIOUS
  <2>1. CachedId = 0 /\ TokId = [c \in Callers |-> 0]
    BY DEF Init, CachedId, TokId, IdOf
  <2> QED
    BY <2>1 DEF Init, IdInv, OrderInv, LandedInv, FreshInv
<1>2. TypeInv /\ FlightInv /\ IdInv /\ [Next]_vars => IdInv'
  <2> SUFFICES ASSUME TypeInv, FlightInv, IdInv, [Next]_vars PROVE IdInv'
    OBVIOUS
  <2>1. IdTypes
    BY IdsAreTyped, Zenon DEF TypeInv
  <2>2. CASE UNCHANGED <<ids, pc>>
    BY <2>2 DEF ids, IdInv, OrderInv, LandedInv, FreshInv, Fresh
  <2>3. CASE Invalidates
    BY <2>1, <2>3, InvalidateKeepsIds
  <2>4. CASE \E c \in Callers : IdStep(c)
    BY <2>1, <2>4, StepKeepsOrder, StepKeepsLanded, StepKeepsFresh, Zenon
       DEF IdInv
  <2> QED
    BY <2>2, <2>3, <2>4, StepIsIdStep
<1> QED
  BY <1>1, <1>2, TypeInvCorrect, FlightCorrect, PTL DEF Spec

\* A waiter gets the token of its flight or a newer one (tokenmanager.go:90-100).
THEOREM WaiterCorrect == Spec => []WaiterGetsFlightsTokenOrNewer
<1>1. TypeOK /\ IdInv => WaiterGetsFlightsTokenOrNewer
  <2> SUFFICES ASSUME TypeOK, IdInv, NEW c \in Callers,
                      pc[c] = "done", tok[c] # Nil, landed[c] # 0
               PROVE  tok[c].id >= landed[c]
    BY Zenon DEF WaiterGetsFlightsTokenOrNewer
  <2>1. TokId[c] = tok[c].id /\ TokId[c] \in Nat \ {0} /\ landed[c] \in Nat
    BY IdOfToken DEF TypeOK, TokId, IdOf
  <2> QED
    BY <2>1 DEF IdInv, LandedInv
<1> QED
  BY <1>1, IdsCorrect, TypeCorrect, PTL

\* After Invalidate no call returns what was in the cache before it
\* (tokenmanager.go:77-83).
THEOREM InvalidateCorrect == Spec => []InvalidateForcesLogin
<1>1. TypeOK /\ IdInv => InvalidateForcesLogin
  <2> SUFFICES ASSUME TypeOK, IdInv, NEW c \in Callers, tok[c] # Nil
               PROVE  tok[c].id > startFloor[c] \/ tok[c].id \in overlapped
    BY Zenon DEF InvalidateForcesLogin
  <2>1. TokId[c] = tok[c].id /\ TokId[c] # 0
    BY IdOfToken DEF TypeOK, TokId, IdOf
  <2> QED
    BY <2>1 DEF IdInv, FreshInv, Fresh
<1> QED
  BY <1>1, IdsCorrect, TypeCorrect, PTL

\* The cache never goes back to an older token (tokenmanager.go:172-179).
THEOREM NewestWinsCorrect == Spec => NewestWins
<1>1. TypeInv /\ TypeOK' /\ FlightInv /\ IdInv /\ [Next]_vars
      => [cached # Nil /\ cached' # Nil => cached'.token.id >= cached.token.id]_vars
  <2> SUFFICES ASSUME TypeInv, TypeOK', FlightInv, IdInv, [Next]_vars,
                      cached # Nil, cached' # Nil
               PROVE  cached'.token.id >= cached.token.id
    OBVIOUS
  <2>1. TypeOK /\ IdTypes
    BY IdsAreTyped, Zenon DEF TypeInv
  <2>2. CachedId = cached.token.id /\ CachedId \in Nat \ {0}
    BY <2>1, CachedIdOfToken DEF IdTypes
  <2>3. CachedId' = cached'.token.id /\ CachedId' \in Nat \ {0}
    <3>1. cached' \in CachedToken
      BY DEF TypeOK
    <3> QED
      BY <3>1 DEF CachedId, CachedToken, Token
  <2>4. CachedId' = CachedId \/ CachedId' = 0
        \/ \E c \in Callers : CachedId' = TokId[c] /\ TokId[c] = issued
    BY StepIsIdStep DEF ids, Invalidates, IdStep, Moves, Hits, Misses, GivesUp,
         Finds, Mints, Drops, Stores, Closes, IdInv, OrderInv
  <2> QED
    BY <2>1, <2>2, <2>3, <2>4 DEF IdInv, OrderInv, IdTypes
<1> QED
  BY <1>1, TypeInvCorrect, TypeCorrect, FlightCorrect, IdsCorrect, PTL
     DEF Spec, NewestWins

-----------------------------------------------------------------------------
(***************************************************************************)
(* A needless login and a failed waiter, each with its reason.             *)
(***************************************************************************)
\* A token on its way to its leader is newer than all that is known.
AheadInv ==
    \A c \in Callers : pc[c] = "response" =>
        /\ TokId[c] > newest /\ TokId[c] > CachedId
        /\ \A d \in Callers : pc[d] = "close" => TokId[c] > TokId[d]

\* Where the cache is empty, whatever a flight brought had been invalidated.
MissingInv ==
    CachedId = 0 => \A c \in Callers :
        /\ landed[c] <= floor
        /\ pc[c] \in {"clear", "close"} => TokId[c] <= floor

\* The leader that is between two flights' callers is alone with its answer.
LEMMA ClearIsNoAnswer ==
    ASSUME FlightInv, NEW c \in Callers, NEW d \in Callers,
           pc[c] = "clear", pc[d] = "response"
    PROVE  FALSE
BY DEF FlightInv, HoldsFlight

LEMMA StepKeepsAhead ==
    ASSUME IdTypes, FlightInv, OrderInv, AheadInv, NEW c \in Callers, IdStep(c)
    PROVE  AheadInv'
<1> USE DEF IdTypes, OrderInv, AheadInv, Goto
<1>1. CASE Moves(c)
  BY <1>1, ClearIsNoAnswer DEF Moves, ids
<1>2. CASE Hits(c)
  BY <1>2 DEF Hits, Begun, Given
<1>3. CASE Misses(c)
  BY <1>3 DEF Misses, Begun
<1>4. CASE GivesUp(c)
  BY <1>4 DEF GivesUp
<1>5. CASE Finds(c)
  BY <1>5 DEF Finds, Given
<1>6. CASE Mints(c)
  BY <1>6, OneAnswer DEF Mints
<1>7. CASE Drops(c)
  BY <1>7 DEF Drops
<1>8. CASE Stores(c)
  BY <1>8, OneAnswer DEF Stores
<1>9. CASE Closes(c)
  BY <1>9 DEF Closes, Given
<1> QED
  BY <1>1, <1>2, <1>3, <1>4, <1>5, <1>6, <1>7, <1>8, <1>9 DEF IdStep

LEMMA StepKeepsMissing ==
    ASSUME IdTypes, AheadInv, MissingInv, NEW c \in Callers, IdStep(c)
    PROVE  MissingInv'
<1> USE DEF IdTypes, MissingInv, Goto
<1>1. CASE Moves(c)
  BY <1>1 DEF Moves, ids
<1>2. CASE Hits(c)
  BY <1>2 DEF Hits, Begun
<1>3. CASE Misses(c)
  BY <1>3 DEF Misses, Begun
<1>4. CASE GivesUp(c)
  BY <1>4 DEF GivesUp
<1>5. CASE Finds(c)
  BY <1>5 DEF Finds
<1>6. CASE Mints(c)
  BY <1>6 DEF Mints
<1>7. CASE Drops(c)
  BY <1>7 DEF Drops
<1>8. CASE Stores(c)
  <2>1. CachedId' = TokId[c] /\ TokId[c] > newest
    BY <1>8 DEF Stores, AheadInv
  <2>2. CachedId' # 0
    BY <2>1
  <2> QED
    BY <2>2
<1>9. CASE Closes(c)
  BY <1>9 DEF Closes
<1> QED
  BY <1>1, <1>2, <1>3, <1>4, <1>5, <1>6, <1>7, <1>8, <1>9 DEF IdStep

\* A token under way is ahead of the rest, and the cache is only empty of what
\* was invalidated (tokenmanager.go:77-114, 172-179).
THEOREM AheadCorrect == Spec => [](AheadInv /\ MissingInv)
<1>1. Init => AheadInv /\ MissingInv
  <2> SUFFICES ASSUME Init PROVE AheadInv /\ MissingInv
    OBVIOUS
  <2>1. CachedId = 0 /\ TokId = [c \in Callers |-> 0]
    BY DEF Init, CachedId, TokId, IdOf
  <2> QED
    BY <2>1 DEF Init, AheadInv, MissingInv
<1>2. TypeInv /\ FlightInv /\ IdInv /\ AheadInv /\ MissingInv /\ [Next]_vars
      => AheadInv' /\ MissingInv'
  <2> SUFFICES ASSUME TypeInv, FlightInv, IdInv, AheadInv, MissingInv, [Next]_vars
               PROVE  AheadInv' /\ MissingInv'
    OBVIOUS
  <2>1. IdTypes /\ OrderInv
    BY IdsAreTyped, Zenon DEF TypeInv, IdInv
  <2>2. CASE UNCHANGED <<ids, pc>>
    BY <2>2 DEF ids, AheadInv, MissingInv
  <2>3. CASE Invalidates
    BY <2>1, <2>3 DEF Invalidates, AheadInv, MissingInv, IdTypes, OrderInv
  <2>4. CASE \E c \in Callers : IdStep(c)
    BY <2>1, <2>4, StepKeepsAhead, StepKeepsMissing, Zenon
  <2> QED
    BY <2>2, <2>3, <2>4, StepIsIdStep
<1> QED
  BY <1>1, <1>2, TypeInvCorrect, FlightCorrect, IdsCorrect, PTL DEF Spec

\* What a step does to the cache: it stays, loses its token, or gets the one a
\* leader has fetched; the clock only goes forward (tokenmanager.go:77-83, 172-179).
LEMMA CacheStep ==
    ASSUME TypeInv, [Next]_vars
    PROVE  /\ now' \in Nat /\ now <= now'
           /\ \/ cached' = cached
              \/ cached' = Nil
              \/ \E c \in Callers : StoreToken(c)
<1> now \in Nat
  BY Zenon DEF TypeInv, TypeOK
<1>1. CASE Tick
  <2>1. now' = now + 1 /\ cached' = cached
    BY <1>1, Zenon DEF Tick, codeVars
  <2> QED
    BY <2>1
<1>2. ASSUME NEW c \in Callers, StoreToken(c) PROVE now' = now
  BY <1>2, Zenon DEF StoreToken
<1>3. ASSUME NEW c \in Callers,
             TokenHit(c) \/ TokenMiss(c) \/ Join(c) \/ Lead(c) \/ Wake(c)
      PROVE  now' = now /\ cached' = cached
  BY <1>3 DEF TokenHit, TokenMiss, Join, Lead, Wake
<1>4. ASSUME NEW c \in Callers, Abandon(c) \/ Reread(c) \/ ClearFlight(c)
                                \/ CloseFlight(c) \/ Cancel(c)
      PROVE  now' = now /\ cached' = cached
  BY <1>4 DEF Abandon, Reread, ClearFlight, CloseFlight, Cancel
<1>5. ASSUME NEW c \in Callers, LoginIssued(c) \/ LoginRetried(c) \/ LoginFails(c)
      PROVE  now' = now /\ cached' = cached
  BY <1>5 DEF LoginIssued, LoginRetried, LoginFails
<1>6. CASE Invalidate
  BY <1>6 DEF Invalidate
<1>7. CASE UNCHANGED vars
  BY <1>7 DEF vars, codeVars
<1> QED
  BY <1>1, <1>2, <1>3, <1>4, <1>5, <1>6, <1>7 DEF Next, Run, LoginEnds

\* A valid cache was valid before, unless a leader has just filled it.
LEMMA ValidBefore ==
    ASSUME TypeInv, [Next]_vars, valid(cached)',
           ~ \E c \in Callers : StoreToken(c)
    PROVE  valid(cached) /\ cached' = cached
<1>1. cached' # Nil /\ now' < cached'.expiresAt - refreshBuffer
  BY DEF valid
<1>2. cached' = cached /\ now' \in Nat /\ now <= now'
  BY <1>1, CacheStep
<1>3. cached \in CachedToken
  BY <1>1, <1>2 DEF TypeInv, TypeOK
<1>4. now \in Nat /\ cached.expiresAt \in Nat /\ refreshBuffer \in Nat
  BY <1>3, DurationAssumption DEF TypeInv, TypeOK, CachedToken
<1>5. now < cached.expiresAt - refreshBuffer
  BY <1>1, <1>2, <1>4
<1> QED
  BY <1>1, <1>2, <1>5 DEF valid

\* A caller in refresh got there by a miss that saw no valid cache.
LEMMA MissSawNoToken ==
    ASSUME TypeInv, [Next]_vars, NEW c \in Callers, pc'[c] = "refresh",
           valid(cached)', ~ \E d \in Callers : StoreToken(d)
    PROVE  pc[c] = "refresh" /\ since'[c] = since[c]
<1>1. valid(cached)
  BY ValidBefore
<1> pc \in [Callers -> Places] /\ since \in [Callers -> Nat]
  BY Zenon DEF TypeInv, TypeOK
<1>2. ASSUME NEW d \in Callers, TokenHit(d)
      PROVE  pc[c] = "refresh" /\ since'[c] = since[c]
  BY <1>2 DEF TokenHit, Begin, Return, Goto
<1>3. ASSUME NEW d \in Callers, TokenMiss(d) PROVE FALSE
  BY <1>1, <1>3, Zenon DEF TokenMiss
<1>4. ASSUME NEW d \in Callers, Run(d)
      PROVE  pc[c] = "refresh" /\ since'[c] = since[c]
  <2>1. ~StoreToken(d)
    BY Zenon
  <2>2. CASE Join(d) \/ Lead(d) \/ Wake(d)
    BY <2>2 DEF Join, Lead, Wake, Goto, history
  <2>3. CASE Abandon(d)
    BY <2>3 DEF Abandon, Return, Goto, history
  <2>4. CASE Reread(d)
    BY <2>4 DEF Reread, Return, Goto, history
  <2>5. CASE ClearFlight(d) \/ CloseFlight(d)
    BY <2>5 DEF ClearFlight, CloseFlight, Goto, history
  <2> QED
    BY <1>4, <2>1, <2>2, <2>3, <2>4, <2>5, Zenon DEF Run
<1>5. ASSUME NEW d \in Callers, LoginEnds(d) \/ LoginRetried(d) \/ Cancel(d)
      PROVE  pc[c] = "refresh" /\ since'[c] = since[c]
  BY <1>5 DEF LoginEnds, LoginIssued, LoginFails, LoginRetried, Cancel, Goto, history
<1>6. ASSUME Invalidate \/ Tick \/ UNCHANGED vars
      PROVE  pc[c] = "refresh" /\ since'[c] = since[c]
  BY <1>6 DEF Invalidate, Tick, vars, codeVars, history
<1> QED
  BY <1>2, <1>3, <1>4, <1>5, <1>6, Zenon DEF Next

\* A login that finds the cache valid again was overtaken by a flight that
\* brought a newer token (tokenmanager.go:72, 86, 102).
THEOREM NoNeedlessLoginCorrect == Spec => []NoNeedlessLogin
<1>1. Init => NoNeedlessLogin
  BY DEF Init, NoNeedlessLogin
<1>2. TypeInv /\ TypeOK' /\ IdInv /\ AheadInv /\ NoNeedlessLogin /\ [Next]_vars
      => NoNeedlessLogin'
  <2> SUFFICES ASSUME TypeInv, TypeOK', IdInv, AheadInv, NoNeedlessLogin,
                      [Next]_vars, NEW c \in Callers,
                      pc'[c] = "refresh", valid(cached)'
               PROVE  cached'.token.id > since'[c]
    BY DEF NoNeedlessLogin
  <2>1. CASE \E d \in Callers : StoreToken(d)
    <3>1. PICK d \in Callers : StoreToken(d)
      BY <2>1
    <3>2. tok[d] \in Token /\ pc[d] = "response" /\ since' = since
          /\ cached' = [token |-> tok[d], expiresAt |-> now + tok[d].ttl]
      BY <3>1, Zenon DEF StoreToken, TypeInv, history
    <3>3. TokId[d] = tok[d].id
      BY <3>2, NilTokenAssumption DEF TokId, IdOf
    <3>4. TokId[d] > newest /\ since[c] <= newest
      BY <3>2 DEF AheadInv, IdInv, OrderInv
    <3>5. since[c] \in Nat /\ newest \in Nat /\ TokId[d] \in Nat
      BY IdsAreTyped DEF TypeInv, IdTypes
    <3> QED
      BY <3>2, <3>3, <3>4, <3>5
  <2>2. CASE ~ \E d \in Callers : StoreToken(d)
    BY <2>2, ValidBefore, MissSawNoToken DEF NoNeedlessLogin
  <2> QED
    BY <2>1, <2>2
<1> QED
  BY <1>1, <1>2, TypeInvCorrect, TypeCorrect, IdsCorrect, AheadCorrect, PTL
     DEF Spec

\* A waiter whose flight succeeded fails for its token was invalidated or is
\* about to expire, and for no other reason (tokenmanager.go:95-100).
THEOREM WaiterFailsForAReasonCorrect == Spec => []WaiterFailsForAReason
<1>1. TypeOK /\ IdInv /\ MissingInv => WaiterFailsForAReason
  <2> SUFFICES ASSUME TypeOK, IdInv, MissingInv, NEW c \in Callers,
                      pc[c] = "reread", ~(landed[c] <= floor)
               PROVE  cached # Nil /\ cached.token.id >= landed[c]
    BY Zenon DEF WaiterFailsForAReason
  <2>1. CachedId # 0 /\ landed[c] <= CachedId
    BY DEF MissingInv, IdInv, LandedInv
  <2>2. cached # Nil
    BY <2>1 DEF CachedId
  <2>3. CachedId = cached.token.id /\ CachedId \in Nat /\ landed[c] \in Nat
    BY <2>2, CachedIdOfToken, IdsAreTyped DEF IdTypes
  <2> QED
    BY <2>1, <2>2, <2>3
<1> QED
  BY <1>1, TypeCorrect, IdsCorrect, AheadCorrect, PTL

-----------------------------------------------------------------------------
(***************************************************************************)
(* The lifetime of tokens.                                                 *)
(***************************************************************************)
\* A step that neither moves the clock, mints nor stores: answers under way stay
\* as they are and the cache is kept or dropped.
TimeStandsStill ==
    /\ now' = now
    /\ cached' \in {cached, Nil}
    /\ \A d \in Callers : pc'[d] = "response" => pc[d] = "response" /\ tok'[d] = tok[d]

LEMMA StillKeepsTime == ASSUME TimeInv, TimeStandsStill PROVE TimeInv'
BY DEF TimeInv, TimeStandsStill, DiesAt

\* No token is used after its attempt timed out (tokenmanager.go:167-179).
THEOREM TimeCorrect == Spec => []TimeInv
<1>1. Init => TimeInv
  BY DEF Init, TimeInv
<1>2. TypeInv /\ TimeInv /\ [Next]_vars => TimeInv'
  <2> SUFFICES ASSUME TypeInv, TimeInv, [Next]_vars PROVE TimeInv'
    OBVIOUS
  <2> pc \in [Callers -> Places] /\ tok \in [Callers -> Token \cup {Nil}]
    BY Zenon DEF TypeInv, TypeOK
  <2>1. ASSUME NEW c \in Callers, TokenHit(c) PROVE TimeStandsStill
    BY <2>1 DEF TokenHit, Begin, Return, Goto, TimeStandsStill
  <2>2. ASSUME NEW c \in Callers, TokenMiss(c) PROVE TimeStandsStill
    BY <2>2 DEF TokenMiss, Begin, Goto, TimeStandsStill
  <2>3. ASSUME NEW c \in Callers, Join(c) PROVE TimeStandsStill
    BY <2>3 DEF Join, Goto, TimeStandsStill
  <2>4. ASSUME NEW c \in Callers, Lead(c) PROVE TimeStandsStill
    BY <2>4 DEF Lead, Goto, TimeStandsStill
  <2>5. ASSUME NEW c \in Callers, Wake(c) PROVE TimeStandsStill
    BY <2>5 DEF Wake, Goto, TimeStandsStill
  <2>6. ASSUME NEW c \in Callers, Abandon(c) PROVE TimeStandsStill
    BY <2>6 DEF Abandon, Return, Goto, TimeStandsStill
  <2>7. ASSUME NEW c \in Callers, Reread(c) PROVE TimeStandsStill
    BY <2>7 DEF Reread, Return, Goto, TimeStandsStill
  <2>8. ASSUME NEW c \in Callers, LoginIssued(c) PROVE TimeInv'
    <3>1. tok'[c].issuedAt = now /\ UNCHANGED <<now, cached>>
      BY <2>8 DEF LoginIssued
    <3>2. now <= now + loginTimeout
      BY DurationAssumption DEF TypeInv, TypeOK
    <3>3. \A d \in Callers \ {c} : pc'[d] = pc[d] /\ tok'[d] = tok[d]
      BY <2>8 DEF LoginIssued, Goto
    <3> QED
      BY <3>1, <3>2, <3>3 DEF TimeInv, DiesAt
  <2>9. ASSUME NEW c \in Callers, LoginRetried(c) PROVE TimeStandsStill
    BY <2>9 DEF LoginRetried, Goto, TimeStandsStill
  <2>10. ASSUME NEW c \in Callers, LoginFails(c) PROVE TimeStandsStill
    BY <2>10 DEF LoginFails, Goto, TimeStandsStill
  <2>11. ASSUME NEW c \in Callers, StoreToken(c) PROVE TimeInv'
    <3>1. pc[c] = "response" /\ tok[c] \in Token
      BY <2>11, Zenon DEF StoreToken, TypeInv
    <3>2. cached' = [token |-> tok[c], expiresAt |-> now + tok[c].ttl]
          /\ Goto(c, "clear") /\ UNCHANGED <<now, tok>>
      BY <2>11, Zenon DEF StoreToken
    <3>3. now <= tok[c].issuedAt + loginTimeout
      BY <3>1, Zenon DEF TimeInv
    <3>4. now + tok[c].ttl <= tok[c].issuedAt + tok[c].ttl + loginTimeout
      <4>1. tok[c].issuedAt \in Nat /\ tok[c].ttl \in Nat
            /\ now \in Nat /\ loginTimeout \in Nat
        BY <3>1, DurationAssumption DEF Token, TypeInv, TypeOK
      <4> QED
        BY <3>3, <4>1
    <3>5. cached'.expiresAt <= DiesAt(cached'.token) + loginTimeout
      BY <3>2, <3>4 DEF DiesAt
    <3>6. \A d \in Callers : pc'[d] = "response" => pc[d] = "response"
      BY <3>2 DEF Goto
    <3> QED
      BY <3>2, <3>5, <3>6 DEF TimeInv, DiesAt
  <2>12. ASSUME NEW c \in Callers, ClearFlight(c) PROVE TimeStandsStill
    BY <2>12 DEF ClearFlight, Goto, TimeStandsStill
  <2>13. ASSUME NEW c \in Callers, CloseFlight(c) PROVE TimeStandsStill
    BY <2>13 DEF CloseFlight, Goto, TimeStandsStill
  <2>14. ASSUME NEW c \in Callers, Cancel(c) PROVE TimeStandsStill
    BY <2>14 DEF Cancel, TimeStandsStill
  <2>15. ASSUME Invalidate PROVE TimeStandsStill
    BY <2>15 DEF Invalidate, TimeStandsStill
  <2>16. ASSUME Tick PROVE TimeInv'
    <3>1. now' = now + 1 /\ UNCHANGED <<cached, pc, tok>>
          /\ \A c \in Callers :
               pc[c] = "response" => now < tok[c].issuedAt + loginTimeout
      BY <2>16, Zenon DEF Tick, codeVars
    <3>2. \A c \in Callers :
            pc[c] = "response" => now + 1 <= tok[c].issuedAt + loginTimeout
      <4> SUFFICES ASSUME NEW c \in Callers, pc[c] = "response"
                   PROVE  now + 1 <= tok[c].issuedAt + loginTimeout
        OBVIOUS
      <4>1. now < tok[c].issuedAt + loginTimeout
        BY <3>1
      <4>2. now \in Nat /\ tok[c].issuedAt \in Nat /\ loginTimeout \in Nat
        BY DurationAssumption DEF TypeInv, TypeOK, Token
      <4> QED
        BY <4>1, <4>2
    <3> QED
      BY <3>1, <3>2 DEF TimeInv, DiesAt
  <2>17. ASSUME UNCHANGED vars PROVE TimeStandsStill
    BY <2>17 DEF vars, codeVars, TimeStandsStill
  <2> QED
    BY <2>1, <2>2, <2>3, <2>4, <2>5, <2>6, <2>7, <2>8, <2>9, <2>10, <2>11,
       <2>12, <2>13, <2>14, <2>15, <2>16, <2>17, StillKeepsTime
       DEF Next, Run, LoginEnds
<1> QED
  BY <1>1, <1>2, TypeInvCorrect, PTL DEF Spec

\* A token of the cache is alive when it is handed out, because the refresh
\* buffer is no shorter than the HTTP timeout (tokenmanager.go:44-46, 95-100).
THEOREM CachedTokenIsAliveCorrect == Spec => CachedTokenIsAlive
<1>1. TypeInv /\ TimeInv /\ [Next]_vars
      => [\A c \in Callers :
            (TokenHit(c) \/ Reread(c)) /\ tok'[c] # Nil => now < DiesAt(tok'[c])]_vars
  <2> SUFFICES ASSUME TypeInv, TimeInv, NEW c \in Callers,
                      TokenHit(c) \/ Reread(c), tok'[c] # Nil
               PROVE  now < DiesAt(tok'[c])
    OBVIOUS
  <2>1. tok \in [Callers -> Token \cup {Nil}]
    BY Zenon DEF TypeInv, TypeOK
  <2>2. valid(cached) /\ tok'[c] = cached.token
    BY <2>1 DEF TokenHit, Reread, Return
  <2>3. cached \in CachedToken /\ cached # Nil /\ now < cached.expiresAt - refreshBuffer
    BY <2>2, Zenon DEF valid, TypeInv, TypeOK
  <2>4. cached.expiresAt <= cached.token.issuedAt + cached.token.ttl + loginTimeout
    BY <2>3, Zenon DEF TimeInv, DiesAt
  <2>5. now < cached.token.issuedAt + cached.token.ttl
    <3>1. cached.token.issuedAt \in Nat /\ cached.token.ttl \in Nat
          /\ cached.expiresAt \in Nat
      BY <2>3 DEF CachedToken, Token
    <3>2. now \in Nat /\ loginTimeout \in Nat /\ refreshBuffer \in Nat
          /\ loginTimeout <= refreshBuffer
      BY DurationAssumption, TimeoutAssumption DEF TypeInv, TypeOK
    <3> QED
      BY <2>3, <2>4, <3>1, <3>2
  <2> QED
    BY <2>2, <2>5 DEF DiesAt
<1> QED
  BY <1>1, TypeInvCorrect, TimeCorrect, PTL DEF Spec, CachedTokenIsAlive

-----------------------------------------------------------------------------
(***************************************************************************)
(* TokenManager keeps the promise of TokenSource.                          *)
(***************************************************************************)
Asking == {c \in Callers : pc[c] # "done"}
Got == [c \in Callers |->
          IF pc[c] = "done" /\ tok[c] # Nil THEN tok[c].id ELSE 0]

LEMMA GotIsId ==
    ASSUME TypeOK
    PROVE  Got = [c \in Callers |-> IF pc[c] = "done" THEN TokId[c] ELSE 0]
BY DEF TypeOK, Got, TokId, IdOf

\* A call that ends with a token gets one that was minted and is as new as what
\* had been handed out when it began; one that ends without gets 0.
Grants(c, id) ==
    /\ c \in Asking /\ Asking' = Asking \ {c}
    /\ id \in 1..issued /\ id >= since[c]
    /\ Got' = [Got EXCEPT ![c] = id] /\ Given(id)
    /\ UNCHANGED <<issued, since>>
Denies(c) ==
    /\ c \in Asking /\ Asking' = Asking \ {c}
    /\ Got' = [Got EXCEPT ![c] = 0]
    /\ UNCHANGED <<issued, newest, since>>
Asks(c) ==
    /\ c \notin Asking /\ Asking' = Asking \cup {c}
    /\ since' = [since EXCEPT ![c] = newest]
    /\ Got' = [Got EXCEPT ![c] = 0]
    /\ UNCHANGED <<issued, newest>>
GrantsAtOnce(c, id) ==
    /\ c \notin Asking /\ Asking' = Asking
    /\ id \in 1..issued /\ id >= newest
    /\ since' = [since EXCEPT ![c] = newest]
    /\ Got' = [Got EXCEPT ![c] = id] /\ Given(id)
    /\ UNCHANGED issued
MintsForSome ==
    /\ Asking # {} /\ issued' = issued + 1
    /\ UNCHANGED <<Asking, newest, since, Got>>
Silent == UNCHANGED <<Asking, issued, newest, since, Got>>

\* A step of ids is a step of the promise, or none of its business.
LEMMA IdStepIsSourceStep ==
    ASSUME IdTypes, IdInv, NEW c \in Callers, IdStep(c),
           Got = [d \in Callers |-> IF pc[d] = "done" THEN TokId[d] ELSE 0],
           Got' = [d \in Callers |-> IF pc'[d] = "done" THEN TokId'[d] ELSE 0]
    PROVE  \/ \E id \in Nat : Grants(c, id) \/ GrantsAtOnce(c, id)
           \/ Denies(c) \/ Asks(c) \/ MintsForSome \/ Silent
<1> USE DEF IdTypes, Goto, Asking
<1>1. CASE Moves(c)
  <2>1. Silent
    BY <1>1 DEF Moves, ids, Silent
  <2> QED
    BY <2>1
<1>2. CASE Hits(c)
  <2>1. PICK id \in Nat : id = CachedId
    OBVIOUS
  <2>2. GrantsAtOnce(c, id)
    BY <1>2, <2>1 DEF Hits, Begun, Given, GrantsAtOnce, IdInv, OrderInv
  <2> QED
    BY <2>2
<1>3. CASE Misses(c)
  <2>1. Asks(c)
    BY <1>3 DEF Misses, Begun, Asks
  <2> QED
    BY <2>1
<1>4. CASE GivesUp(c)
  <2>1. Denies(c)
    BY <1>4 DEF GivesUp, Denies
  <2> QED
    BY <2>1
<1>5. CASE Finds(c)
  <2>1. PICK id \in Nat : id = CachedId
    OBVIOUS
  <2>2. Grants(c, id)
    BY <1>5, <2>1 DEF Finds, Given, Grants, IdInv, OrderInv
  <2> QED
    BY <2>2
<1>6. CASE Mints(c)
  <2>1. MintsForSome
    BY <1>6 DEF Mints, MintsForSome
  <2> QED
    BY <2>1
<1>7. CASE Drops(c)
  <2>1. Silent
    BY <1>7 DEF Drops, Silent
  <2> QED
    BY <2>1
<1>8. CASE Stores(c)
  <2>1. Silent
    BY <1>8 DEF Stores, Silent
  <2> QED
    BY <2>1
<1>9. CASE Closes(c)
  <2>1. CASE TokId[c] = 0
    <3>1. Denies(c)
      BY <1>9, <2>1 DEF Closes, Given, Denies
    <3> QED
      BY <3>1
  <2>2. CASE TokId[c] # 0
    <3>1. PICK id \in Nat : id = TokId[c]
      OBVIOUS
    <3>2. Grants(c, id)
      BY <1>9, <2>2, <3>1 DEF Closes, Given, Grants, IdInv, OrderInv
    <3> QED
      BY <3>2
  <2> QED
    BY <2>1, <2>2
<1> QED
  BY <1>1, <1>2, <1>3, <1>4, <1>5, <1>6, <1>7, <1>8, <1>9 DEF IdStep

\* Token ends with a token or an error, and nobody is given a token older than
\* one handed out before his call began (tokenmanager.go:66-114).
THEOREM TokenSourceImplemented == Spec => ImplementsTokenSource
<1>1. Init => Source!TokenInit
  BY DEF Init, Source!TokenInit
<1>2. TypeInv /\ TypeOK' /\ IdInv /\ [Next]_vars
      => [Source!TokenNext]_(Source!tokenVars)
  <2> SUFFICES ASSUME TypeInv, TypeOK', IdInv, [Next]_vars
               PROVE  [Source!TokenNext]_(Source!tokenVars)
    OBVIOUS
  <2>1. IdTypes /\ TypeOK
    BY IdsAreTyped, Zenon DEF TypeInv
  <2>2. Got = [d \in Callers |-> IF pc[d] = "done" THEN TokId[d] ELSE 0]
    BY <2>1, GotIsId
  <2>3. Got' = [d \in Callers |-> IF pc'[d] = "done" THEN TokId'[d] ELSE 0]
    BY DEF TypeOK, Got, TokId, IdOf
  <2>4. CASE Silent
    BY <2>4 DEF Silent, Asking, Got, Source!tokenVars
  <2>5. ASSUME NEW c \in Callers, NEW id \in Nat, Grants(c, id)
        PROVE  Source!TokenNext
    <3>1. Source!Grant(c)
      BY <2>5 DEF Grants, Given, Asking, Got, Source!Grant, Source!HandOut
    <3> QED
      BY <3>1 DEF Source!TokenNext
  <2>6. ASSUME NEW c \in Callers, NEW id \in Nat, GrantsAtOnce(c, id)
        PROVE  Source!TokenNext
    <3>1. Source!GrantAtOnce(c)
      BY <2>6 DEF GrantsAtOnce, Given, Asking, Got, Source!GrantAtOnce,
           Source!HandOut
    <3> QED
      BY <3>1 DEF Source!TokenNext
  <2>7. ASSUME NEW c \in Callers, Denies(c) PROVE Source!TokenNext
    <3>1. Source!Deny(c)
      BY <2>7 DEF Denies, Asking, Got, Source!Deny
    <3> QED
      BY <3>1 DEF Source!TokenNext
  <2>8. ASSUME NEW c \in Callers, Asks(c) PROVE Source!TokenNext
    <3>1. Source!Ask(c)
      BY <2>8 DEF Asks, Asking, Got, Source!Ask
    <3> QED
      BY <3>1 DEF Source!TokenNext
  <2>9. ASSUME MintsForSome PROVE Source!TokenNext
    BY <2>9 DEF MintsForSome, Asking, Got, Source!Mint, Source!TokenNext
  <2>10. CASE UNCHANGED <<ids, pc>> \/ Invalidates
    <3>1. Silent
      BY <2>2, <2>3, <2>10 DEF Silent, Asking, ids, Invalidates
    <3> QED
      BY <2>4, <3>1
  <2>11. CASE \E c \in Callers : IdStep(c)
    <3>1. PICK c \in Callers : IdStep(c)
      BY <2>11
    <3>2. \/ \E id \in Nat : Grants(c, id) \/ GrantsAtOnce(c, id)
          \/ Denies(c) \/ Asks(c) \/ MintsForSome \/ Silent
      BY <2>1, <2>2, <2>3, <3>1, IdStepIsSourceStep
    <3> QED
      BY <2>4, <2>5, <2>6, <2>7, <2>8, <2>9, <3>2
  <2> QED
    BY <2>10, <2>11, StepIsIdStep
<1> QED
  BY <1>1, <1>2, TypeInvCorrect, TypeCorrect, IdsCorrect, PTL
     DEF Spec, ImplementsTokenSource, Source!TokenSpec

=============================================================================
