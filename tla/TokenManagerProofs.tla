------------------------- MODULE TokenManagerProofs -------------------------
(***************************************************************************)
(* Proofs about TokenManager for any set of callers, any durations and any *)
(* bounds: types, and the single flight by the inductive FlightInv.  What  *)
(* the tokens are is proved in TokenFreshnessProofs.                       *)
(***************************************************************************)
EXTENDS TokenManager, TLAPS

\* The lifetime fetchToken gives a token is positive whatever the server's
\* expires_in is (tokenmanager.go:167-170).
LEMMA LifetimePositive ==
    ASSUME NEW e \in ExpiresIn
    PROVE  ttlOf(e) \in Nat \ {0}
<1>1. e \in Int
  BY ExpiresInAssumption
<1>2. tokenTTL \in Nat \ {0}
  BY DurationAssumption
<1> QED
  BY <1>1, <1>2 DEF ttlOf

\* What a login mints is a token.
LEMMA MintedIsToken ==
    ASSUME NEW e \in ExpiresIn, NEW n \in Nat, NEW t \in Nat
    PROVE  [id |-> n + 1, issuedAt |-> t, ttl |-> ttlOf(e)] \in Token
<1>1. n + 1 \in Nat \ {0}
  OBVIOUS
<1> QED
  BY <1>1, LifetimePositive DEF Token

\* The clock and the number of tokens stay natural numbers.
LEMMA SumIsNatural == \A m, n \in Nat : m + n \in Nat
  OBVIOUS

\* newest stays a natural number when a token, or none, is given to a caller.
LEMMA HandOutTyped ==
    ASSUME NEW t \in Token \cup {Nil}, newest \in Nat, HandOut(t)
    PROVE  newest' \in Nat
<1>1. CASE t \in Token
  <2>1. t.id \in Nat
    BY <1>1 DEF Token
  <2> QED
    BY <2>1 DEF HandOut
<1>2. CASE t = Nil
  BY <1>2 DEF HandOut
<1> QED
  BY <1>1, <1>2

\* TypeOK alone is not inductive: StoreToken and Invalidate read the token that
\* is on its way to a leader, which must be one.
TypeInv ==
    /\ TypeOK
    /\ \A c \in Callers : pc[c] = "response" => tok[c] \in Token

\* The types, and a token for whoever is about to store it
\* (tokenmanager.go:129-180).
THEOREM TypeInvCorrect == Spec => []TypeInv
<1>1. Init => TypeInv
  BY DEF Init, TypeInv, TypeOK, Places, Errors
<1>2. TypeInv /\ [Next]_vars => TypeInv'
  <2> SUFFICES ASSUME TypeInv, [Next]_vars PROVE TypeInv'
    OBVIOUS
  <2> USE DEF TypeInv, TypeOK, Token, CachedToken, Goto, Places, Errors, history, codeVars
  <2>1. ASSUME NEW c \in Callers, TokenHit(c) PROVE TypeInv'
    <3>1. cached.token \in Token
      BY <2>1 DEF TokenHit, valid, CachedToken
    <3>2. newest' \in Nat
      BY <2>1, <3>1, HandOutTyped DEF TokenHit, Return
    <3> QED
      BY <2>1, <3>1, <3>2 DEF TokenHit, Begin, Return
  <2>2. ASSUME NEW c \in Callers, TokenMiss(c) PROVE TypeInv'
    BY <2>2 DEF TokenMiss, Begin
  <2>3. ASSUME NEW c \in Callers, Join(c) PROVE TypeInv'
    BY <2>3 DEF Join
  <2>4. ASSUME NEW c \in Callers, Lead(c) PROVE TypeInv'
    BY <2>4 DEF Lead
  <2>5. ASSUME NEW c \in Callers, Wake(c) PROVE TypeInv'
    BY <2>5 DEF Wake
  <2>6. ASSUME NEW c \in Callers, Abandon(c) PROVE TypeInv'
    <3>1. newest' \in Nat
      BY <2>6, HandOutTyped DEF Abandon, Return
    <3> QED
      BY <2>6, <3>1 DEF Abandon, Return
  <2>7. ASSUME NEW c \in Callers, Reread(c) PROVE TypeInv'
    <3>1. CASE valid(cached)
      <4>1. cached.token \in Token
        BY <3>1 DEF valid, CachedToken
      <4>2. newest' \in Nat
        BY <2>7, <3>1, <4>1, HandOutTyped DEF Reread, Return
      <4>3. Return(c, cached.token, "none")
            /\ UNCHANGED <<now, cached, flightCh, waitsFor, issued, history>>
        BY <2>7, <3>1, Zenon DEF Reread
      <4> QED
        BY <4>1, <4>2, <4>3 DEF Return
    <3>2. CASE ~valid(cached)
      <4>1. Return(c, Nil, "refresh failed")
            /\ UNCHANGED <<now, cached, flightCh, waitsFor, issued, history>>
        BY <2>7, <3>2, Zenon DEF Reread
      <4>2. newest' \in Nat
        BY <4>1, HandOutTyped DEF Return
      <4> QED
        BY <4>1, <4>2 DEF Return
    <3> QED
      BY <3>1, <3>2
  <2>8. ASSUME NEW c \in Callers, LoginIssued(c) PROVE TypeInv'
    <3>1. PICK e \in ExpiresIn :
            tok' = [tok EXCEPT ![c] =
                      [id |-> issued + 1, issuedAt |-> now, ttl |-> ttlOf(e)]]
      BY <2>8 DEF LoginIssued
    <3>2. tok'[c] \in Token /\ tok' \in [Callers -> Token \cup {Nil}]
      BY <3>1, MintedIsToken
    <3>3. pc' \in [Callers -> Places] /\ issued' \in Nat
      <4>1. issued' = issued + 1 /\ pc' = [pc EXCEPT ![c] = "response"]
        BY <2>8, Zenon DEF LoginIssued
      <4>2. issued' \in Nat
        BY <4>1, SumIsNatural, Zenon
      <4> QED
        BY <4>1, <4>2
    <3>4. pc' = [pc EXCEPT ![c] = "response"]
          /\ UNCHANGED <<now, cached, flightCh, waitsFor, err, cancelled, history,
                         newest>>
      BY <2>8, Zenon DEF LoginIssued
    <3>5. \A d \in Callers \ {c} : tok'[d] = tok[d]
      BY <3>1
    <3> QED
      BY <3>2, <3>3, <3>4, <3>5
  <2>9. ASSUME NEW c \in Callers, LoginRetried(c) PROVE TypeInv'
    BY <2>9 DEF LoginRetried
  <2>10. ASSUME NEW c \in Callers, LoginFails(c) PROVE TypeInv'
    BY <2>10 DEF LoginFails
  <2>11. ASSUME NEW c \in Callers, StoreToken(c) PROVE TypeInv'
    <3>1. tok[c] \in Token
      BY <2>11 DEF StoreToken
    <3>2. now + tok[c].ttl \in Nat
      <4>1. now \in Nat /\ tok[c].ttl \in Nat
        BY <3>1
      <4> QED
        BY <4>1, SumIsNatural, Zenon
    <3>3. cached' \in CachedToken
      BY <2>11, <3>1, <3>2 DEF StoreToken
    <3>4. pc' = [pc EXCEPT ![c] = "clear"]
          /\ UNCHANGED <<now, flightCh, waitsFor, tok, err, cancelled, issued,
                         history, newest>>
      BY <2>11, Zenon DEF StoreToken
    <3> QED
      BY <3>3, <3>4
  <2>12. ASSUME NEW c \in Callers, ClearFlight(c) PROVE TypeInv'
    BY <2>12 DEF ClearFlight
  <2>13. ASSUME NEW c \in Callers, CloseFlight(c) PROVE TypeInv'
    <3>1. newest' \in Nat
      BY <2>13, HandOutTyped DEF CloseFlight
    <3>2. landed' \in [Callers -> Nat]
      BY <2>13 DEF CloseFlight
    <3>3. pc' = [pc EXCEPT ![c] = "done"]
          /\ waitsFor' \in [Callers -> Callers \cup {Nil}]
          /\ UNCHANGED <<now, cached, flightCh, tok, err, cancelled, issued,
                         floor, startFloor, overlapped, since>>
      BY <2>13 DEF CloseFlight
    <3> QED
      BY <3>1, <3>2, <3>3
  <2>14. ASSUME NEW c \in Callers, Cancel(c) PROVE TypeInv'
    BY <2>14 DEF Cancel
  <2>15. CASE Invalidate
    <3> DEFINE underWay ==
                 {tok[c].id : c \in {d \in Callers : pc[d] = "response"}}
    <3>1. underWay \subseteq Nat
      OBVIOUS
    <3>2. overlapped' = overlapped \cup underWay
      BY <2>15, Zenon DEF Invalidate
    <3>3. overlapped' \subseteq Nat
      BY <3>1, <3>2
    <3> QED
      BY <2>15, <3>3 DEF Invalidate
  <2>16. CASE Tick
    <3>1. now' = now + 1 /\ UNCHANGED <<codeVars, issued, history, newest>>
      BY <2>16, Zenon DEF Tick
    <3>2. now' \in Nat
      BY <3>1, SumIsNatural, Zenon
    <3> QED
      BY <3>1, <3>2, Zenon
  <2>17. CASE UNCHANGED vars
    BY <2>17 DEF vars
  <2> QED
    BY <2>1, <2>2, <2>3, <2>4, <2>5, <2>6, <2>7, <2>8, <2>9, <2>10, <2>11,
       <2>12, <2>13, <2>14, <2>15, <2>16, <2>17 DEF Next, Run, LoginEnds
<1> QED
  BY <1>1, <1>2, PTL DEF Spec

\* Every variable keeps its type (mutable state of tokenmanager.go:44-180).
THEOREM TypeCorrect == Spec => []TypeOK
<1>1. TypeInv => TypeOK
  BY DEF TypeInv
<1> QED
  BY <1>1, TypeInvCorrect, PTL

-----------------------------------------------------------------------------
(***************************************************************************)
(* The single flight.  FlightInv says who owns flightCh and whom a blocked *)
(* waiter is blocked on; it speaks of control only, so the steps are first *)
(* reduced to what they do to pc, flightCh and waitsFor.                   *)
(***************************************************************************)
FlightTypes ==
    /\ flightCh \in Callers \cup {Nil}
    /\ pc \in [Callers -> Places]
    /\ waitsFor \in [Callers -> Callers \cup {Nil}]

FlightInv ==
    /\ \A c \in Callers : HoldsFlight(c) <=> flightCh = c
    /\ \A c \in Callers :
         waitsFor[c] # Nil => pc[c] = "wait" /\ Leading(waitsFor[c])

\* A step of c that leaves the channels alone and keeps c on its side of the
\* flight: inside it, or outside and not blocked.
StaysInPlace(c) ==
    /\ UNCHANGED <<flightCh, waitsFor>>
    /\ \E place \in Places :
         /\ Goto(c, place)
         /\ place # "close"
         /\ place \in {"login", "response", "clear"} <=> HoldsFlight(c)
    /\ pc[c] # "close"
    /\ waitsFor[c] = Nil \/ HoldsFlight(c)

FlightStep(c) ==
    \/ StaysInPlace(c)
    \/ /\ pc[c] = "refresh" /\ flightCh # Nil
       /\ waitsFor' = [waitsFor EXCEPT ![c] = flightCh]
       /\ Goto(c, "wait") /\ UNCHANGED flightCh
    \/ /\ pc[c] = "refresh" /\ flightCh = Nil
       /\ flightCh' = c /\ Goto(c, "login") /\ UNCHANGED waitsFor
    \/ /\ pc[c] = "wait"
       /\ waitsFor' = [waitsFor EXCEPT ![c] = Nil]
       /\ Goto(c, "done") /\ UNCHANGED flightCh
    \/ /\ pc[c] = "clear"
       /\ flightCh' = Nil /\ Goto(c, "close") /\ UNCHANGED waitsFor
    \/ /\ pc[c] = "close"
       /\ waitsFor' = [w \in Callers |->
                         IF waitsFor[w] = c THEN Nil ELSE waitsFor[w]]
       /\ Goto(c, "done") /\ UNCHANGED flightCh

\* A caller that is in none of the places of a wait is blocked on nothing.
LEMMA NotWaiting ==
    ASSUME FlightInv, NEW c \in Callers, pc[c] # "wait"
    PROVE  waitsFor[c] = Nil
BY DEF FlightInv

\* Every step of the code is one of the control steps above, or leaves the
\* control alone (tokenmanager.go:66-114).
LEMMA StepIsFlightStep ==
    ASSUME FlightTypes, FlightInv, [Next]_vars
    PROVE  \/ UNCHANGED <<pc, flightCh, waitsFor>>
           \/ \E c \in Callers : FlightStep(c)
<1>1. ASSUME NEW c \in Callers, TokenHit(c) PROVE StaysInPlace(c)
  <2>1. pc[c] = "done" /\ Goto(c, "done") /\ UNCHANGED <<flightCh, waitsFor>>
    BY <1>1, Zenon DEF TokenHit, Begin, Return
  <2> QED
    BY <2>1, NotWaiting DEF StaysInPlace, HoldsFlight, Places
<1>2. ASSUME NEW c \in Callers, TokenMiss(c) PROVE StaysInPlace(c)
  <2>1. pc[c] = "done" /\ Goto(c, "refresh") /\ UNCHANGED <<flightCh, waitsFor>>
    BY <1>2, Zenon DEF TokenMiss, Begin
  <2> QED
    BY <2>1, NotWaiting DEF StaysInPlace, HoldsFlight, Places
<1>3. ASSUME NEW c \in Callers, Join(c) PROVE FlightStep(c)
  BY <1>3, Zenon DEF Join, FlightStep
<1>4. ASSUME NEW c \in Callers, Lead(c) PROVE FlightStep(c)
  BY <1>4, Zenon DEF Lead, FlightStep
<1>5. ASSUME NEW c \in Callers, Wake(c) PROVE StaysInPlace(c)
  <2>1. pc[c] = "wait" /\ waitsFor[c] = Nil /\ Goto(c, "reread")
        /\ UNCHANGED <<flightCh, waitsFor>>
    BY <1>5, Zenon DEF Wake
  <2> QED
    BY <2>1 DEF StaysInPlace, HoldsFlight, Places
<1>6. ASSUME NEW c \in Callers, Abandon(c) PROVE FlightStep(c)
  BY <1>6, Zenon DEF Abandon, Return, FlightStep
<1>7. ASSUME NEW c \in Callers, Reread(c) PROVE StaysInPlace(c)
  <2>1. pc[c] = "reread" /\ Goto(c, "done") /\ UNCHANGED <<flightCh, waitsFor>>
    BY <1>7, Zenon DEF Reread, Return
  <2> QED
    BY <2>1, NotWaiting DEF StaysInPlace, HoldsFlight, Places
<1>8. ASSUME NEW c \in Callers, LoginIssued(c) PROVE StaysInPlace(c)
  <2>1. pc[c] = "login" /\ Goto(c, "response") /\ UNCHANGED <<flightCh, waitsFor>>
    BY <1>8, Zenon DEF LoginIssued
  <2> QED
    BY <2>1 DEF StaysInPlace, HoldsFlight, Places
<1>9. ASSUME NEW c \in Callers, LoginRetried(c) PROVE StaysInPlace(c)
  <2>1. pc[c] = "response" /\ Goto(c, "login") /\ UNCHANGED <<flightCh, waitsFor>>
    BY <1>9, Zenon DEF LoginRetried
  <2> QED
    BY <2>1 DEF StaysInPlace, HoldsFlight, Places
<1>10. ASSUME NEW c \in Callers, LoginFails(c) PROVE StaysInPlace(c)
  <2>1. pc[c] \in {"login", "response"} /\ Goto(c, "clear")
        /\ UNCHANGED <<flightCh, waitsFor>>
    BY <1>10, Zenon DEF LoginFails
  <2> QED
    BY <2>1 DEF StaysInPlace, HoldsFlight, Places
<1>11. ASSUME NEW c \in Callers, StoreToken(c) PROVE StaysInPlace(c)
  <2>1. pc[c] = "response" /\ Goto(c, "clear") /\ UNCHANGED <<flightCh, waitsFor>>
    BY <1>11, Zenon DEF StoreToken
  <2> QED
    BY <2>1 DEF StaysInPlace, HoldsFlight, Places
<1>12. ASSUME NEW c \in Callers, ClearFlight(c) PROVE FlightStep(c)
  BY <1>12, Zenon DEF ClearFlight, FlightStep
<1>13. ASSUME NEW c \in Callers, CloseFlight(c) PROVE FlightStep(c)
  BY <1>13, Zenon DEF CloseFlight, FlightStep
<1>14. ASSUME NEW c \in Callers, Cancel(c)
       PROVE  UNCHANGED <<pc, flightCh, waitsFor>>
  BY <1>14, Zenon DEF Cancel
<1>15. ASSUME Invalidate PROVE UNCHANGED <<pc, flightCh, waitsFor>>
  BY <1>15, Zenon DEF Invalidate
<1>16. ASSUME Tick PROVE UNCHANGED <<pc, flightCh, waitsFor>>
  BY <1>16, Zenon DEF Tick, codeVars
<1>17. ASSUME UNCHANGED vars PROVE UNCHANGED <<pc, flightCh, waitsFor>>
  BY <1>17, Zenon DEF vars, codeVars
<1> QED
  BY <1>1, <1>2, <1>3, <1>4, <1>5, <1>6, <1>7, <1>8, <1>9, <1>10, <1>11,
     <1>12, <1>13, <1>14, <1>15, <1>16, <1>17
     DEF Next, Run, LoginEnds, FlightStep

\* A control step keeps the ownership of the channels.
LEMMA FlightStepKeepsInv ==
    ASSUME FlightTypes, FlightInv, NEW c \in Callers, FlightStep(c)
    PROVE  FlightInv'
<1> USE NilAssumption DEF FlightTypes, FlightInv, HoldsFlight, Leading, Goto
<1>1. CASE StaysInPlace(c)
  BY <1>1 DEF StaysInPlace
<1>2. CASE /\ pc[c] = "refresh" /\ flightCh # Nil
           /\ waitsFor' = [waitsFor EXCEPT ![c] = flightCh]
           /\ Goto(c, "wait") /\ UNCHANGED flightCh
  BY <1>2
<1>3. CASE /\ pc[c] = "refresh" /\ flightCh = Nil
           /\ flightCh' = c /\ Goto(c, "login") /\ UNCHANGED waitsFor
  BY <1>3
<1>4. CASE /\ pc[c] = "wait"
           /\ waitsFor' = [waitsFor EXCEPT ![c] = Nil]
           /\ Goto(c, "done") /\ UNCHANGED flightCh
  BY <1>4
<1>5. CASE /\ pc[c] = "clear"
           /\ flightCh' = Nil /\ Goto(c, "close") /\ UNCHANGED waitsFor
  BY <1>5
<1>6. CASE /\ pc[c] = "close"
           /\ waitsFor' = [w \in Callers |->
                             IF waitsFor[w] = c THEN Nil ELSE waitsFor[w]]
           /\ Goto(c, "done") /\ UNCHANGED flightCh
  BY <1>6
<1> QED
  BY <1>1, <1>2, <1>3, <1>4, <1>5, <1>6 DEF FlightStep

\* flightCh has one owner and blocked waiters have a leader that will close.
THEOREM FlightCorrect == Spec => []FlightInv
<1>1. Init => FlightInv
  BY NilAssumption DEF Init, FlightInv, HoldsFlight
<1>2. TypeOK /\ FlightInv /\ [Next]_vars => FlightInv'
  <2> SUFFICES ASSUME TypeOK, FlightInv, [Next]_vars PROVE FlightInv'
    OBVIOUS
  <2>1. FlightTypes
    BY Zenon DEF TypeOK, FlightTypes
  <2>2. CASE UNCHANGED <<pc, flightCh, waitsFor>>
    BY <2>2 DEF FlightInv, HoldsFlight, Leading
  <2>3. CASE \E c \in Callers : FlightStep(c)
    BY <2>1, <2>3, FlightStepKeepsInv
  <2> QED
    BY <2>1, <2>2, <2>3, StepIsFlightStep
<1> QED
  BY <1>1, <1>2, TypeCorrect, PTL DEF Spec

\* The single flight: no two logins run at once (tokenmanager.go:85-111).
THEOREM SingleLoginCorrect == Spec => []SingleLogin
<1>1. FlightInv => SingleLogin
  BY DEF FlightInv, SingleLogin
<1> QED
  BY <1>1, FlightCorrect, PTL

\* No waiter is blocked on a channel that nobody will close
\* (tokenmanager.go:87-94, 108-111).
THEOREM NoLostWakeupCorrect == Spec => []NoLostWakeup
<1>1. FlightInv => NoLostWakeup
  BY DEF FlightInv, NoLostWakeup
<1> QED
  BY <1>1, FlightCorrect, PTL

=============================================================================
