------------------------------ MODULE Exchange ------------------------------
(***************************************************************************)
(* What the transport promises a call of DoJSON, without bodies, limiter,  *)
(* backoffs and statuses: the request is posted at most maxAttempts times, *)
(* never again once it is settled by an answer that is not to be retried,  *)
(* and the call succeeds only when it is settled.  Transport implements    *)
(* it, and SetuClient builds on it.                                        *)
(***************************************************************************)
EXTENDS Integers

CONSTANT Requests

VARIABLES
    maxAttempts,  \* of the client's retry policy
    phase,        \* of each call: idle, busy, done
    sends,        \* how often its request has been posted
    settled,      \* calls whose last answer is final
    outcome       \* pending, ok or error

exchangeVars == <<maxAttempts, phase, sends, settled, outcome>>

ExchangeInit ==
    /\ maxAttempts \in Nat \ {0}
    /\ phase = [r \in Requests |-> "idle"]
    /\ sends = [r \in Requests |-> 0]
    /\ settled = {}
    /\ outcome = [r \in Requests |-> "pending"]

Open(r) ==
    /\ phase[r] = "idle"
    /\ phase' = [phase EXCEPT ![r] = "busy"]
    /\ UNCHANGED <<maxAttempts, sends, settled, outcome>>

\* Retrying without counting the attempts (a mutant).
PostAlways(r) ==
    /\ phase[r] = "busy"
    /\ r \notin settled
    /\ sends' = [sends EXCEPT ![r] = @ + 1]
    /\ UNCHANGED <<maxAttempts, phase, settled, outcome>>

Post(r) ==
    /\ phase[r] = "busy"
    /\ r \notin settled
    /\ sends[r] < maxAttempts
    /\ sends' = [sends EXCEPT ![r] = @ + 1]
    /\ UNCHANGED <<maxAttempts, phase, settled, outcome>>

Settle(r) ==
    /\ phase[r] = "busy"
    /\ sends[r] > 0
    /\ settled' = settled \cup {r}
    /\ UNCHANGED <<maxAttempts, phase, sends, outcome>>

\* A success without a final answer (a mutant).
CloseAnyway(r) ==
    /\ phase[r] = "busy"
    /\ phase' = [phase EXCEPT ![r] = "done"]
    /\ \E o \in {"ok", "error"} : outcome' = [outcome EXCEPT ![r] = o]
    /\ UNCHANGED <<maxAttempts, sends, settled>>

Close(r) ==
    /\ phase[r] = "busy"
    /\ phase' = [phase EXCEPT ![r] = "done"]
    /\ \E o \in {"ok", "error"} :
         /\ o = "ok" => r \in settled
         /\ outcome' = [outcome EXCEPT ![r] = o]
    /\ UNCHANGED <<maxAttempts, sends, settled>>

ExchangeNext == \E r \in Requests : Open(r) \/ Post(r) \/ Settle(r) \/ Close(r)

ExchangeSpec == ExchangeInit /\ [][ExchangeNext]_exchangeVars

=============================================================================
