------------------------------- MODULE Webhook -------------------------------
(***************************************************************************)
(* webhook/handler.go: ServeHTTP and dispatch, run concurrently by net/http*)
(* for a sender (external) that delivers each event until it sees a 200,   *)
(* possibly several times at once.  The process may crash between any two  *)
(* steps; the handler keeps nothing across a crash.                        *)
(*                                                                         *)
(* A payload is what dispatch tells apart: whether it is JSON, its type and*)
(* eventType (a value stands for every constant routed alike), whether the *)
(* typed decoding of the callback's notification succeeds, and whether it  *)
(* has a non-empty events array.                                           *)
(***************************************************************************)
EXTENDS Integers, FiniteSets

CONSTANTS
    Events,      \* notifications the sender has to deliver
    Workers,     \* deliveries the server handles at the same time
    PayloadsOf,  \* what the body of each event may be
    Configs,     \* sets of callbacks that may be non-nil
    MaxFaults    \* bound: crashes, panics, lost requests and lost answers

Callbacks == {"OnConsentUpdate", "OnSessionUpdate", "OnBBPSSettlement",
              "OnPaymentUpdate", "OnMandateUpdate", "OnRefundUpdate",
              "OnDisputeUpdate"}

AnyPayload ==
    [json : BOOLEAN, type : {"", "CONSENT_STATUS_UPDATE", "SESSION_STATUS_UPDATE",
                             "other"},
     eventType : {"", "payment", "mandate", "refund", "dispute", "other"},
     decodes : BOOLEAN, hasEvents : BOOLEAN]

ASSUME EventsAssumption == Events # {}
ASSUME PayloadAssumption == PayloadsOf \in [Events -> SUBSET AnyPayload]
ASSUME ConfigAssumption == Configs \subseteq SUBSET Callbacks
ASSUME FaultAssumption == MaxFaults \in Nat

VARIABLES
    config,     \* the callbacks that are not nil
    payload,    \* the body of each event
    pc,         \* where each delivery is in ServeHTTP
    event,      \* the event of each delivery
    acked,      \* events for which the sender has seen a 200
    calls,      \* the callbacks that have run to their end for each event
    faults

constants == <<config, payload>>
vars == <<constants, pc, event, acked, calls, faults>>

Places == {"idle", "read", "dispatch", "callback", "respond"}

Init ==
    /\ config \in Configs
    /\ payload \in {p \in [Events -> AnyPayload] :
                      \A e \in Events : p[e] \in PayloadsOf[e]}
    /\ pc = [w \in Workers |-> "idle"]
    /\ event = [w \in Workers |-> CHOOSE e \in Events : TRUE]
    /\ acked = {}
    /\ calls = [e \in Events |-> {}]
    /\ faults = 0

Goto(w, place) == pc' = [pc EXCEPT ![w] = place]
Fault == faults < MaxFaults /\ faults' = faults + 1

\* The switch on type: an AA notification is never looked at as anything else.
AACallback(p) ==
    CASE p.type = "CONSENT_STATUS_UPDATE" -> "OnConsentUpdate"
      [] p.type = "SESSION_STATUS_UPDATE" -> "OnSessionUpdate"
      [] OTHER -> "none"

\* A settlement has an events array and neither type nor eventType.
BBPSCallback(p) ==
    IF p.type = "" /\ p.eventType = "" /\ p.hasEvents
    THEN "OnBBPSSettlement" ELSE "none"

\* The switch on eventType.
UPICallback(p) ==
    CASE p.eventType = "payment" -> "OnPaymentUpdate"
      [] p.eventType = "mandate" -> "OnMandateUpdate"
      [] p.eventType = "refund"  -> "OnRefundUpdate"
      [] p.eventType = "dispute" -> "OnDisputeUpdate"
      [] OTHER -> "none"

\* A nil OnConsentUpdate that does not end the dispatch (a mutant).
RouteFallsThrough(p) ==
    IF AACallback(p) \in config THEN AACallback(p)
    ELSE IF BBPSCallback(p) # "none" THEN BBPSCallback(p) ELSE UPICallback(p)

\* The callback dispatch arrives at; it is invoked when it is not nil and the
\* notification decodes.
Route(p) ==
    IF AACallback(p) # "none" THEN AACallback(p)
    ELSE IF BBPSCallback(p) # "none" THEN BBPSCallback(p) ELSE UPICallback(p)

Invokes(p) == p.json /\ p.decodes /\ Route(p) \in config

-----------------------------------------------------------------------------
\* The sender posts an event it has no 200 for; a copy may be on its way.
Deliver(w) ==
    /\ pc[w] = "idle"
    /\ \E e \in Events \ acked : event' = [event EXCEPT ![w] = e]
    /\ Goto(w, "read")
    /\ UNCHANGED <<constants, acked, calls, faults>>

ReadBody(w) ==
    /\ pc[w] = "read"
    /\ Goto(w, "dispatch")
    /\ UNCHANGED <<constants, event, acked, calls, faults>>

\* io.ReadAll fails: 400, and the sender has to deliver again.
ReadFails(w) ==
    /\ pc[w] = "read"
    /\ Fault
    /\ Goto(w, "idle")
    /\ UNCHANGED <<constants, event, acked, calls>>

\* WriteHeader before dispatch (a mutant).
DispatchAcknowledged(w) ==
    /\ pc[w] = "dispatch"
    /\ acked' = acked \cup {event[w]}
    /\ Goto(w, IF Invokes(payload[event[w]]) THEN "callback" ELSE "respond")
    /\ UNCHANGED <<constants, event, calls, faults>>

\* Cases that fall through to the next ones, with callbacks that may be nil (a
\* mutant).
DispatchTwice(w) ==
    /\ pc[w] = "dispatch"
    /\ calls' = [calls EXCEPT ![event[w]] =
                   @ \cup {AACallback(payload[event[w]]), UPICallback(payload[event[w]])}]
    /\ Goto(w, "respond")
    /\ UNCHANGED <<constants, event, acked, faults>>

\* dispatch, up to the callback.  What is not invoked is at most logged.
Dispatch(w) ==
    /\ pc[w] = "dispatch"
    /\ Goto(w, IF Invokes(payload[event[w]]) THEN "callback" ELSE "respond")
    /\ UNCHANGED <<constants, event, acked, calls, faults>>

CallbackReturns(w) ==
    /\ pc[w] = "callback"
    /\ calls' = [calls EXCEPT ![event[w]] = @ \cup {Route(payload[event[w]])}]
    /\ Goto(w, "respond")
    /\ UNCHANGED <<constants, event, acked, faults>>

\* net/http recovers the panic of a callback and drops the connection.
CallbackPanics(w) ==
    /\ pc[w] = "callback"
    /\ Fault
    /\ Goto(w, "idle")
    /\ UNCHANGED <<constants, event, acked, calls>>

\* The handler returns without an answer for what it did not invoke (a mutant).
RespondWhenCalled(w) ==
    /\ pc[w] = "respond"
    /\ acked' = IF calls[event[w]] = {} THEN acked ELSE acked \cup {event[w]}
    /\ Goto(w, "idle")
    /\ UNCHANGED <<constants, event, calls, faults>>

Respond(w) ==
    /\ pc[w] = "respond"
    /\ acked' = acked \cup {event[w]}
    /\ Goto(w, "idle")
    /\ UNCHANGED <<constants, event, calls, faults>>

\* The 200 does not reach the sender.
RespondLost(w) ==
    /\ pc[w] = "respond"
    /\ Fault
    /\ Goto(w, "idle")
    /\ UNCHANGED <<constants, event, acked, calls>>

\* The process dies and is started again: every delivery is cut off.
Crash ==
    /\ \E w \in Workers : pc[w] # "idle"
    /\ Fault
    /\ pc' = [w \in Workers |-> "idle"]
    /\ UNCHANGED <<constants, event, acked, calls>>

\* Nothing is left to deliver.
AllAcked == acked = Events /\ (\A w \in Workers : pc[w] = "idle") /\ UNCHANGED vars

Serve(w) == ReadBody(w) \/ Dispatch(w) \/ CallbackReturns(w) \/ Respond(w)

Next ==
    \/ \E w \in Workers :
         \/ Deliver(w) \/ Serve(w)
         \/ ReadFails(w) \/ CallbackPanics(w) \/ RespondLost(w)
    \/ Crash
    \/ AllAcked

Spec == Init /\ [][Next]_vars

\* The sender keeps delivering every event it has no 200 for, and a delivery
\* that is being served goes on.
Redeliver(e) == \E w \in Workers : Deliver(w) /\ event'[w] = e
FairSpec ==
    /\ Spec
    /\ \A e \in Events : SF_vars(Redeliver(e))
    /\ \A w \in Workers : WF_vars(Serve(w))

-----------------------------------------------------------------------------
(***************************************************************************)
(* Properties                                                              *)
(***************************************************************************)

\* The family of UPI callbacks for each family of event types.
UPIFamilies ==
    {<<"payment", "OnPaymentUpdate">>, <<"mandate", "OnMandateUpdate">>,
     <<"refund", "OnRefundUpdate">>, <<"dispute", "OnDisputeUpdate">>}

\* The callback a notification is meant for, by its documented shape: type for
\* Account Aggregator, eventType for UPI, an events array for BBPS.
MeantFor(p) ==
    CASE p.type = "CONSENT_STATUS_UPDATE" -> {"OnConsentUpdate"}
      [] p.type = "SESSION_STATUS_UPDATE" -> {"OnSessionUpdate"}
      [] p.type = "" /\ p.eventType = "" /\ p.hasEvents -> {"OnBBPSSettlement"}
      [] OTHER -> {callback \in Callbacks : <<p.eventType, callback>> \in UPIFamilies}

\* The program wants this event: it is meant for a callback that is set, and it
\* can be decoded.
Wanted(e) ==
    /\ payload[e].json
    /\ payload[e].decodes
    /\ MeantFor(payload[e]) \cap config # {}

\* Every variable has its type.
TypeOK ==
    /\ config \in Configs
    /\ payload \in [Events -> AnyPayload]
    /\ pc \in [Workers -> Places]
    /\ event \in [Workers -> Events]
    /\ acked \subseteq Events
    /\ calls \in [Events -> SUBSET Callbacks]
    /\ faults \in 0..MaxFaults

\* No accepted event is lost: when the sender has seen a 200 for an event the
\* program wants, its callback has run to the end, whatever crashed, panicked or
\* was delivered twice in between.
AckedIsHandled == \A e \in acked : Wanted(e) => calls[e] # {}

\* A callback runs only for notifications of its own kind, and only when it is
\* set: an AA notification without its callback never reaches a UPI callback.
RightCallback ==
    \A e \in Events : calls[e] \subseteq MeantFor(payload[e]) \cap config

\* The handler as Delivery sees it.
Deliveries ==
    INSTANCE Delivery WITH
        wanted <- {e \in Events : Wanted(e)},
        handled <- {e \in Events : calls[e] # {}},
        accepted <- acked

\* At-least-once delivery: each step of the handler, of the sender and of the
\* faults handles one event, accepts one, or changes nothing of either; a crash,
\* a panic or a lost answer takes nothing back, and no event is handled that the
\* program does not want.
ImplementsDelivery == Deliveries!DeliverySpec

\* The sender gets rid of every event, wanted or not, decodable or not: no event
\* is redelivered for ever, and by AckedIsHandled the wanted ones were handled.
EveryEventIsAcked == \A e \in Events : <>(e \in acked)

=============================================================================
