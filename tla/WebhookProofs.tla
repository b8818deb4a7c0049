---------------------------- MODULE WebhookProofs ----------------------------
(***************************************************************************)
(* Proofs about Webhook, for any events, deliveries at the same time, sets *)
(* of callbacks and number of faults.                                      *)
(***************************************************************************)
EXTENDS Webhook, TLAPS

\* A delivery is at its callback only when the callback is to be invoked, and
\* answers for a wanted event only when a callback has run.
DeliveryInv ==
    \A w \in Workers :
        /\ pc[w] = "callback" => Invokes(payload[event[w]])
        /\ pc[w] = "respond" /\ Wanted(event[w]) => calls[event[w]] # {}

WebhookInv == TypeOK /\ RightCallback /\ AckedIsHandled /\ DeliveryInv

\* The dispatch arrives at the callback a notification is meant for, whatever
\* the payload; of the others it names none (handler.go:239-347).
LEMMA RouteIsMeant ==
    ASSUME NEW p \in AnyPayload
    PROVE  /\ MeantFor(p) \subseteq {Route(p)}
           /\ Route(p) \in Callbacks => MeantFor(p) = {Route(p)}
<1>1. UPICallback(p) \in Callbacks \cup {"none"}
  BY DEF UPICallback, Callbacks
<1>2. CASE p.type \in {"CONSENT_STATUS_UPDATE", "SESSION_STATUS_UPDATE"}
  BY <1>2 DEF MeantFor, Route, AACallback
<1>3. CASE p.type \notin {"CONSENT_STATUS_UPDATE", "SESSION_STATUS_UPDATE"}
  <2>1. AACallback(p) = "none"
    BY <1>3 DEF AACallback
  <2>2. CASE p.type = "" /\ p.eventType = "" /\ p.hasEvents
    BY <1>3, <2>1, <2>2 DEF MeantFor, Route, BBPSCallback
  <2>3. CASE ~(p.type = "" /\ p.eventType = "" /\ p.hasEvents)
    <3>1. MeantFor(p) = {UPICallback(p)} \cap Callbacks
      <4>1. MeantFor(p) =
              {callback \in Callbacks : <<p.eventType, callback>> \in UPIFamilies}
        BY <1>3, <2>3 DEF MeantFor
      <4>2. \A callback \in Callbacks :
              <<p.eventType, callback>> \in UPIFamilies <=> callback = UPICallback(p)
        BY DEF UPIFamilies, UPICallback, Callbacks
      <4> QED
        BY <4>1, <4>2
    <3>2. Route(p) = UPICallback(p)
      BY <2>1, <2>3 DEF Route, BBPSCallback
    <3> QED
      BY <3>1, <3>2
  <2> QED
    BY <2>2, <2>3
<1> QED
  BY <1>2, <1>3

\* A notification is invoked exactly when the program wants it.
LEMMA InvokedIsWanted ==
    ASSUME TypeOK, NEW e \in Events
    PROVE  /\ Invokes(payload[e]) => Route(payload[e]) \in MeantFor(payload[e]) \cap config
           /\ Wanted(e) => Invokes(payload[e])
<1>1. config \subseteq Callbacks /\ payload[e] \in AnyPayload
  BY ConfigAssumption DEF TypeOK
<1> QED
  BY <1>1, RouteIsMeant DEF Invokes, Wanted

\* Faults stay within their bound.
LEMMA FaultCounted ==
    ASSUME faults \in 0..MaxFaults, Fault PROVE faults' \in 0..MaxFaults
BY FaultAssumption DEF Fault

\* A delivery that ends, or begins, without a callback.
LEMMA IdleKeepsInv ==
    ASSUME WebhookInv, NEW w \in Workers, NEW place \in {"idle", "read", "dispatch"},
           pc' = [pc EXCEPT ![w] = place],
           event' \in [Workers -> Events], \A v \in Workers \ {w} : event'[v] = event[v],
           acked' \subseteq Events,
           \A e \in acked' : e \in acked \/ (e = event[w] /\ pc[w] = "respond"),
           faults' \in 0..MaxFaults, UNCHANGED <<constants, calls>>
    PROVE  WebhookInv'
<1>1. UNCHANGED <<config, payload>>
  BY DEF constants
<1>2. TypeOK'
  BY <1>1 DEF WebhookInv, TypeOK, Places
<1>3. \A p : (MeantFor(p)' = MeantFor(p)) /\ (Invokes(p)' <=> Invokes(p))
  BY <1>1 DEF MeantFor, Invokes, Route, AACallback, BBPSCallback, UPICallback
<1>4. RightCallback' /\ \A e \in Events : Wanted(e)' <=> Wanted(e)
  BY <1>1 DEF WebhookInv, RightCallback, Wanted, MeantFor, UPICallback
<1>5. AckedIsHandled'
  BY <1>4 DEF WebhookInv, AckedIsHandled, DeliveryInv, TypeOK
<1>6. DeliveryInv'
  <2>1. \A v \in Workers : pc'[v] \in {"callback", "respond"} =>
                            pc'[v] = pc[v] /\ event'[v] = event[v] /\ event[v] \in Events
    BY DEF WebhookInv, TypeOK
  <2>2. \A v \in Workers : pc'[v] = "callback" => Invokes(payload[event'[v]])
    BY <2>1 DEF WebhookInv, DeliveryInv
  <2>3. \A v \in Workers : pc'[v] = "callback" => Invokes(payload[event[v]])'
    BY <2>2, <1>1, <1>3
  <2>4. \A v \in Workers : pc'[v] = "respond" /\ Wanted(event[v])' => calls[event[v]]' # {}
    BY <2>1, <1>4 DEF WebhookInv, DeliveryInv
  <2> QED
    BY <2>3, <2>4 DEF DeliveryInv
<1> QED
  BY <1>2, <1>4, <1>5, <1>6 DEF WebhookInv

\* dispatch goes to the callback only when it is to be invoked, and answers
\* without one only what the program does not want.
LEMMA DispatchKeepsInv ==
    ASSUME WebhookInv, NEW w \in Workers, Dispatch(w) PROVE WebhookInv'
<1>1. /\ UNCHANGED <<config, payload, event, acked, calls, faults>>
      /\ pc[w] = "dispatch"
      /\ pc' = [pc EXCEPT ![w] = IF Invokes(payload[event[w]]) THEN "callback" ELSE "respond"]
  BY DEF Dispatch, Goto, constants
<1>2. TypeOK'
  BY <1>1 DEF WebhookInv, TypeOK, Places
<1>3. \A p : (MeantFor(p)' = MeantFor(p)) /\ (Invokes(p)' <=> Invokes(p))
  BY <1>1 DEF MeantFor, Invokes, Route, AACallback, BBPSCallback, UPICallback
<1>4. RightCallback' /\ \A e \in Events : Wanted(e)' <=> Wanted(e)
  BY <1>1 DEF WebhookInv, RightCallback, Wanted, MeantFor, UPICallback
<1>5. AckedIsHandled'
  BY <1>1, <1>4 DEF WebhookInv, AckedIsHandled, TypeOK
<1>6. \A e \in Events : Wanted(e) => Invokes(payload[e])
  BY InvokedIsWanted DEF WebhookInv
<1>7. ASSUME NEW v \in Workers
      PROVE  /\ pc'[v] = "callback" => Invokes(payload[event[v]])
             /\ pc'[v] = "respond" /\ Wanted(event[v]) => calls[event[v]] # {}
  <2>1. event[v] \in Events
    BY <1>7 DEF WebhookInv, TypeOK
  <2>2. CASE v = w
    <3>1. pc'[v] = IF Invokes(payload[event[v]]) THEN "callback" ELSE "respond"
      BY <1>1, <2>2 DEF WebhookInv, TypeOK
    <3> QED
      BY <3>1, <2>1, <1>6
  <2>3. CASE v # w
    <3>1. pc'[v] = pc[v]
      BY <1>1, <2>3 DEF WebhookInv, TypeOK
    <3> QED
      BY <3>1, <1>7 DEF WebhookInv, DeliveryInv
  <2> QED
    BY <2>2, <2>3
<1>8. DeliveryInv'
  <2>1. \A v \in Workers : pc'[v] = "callback" => Invokes(payload[event[v]])'
    BY <1>7, <1>1, <1>3
  <2>2. \A v \in Workers : pc'[v] = "respond" /\ Wanted(event[v])' => calls[event[v]]' # {}
    BY <1>7, <1>1, <1>4 DEF WebhookInv, TypeOK
  <2> QED
    BY <2>1, <2>2 DEF DeliveryInv
<1> QED
  BY <1>2, <1>4, <1>5, <1>8 DEF WebhookInv

\* A callback that has run is one the notification was meant for, and from then
\* on the event may be answered for.
LEMMA CallbackKeepsInv ==
    ASSUME WebhookInv, NEW w \in Workers, CallbackReturns(w) PROVE WebhookInv'
<1> DEFINE done == event[w]
           ran == Route(payload[done])
<1>1. /\ UNCHANGED <<config, payload, event, acked, faults>>
      /\ pc[w] = "callback"
      /\ pc' = [pc EXCEPT ![w] = "respond"]
      /\ calls' = [calls EXCEPT ![done] = @ \cup {ran}]
  BY DEF CallbackReturns, Goto, constants
<1>2. done \in Events /\ config \subseteq Callbacks
  BY ConfigAssumption DEF WebhookInv, TypeOK
<1>3. Invokes(payload[done])
  BY <1>1 DEF WebhookInv, DeliveryInv
<1>4. ran \in MeantFor(payload[done]) \cap config
  BY <1>2, <1>3, InvokedIsWanted DEF WebhookInv
<1> HIDE DEF done, ran
<1>5. TypeOK'
  BY <1>1, <1>2, <1>4 DEF WebhookInv, TypeOK, Places
<1>6. \A p : (MeantFor(p)' = MeantFor(p)) /\ (Invokes(p)' <=> Invokes(p))
  BY <1>1 DEF MeantFor, Invokes, Route, AACallback, BBPSCallback, UPICallback
<1>7. \A e \in Events : Wanted(e)' <=> Wanted(e)
  BY <1>1 DEF Wanted, MeantFor, UPICallback
<1>8. \A e \in Events : calls'[e] = IF e = done THEN calls[e] \cup {ran} ELSE calls[e]
  BY <1>1 DEF WebhookInv, TypeOK
<1>9. RightCallback'
  <2>1. \A e \in Events : calls'[e] \subseteq MeantFor(payload[e]) \cap config
    BY <1>4, <1>8 DEF WebhookInv, RightCallback
  <2> QED
    BY <2>1, <1>1, <1>6 DEF RightCallback
<1>10. AckedIsHandled'
  <2>1. \A e \in acked : Wanted(e) => calls'[e] # {}
    BY <1>8 DEF WebhookInv, AckedIsHandled, TypeOK
  <2> QED
    BY <2>1, <1>1, <1>7 DEF AckedIsHandled, WebhookInv, TypeOK
<1>11. ASSUME NEW v \in Workers
       PROVE  /\ pc'[v] = "callback" => Invokes(payload[event[v]])
              /\ pc'[v] = "respond" /\ Wanted(event[v]) => calls'[event[v]] # {}
  <2>1. event[v] \in Events
    BY <1>11 DEF WebhookInv, TypeOK
  <2>2. CASE v = w
    BY <1>1, <1>8, <2>1, <2>2 DEF WebhookInv, TypeOK, done
  <2>3. CASE v # w
    <3>1. pc'[v] = pc[v]
      BY <1>1, <2>3 DEF WebhookInv, TypeOK
    <3> QED
      BY <3>1, <1>8, <1>11, <2>1 DEF WebhookInv, DeliveryInv
  <2> QED
    BY <2>2, <2>3
<1>12. DeliveryInv'
  <2>1. \A v \in Workers : pc'[v] = "callback" => Invokes(payload[event[v]])'
    BY <1>11, <1>1, <1>6
  <2>2. \A v \in Workers : pc'[v] = "respond" /\ Wanted(event[v])' => calls[event[v]]' # {}
    BY <1>11, <1>1, <1>7 DEF WebhookInv, TypeOK
  <2> QED
    BY <2>1, <2>2 DEF DeliveryInv
<1> QED
  BY <1>5, <1>9, <1>10, <1>12 DEF WebhookInv

\* A crash ends every delivery and keeps what was handled and acknowledged.
LEMMA CrashKeepsInv ==
    ASSUME WebhookInv, Crash PROVE WebhookInv'
<1>1. UNCHANGED <<config, payload, event, acked, calls>> /\ pc' = [w \in Workers |-> "idle"]
  BY DEF Crash, constants
<1>2. faults' \in 0..MaxFaults
  BY FaultCounted DEF Crash, WebhookInv, TypeOK
<1>3. TypeOK'
  BY <1>1, <1>2 DEF WebhookInv, TypeOK, Places
<1>4. RightCallback' /\ \A e \in Events : Wanted(e)' <=> Wanted(e)
  BY <1>1 DEF WebhookInv, RightCallback, Wanted, MeantFor, UPICallback
<1>5. AckedIsHandled'
  BY <1>1, <1>4 DEF WebhookInv, AckedIsHandled, TypeOK
<1>6. DeliveryInv'
  BY <1>1 DEF DeliveryInv
<1> QED
  BY <1>3, <1>4, <1>5, <1>6 DEF WebhookInv

\* The initial states and every step of the handler, the sender and the faults
\* keep the invariant.
THEOREM WebhookInvCorrect == Spec => []WebhookInv
<1>1. Init => WebhookInv
  <2> SUFFICES ASSUME Init PROVE WebhookInv
    OBVIOUS
  <2>1. (CHOOSE e \in Events : TRUE) \in Events
    BY EventsAssumption
  <2>2. TypeOK
    BY <2>1, FaultAssumption DEF Init, TypeOK, Places
  <2>3. RightCallback /\ AckedIsHandled /\ DeliveryInv
    BY DEF Init, RightCallback, AckedIsHandled, DeliveryInv
  <2> QED
    BY <2>2, <2>3 DEF WebhookInv
<1>2. WebhookInv /\ [Next]_vars => WebhookInv'
  <2> SUFFICES ASSUME WebhookInv, [Next]_vars PROVE WebhookInv'
    OBVIOUS
  <2>t. /\ event \in [Workers -> Events] /\ acked \subseteq Events
        /\ faults \in 0..MaxFaults
    BY DEF WebhookInv, TypeOK
  <2>1. CASE \E w \in Workers : Deliver(w)
    <3>1. PICK w \in Workers : Deliver(w)
      BY <2>1
    <3>2. PICK e \in Events : event' = [event EXCEPT ![w] = e]
      BY <3>1 DEF Deliver
    <3> QED
      BY <3>1, <3>2, <2>t, IdleKeepsInv DEF Deliver, Goto
  <2>2. CASE \E w \in Workers : ReadBody(w)
    BY <2>2, <2>t, IdleKeepsInv DEF ReadBody, Goto
  <2>3. CASE \E w \in Workers : ReadFails(w)
    BY <2>3, <2>t, FaultCounted, IdleKeepsInv DEF ReadFails, Goto
  <2>4. CASE \E w \in Workers : Dispatch(w)
    BY <2>4, DispatchKeepsInv
  <2>5. CASE \E w \in Workers : CallbackReturns(w)
    BY <2>5, CallbackKeepsInv
  <2>6. CASE \E w \in Workers : CallbackPanics(w)
    BY <2>6, <2>t, FaultCounted, IdleKeepsInv DEF CallbackPanics, Goto
  <2>7. CASE \E w \in Workers : Respond(w)
    BY <2>7, <2>t, IdleKeepsInv DEF Respond, Goto
  <2>8. CASE \E w \in Workers : RespondLost(w)
    BY <2>8, <2>t, FaultCounted, IdleKeepsInv DEF RespondLost, Goto
  <2>9. CASE Crash
    BY <2>9, CrashKeepsInv
  <2>10. CASE UNCHANGED vars
    <3>1. UNCHANGED <<config, payload, pc, event, acked, calls, faults>>
      BY <2>10 DEF vars, constants
    <3>2. \A p : Invokes(p)' <=> Invokes(p)
      BY <3>1 DEF Invokes, Route, AACallback, BBPSCallback, UPICallback
    <3>3. \A e \in Events : Wanted(e)' <=> Wanted(e)
      BY <3>1 DEF Wanted, MeantFor, UPICallback
    <3>4. TypeOK' /\ RightCallback'
      BY <3>1 DEF WebhookInv, TypeOK, RightCallback, MeantFor, UPICallback
    <3>5. AckedIsHandled'
      BY <3>1, <3>3 DEF WebhookInv, AckedIsHandled, TypeOK
    <3>6. \A w \in Workers : pc'[w] = "callback" => Invokes(payload[event[w]])'
      BY <3>1, <3>2 DEF WebhookInv, DeliveryInv
    <3>7. \A w \in Workers : pc'[w] = "respond" /\ Wanted(event[w])' => calls[event[w]]' # {}
      BY <3>1, <3>3 DEF WebhookInv, DeliveryInv, TypeOK
    <3> QED
      BY <3>4, <3>5, <3>6, <3>7 DEF DeliveryInv, WebhookInv
  <2> QED
    BY <2>1, <2>2, <2>3, <2>4, <2>5, <2>6, <2>7, <2>8, <2>9, <2>10
       DEF Next, Serve, AllAcked
<1> QED
  BY <1>1, <1>2, PTL DEF Spec

\* Every variable of the handler and its sender has its type.
THEOREM TypeCorrect == Spec => []TypeOK
BY WebhookInvCorrect, PTL DEF WebhookInv

\* A callback runs only for notifications of its own kind, when it is set
\* (Handler.dispatch).
THEOREM RightCallbackCorrect == Spec => []RightCallback
BY WebhookInvCorrect, PTL DEF WebhookInv

\* No accepted event is lost, whatever crashes, panics or is delivered twice: the
\* 200 of ServeHTTP is written when the callback has run to its end.
THEOREM AckedCorrect == Spec => []AckedIsHandled
BY WebhookInvCorrect, PTL DEF WebhookInv

-----------------------------------------------------------------------------
(***************************************************************************)
(* The handler keeps the promise of Delivery.                              *)
(***************************************************************************)
Wants == {e \in Events : Wanted(e)}
Ran == {e \in Events : calls[e] # {}}

\* What is wanted is settled once the program has been configured.
LEMMA WantsStay == ASSUME UNCHANGED <<config, payload>> PROVE Wants' = Wants
BY DEF Wants, Wanted, MeantFor, UPICallback

\* Only a callback that returns and an answer that arrives concern Delivery.
LEMMA OthersAreUnseen ==
    ASSUME [Next]_vars, ~ \E w \in Workers : CallbackReturns(w) \/ Respond(w)
    PROVE  UNCHANGED <<config, payload, calls, acked>>
<1>1. ASSUME NEW w \in Workers,
             Deliver(w) \/ ReadBody(w) \/ Dispatch(w) \/ ReadFails(w)
             \/ CallbackPanics(w) \/ RespondLost(w)
      PROVE  UNCHANGED <<config, payload, calls, acked>>
  BY <1>1 DEF Deliver, ReadBody, Dispatch, ReadFails, CallbackPanics, RespondLost,
       constants
<1>2. ASSUME Crash \/ AllAcked \/ UNCHANGED vars
      PROVE  UNCHANGED <<config, payload, calls, acked>>
  BY <1>2 DEF Crash, AllAcked, vars, constants
<1> QED
  BY <1>1, <1>2, Zenon DEF Next, Serve

\* A callback that returns has handled an event the program wants.
LEMMA CallbackHandles ==
    ASSUME WebhookInv, NEW w \in Workers, CallbackReturns(w)
    PROVE  \E e \in Events : Deliveries!Handle(e)
<1>1. pc[w] = "callback" /\ UNCHANGED <<config, payload, acked>>
      /\ calls' = [calls EXCEPT ![event[w]] = @ \cup {Route(payload[event[w]])}]
  BY DEF CallbackReturns, constants
<1>2. event[w] \in Events /\ calls \in [Events -> SUBSET Callbacks]
  BY DEF WebhookInv, TypeOK
<1>3. Wanted(event[w])
  <2>1. Invokes(payload[event[w]])
    BY <1>1 DEF WebhookInv, DeliveryInv
  <2>2. MeantFor(payload[event[w]]) \cap config # {}
    BY <1>2, <2>1, InvokedIsWanted DEF WebhookInv
  <2> QED
    BY <2>1, <2>2 DEF Invokes, Wanted
<1>4. Ran' = Ran \cup {event[w]}
  BY <1>1, <1>2 DEF Ran
<1>5. Wants' = Wants /\ event[w] \in Wants
  BY <1>1, <1>2, <1>3, WantsStay DEF Wants
<1>6. PICK e \in Events : e = event[w]
  BY <1>2
<1>7. Deliveries!Handle(e)
  BY <1>1, <1>4, <1>5, <1>6 DEF Deliveries!Handle, Wants, Ran
<1> QED
  BY <1>7

\* An answer that arrives is for an event that was handled, or is not wanted.
LEMMA RespondAccepts ==
    ASSUME WebhookInv, NEW w \in Workers, Respond(w)
    PROVE  \E e \in Events : Deliveries!Accept(e)
<1>1. pc[w] = "respond" /\ UNCHANGED <<config, payload, calls>>
      /\ acked' = acked \cup {event[w]}
  BY DEF Respond, constants
<1>2. event[w] \in Events
  BY DEF WebhookInv, TypeOK
<1>3. event[w] \in Wants => event[w] \in Ran
  BY <1>1, <1>2 DEF WebhookInv, DeliveryInv, Wants, Ran
<1>4. Wants' = Wants /\ Ran' = Ran
  BY <1>1, WantsStay DEF Ran
<1>5. Deliveries!Accept(event[w])
  BY <1>1, <1>3, <1>4 DEF Deliveries!Accept, Wants, Ran
<1> QED
  BY <1>2, <1>5

\* The handler implements at-least-once delivery (handler.go:220-231).
THEOREM DeliveryImplemented == Spec => ImplementsDelivery
<1>1. Init => Deliveries!DeliveryInit
  BY DEF Init, Deliveries!DeliveryInit
<1>2. WebhookInv /\ [Next]_vars
      => [Deliveries!DeliveryNext]_(Deliveries!deliveryVars)
  <2> SUFFICES ASSUME WebhookInv, [Next]_vars
               PROVE  [Deliveries!DeliveryNext]_(Deliveries!deliveryVars)
    OBVIOUS
  <2>1. CASE \E w \in Workers : CallbackReturns(w) \/ Respond(w)
    BY <2>1, CallbackHandles, RespondAccepts, Zenon DEF Deliveries!DeliveryNext
  <2>2. CASE ~ \E w \in Workers : CallbackReturns(w) \/ Respond(w)
    <3>1. UNCHANGED <<config, payload, calls, acked>>
      BY <2>2, OthersAreUnseen
    <3>2. Wants' = Wants /\ Ran' = Ran
      BY <3>1, WantsStay DEF Ran
    <3> QED
      BY <3>1, <3>2 DEF Deliveries!deliveryVars, Wants, Ran
  <2> QED
    BY <2>1, <2>2
<1> QED
  BY <1>1, <1>2, WebhookInvCorrect, PTL
     DEF Spec, ImplementsDelivery, Deliveries!DeliverySpec

=============================================================================
