------------------------------ MODULE Delivery ------------------------------
(***************************************************************************)
(* What the webhook handler promises the sender and the program, without   *)
(* deliveries, payloads, crashes and lost answers: at-least-once delivery. *)
(* An event the program wants is handled before it is accepted; one it     *)
(* does not want is accepted and never handled; what was handled or        *)
(* accepted once stays so.  Webhook implements it.                         *)
(***************************************************************************)

CONSTANT Events

VARIABLES
    wanted,    \* the events for which the program has a callback
    handled,   \* those for which a callback has run to its end
    accepted   \* those for which the sender has seen a 200

deliveryVars == <<wanted, handled, accepted>>

DeliveryInit ==
    /\ wanted \subseteq Events
    /\ handled = {}
    /\ accepted = {}

\* The callback returns.  An event that was accepted may be handled again.
Handle(e) ==
    /\ e \in wanted
    /\ handled' = handled \cup {e}
    /\ UNCHANGED <<wanted, accepted>>

Accept(e) ==
    /\ e \in wanted => e \in handled
    /\ accepted' = accepted \cup {e}
    /\ UNCHANGED <<wanted, handled>>

DeliveryNext == \E e \in Events : Handle(e) \/ Accept(e)

DeliverySpec == DeliveryInit /\ [][DeliveryNext]_deliveryVars

=============================================================================
