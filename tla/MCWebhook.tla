----------------------------- MODULE MCWebhook -----------------------------
(* Model checking of Webhook: an event of any kind is delivered beside a    *)
(* payment, to a program that sets every callback, all but one, or none.    *)
EXTENDS Webhook, TLC

CONSTANTS e1, e2, w1, w2

TwoEvents == {e1, e2}
TwoWorkers == {w1, w2}

MCConfigs == {Callbacks, {}} \cup {Callbacks \ {c} : c \in Callbacks}

Payment ==
    [json |-> TRUE, type |-> "", eventType |-> "payment", decodes |-> TRUE,
     hasEvents |-> FALSE]
\* What is not JSON has no fields to tell apart.
NoJSON == [Payment EXCEPT !.json = FALSE]
MCPayloadsOf ==
    (e1 :> {p \in AnyPayload : p.json} \cup {NoJSON}) @@ (e2 :> {Payment})
=============================================================================
