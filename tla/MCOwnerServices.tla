-------------------------- MODULE MCOwnerServices --------------------------
(***************************************************************************)
(* The three services that every route of server/app.ts shares, of one     *)
(* owner: the event log, the webhooks and the gateway.  They share no row, *)
(* so what one of them does is the same whatever the others do, and a      *)
(* behaviour of the model moves one of them: the one in focus.             *)
(***************************************************************************)
EXTENDS OwnerEvents, Webhooks, Gateway

VARIABLE focus

Init ==
    /\ focus \in {"events", "webhooks", "gateway"}
    /\ EventsInit /\ WebhooksInit /\ GatewayInit

EventsMove ==
    focus = "events" /\ EventsNext /\ UNCHANGED <<focus, webhookVars, gatewayVars>>
WebhooksMove ==
    focus = "webhooks" /\ WebhooksNext /\ UNCHANGED <<focus, eventVars, gatewayVars>>
GatewayMove ==
    focus = "gateway" /\ GatewayNext /\ UNCHANGED <<focus, eventVars, webhookVars>>

Next == EventsMove \/ WebhooksMove \/ GatewayMove

FairSpec == Init /\ [][Next]_<<focus, eventVars, webhookVars, gatewayVars>> /\ WebhooksFairness
=============================================================================
