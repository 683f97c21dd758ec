------------------------------ MODULE Services ------------------------------
(***************************************************************************)
(* The services around the payouts and the collaboration.  They share no   *)
(* state with one another, so a behaviour in which several are busy is an  *)
(* interleaving of behaviours in which one is.                             *)
(***************************************************************************)
EXTENDS Webhooks, Realtime, Wallets, Lookups, AiClients, Broker

CONSTANT Parts      \* sets of services that are busy together (a bound)

VARIABLE running

vars == <<running, webhookVars, realtimeVars, walletVars, lookupVars, aiVars, brokerVars>>

Init ==
    /\ running \in Parts
    /\ WebhooksInit /\ RealtimeInit /\ WalletsInit /\ LookupsInit
    /\ AiClientsInit /\ BrokerInit

Runs(part) == part \in running /\ UNCHANGED running

Next ==
    \/ /\ Runs("webhooks") /\ WebhooksNext
       /\ UNCHANGED <<realtimeVars, walletVars, lookupVars, aiVars, brokerVars>>
    \/ /\ Runs("realtime") /\ RealtimeNext
       /\ UNCHANGED <<webhookVars, walletVars, lookupVars, aiVars, brokerVars>>
    \/ /\ Runs("wallets") /\ WalletsNext
       /\ UNCHANGED <<webhookVars, realtimeVars, lookupVars, aiVars, brokerVars>>
    \/ /\ Runs("lookups") /\ LookupsNext
       /\ UNCHANGED <<webhookVars, realtimeVars, walletVars, aiVars, brokerVars>>
    \/ /\ Runs("ai") /\ AiClientsNext
       /\ UNCHANGED <<webhookVars, realtimeVars, walletVars, lookupVars, brokerVars>>
    \/ /\ Runs("broker") /\ BrokerNext
       /\ UNCHANGED <<webhookVars, realtimeVars, walletVars, lookupVars, aiVars>>

Spec == Init /\ [][Next]_vars
=============================================================================
