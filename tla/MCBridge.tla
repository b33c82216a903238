------------------------------ MODULE MCBridge ------------------------------
(***************************************************************************)
(* The parts of the upstream bridge on small instances.  which tells the   *)
(* one that moves: the subscriptions of an MQTT client with batches of     *)
(* updates, the remote pump, the remote pump at a server that refuses the  *)
(* filter of the rules, the channels between the pumps, and a store.       *)
(***************************************************************************)
EXTENDS UpstreamPump, PumpChannels, BridgeStore

VARIABLE which

Client == INSTANCE ClientSubscriptions
            WITH Rejected <- RpcFilters, MaxUpdates <- 4, MaxBreaks <- 2
Refused == INSTANCE UpstreamPump WITH Rejected <- RuleFilters, MaxBreaks <- 1

MCInit ==
  /\ which \in {"client", "pump", "refused", "channels", "store"}
  /\ UInit /\ PInit /\ SInit
  /\ which \notin {"pump", "refused"} => asked = {}

OfClient == which = "client" /\ Client!CNext /\ UNCHANGED <<bridge, folded, pvars, svars, which>>
OfPump == which = "pump" /\ UNext /\ UNCHANGED <<pvars, svars, which>>
OfRefused == which = "refused" /\ Refused!UNext /\ UNCHANGED <<pvars, svars, which>>
OfChannels == which = "channels" /\ PNext /\ UNCHANGED <<uvars, svars, which>>
OfStore == which = "store" /\ SNext /\ UNCHANGED <<uvars, pvars, which>>

MCNext == OfClient \/ OfPump \/ OfRefused \/ OfChannels \/ OfStore

mcvars == <<uvars, pvars, svars, which>>

MCWork ==
  \/ which = "pump" /\ Work /\ UNCHANGED <<pvars, svars, which>>
  \/ which = "channels" /\ Flow /\ UNCHANGED <<uvars, svars, which>>
  \/ which = "store" /\ Egress /\ UNCHANGED <<uvars, pvars, which>>

MCSpec == MCInit /\ [][MCNext]_mcvars /\ WF_mcvars(MCWork)
-----------------------------------------------------------------------------
(* SubscribedUnlessCancelled for batches of updates of the MQTT client,    *)
(* RulesApplied of the remote pump with and without refused filters, and   *)
(* AcksExpected for both: the server has what was asked for.               *)
MCSubscribed ==
  /\ which = "client" => Client!SubscribedUnlessCancelled
  /\ which = "pump" => RulesApplied
  /\ which = "refused" => Refused!RulesApplied
  /\ AcksExpected

(* RpcAnsweredUnless and RpcCarriedOut for the commands of EdgeHub.        *)
MCRpcExact == (which # "client" => RpcAnsweredUnless) /\ RpcCarriedOut

(* What was asked for is carried out, at any time again: the remote pump   *)
(* is idle, nothing is left in the channels unless the pumps wait for each *)
(* other in a circle, and egress, which sleeps through no push, has        *)
(* emptied the store.                                                      *)
MCSettles ==
  []<>(/\ which = "pump" => Idle
       /\ which = "channels" => Drained \/ InCircle
       /\ which = "store" => Emptied)
=============================================================================
