----------------------------- MODULE MCServices -----------------------------
(***************************************************************************)
(* What has to go on, on small instances.  serving tells the part that     *)
(* moves: the process of the broker from its start to its exit, its        *)
(* connections with one client, the controller of the bridge, a client     *)
(* that publishes, or the store and forward of the Edge Hub, with messages *)
(* of two clients, one of which may expire, to the cloud.                  *)
(***************************************************************************)
EXTENDS MCInboundDelivery, Mqttd, BridgeController

VARIABLES
  serving,
  body, count, stored, at, saved, savedDead, head, tail, offset, dead, reader, sender, toPut, toAppend,
  cleaner, routed, settled, expired, torn, earlier, overtaken, crashes, faults,
  sessions, retained, channel, conns, outgoing, wills, allowed, snapshot, brokerRuns, requests,
  revisions, starts

K == INSTANCE Broker
  WITH Clients <- {"a"}, TopicFilters <- {}, Cleans <- BOOLEAN, MaxConnections <- 2, MaxRequests <- 0,
       MaxUpdates <- 1, MaxStarts <- 1, Failures <- FALSE, saved <- snapshot, messages <- channel,
       updates <- revisions, running <- brokerRuns

H == INSTANCE StoreForward
  WITH Messages <- 1 .. 2, Endpoints <- {"cloud"}, CloudEndpoints <- {"cloud"}, Priorities <- {0},
       Route <- [m \in 1 .. 2 |-> {<<"cloud", 0>>}], ClientOf <- [m \in 1 .. 2 |-> m],
       Expiring <- {2}, BatchSize <- 2, CheckEntireQueue <- FALSE, MaxCrashes <- 1, MaxFaults <- 1,
       pump <- sender, sent <- routed

Upstream == <<"cloud", 0>>
hvars == <<body, count, stored, at, saved, savedDead, head, tail, offset, dead, reader, sender, toPut,
           toAppend, cleaner, routed, settled, expired, torn, earlier, overtaken, crashes, faults>>
kvars == <<sessions, retained, channel, conns, outgoing, wills, allowed, snapshot, brokerRuns, requests,
           revisions, starts>>
mcvars == <<ivars, mvars, bcvars, hvars, kvars, serving>>

MCInit ==
  /\ serving \in {"process", "connections", "controller", "client", "hub"}
  /\ IInit /\ MInit /\ BCInit /\ H!Init /\ K!Init

OfProcess == serving = "process" /\ ~Ended
OfConnections == serving = "connections"
OfController == serving = "controller"
OfClient == serving = "client"
OfHub == serving = "hub"

MCNext ==
  \/ OfProcess /\ MNext /\ UNCHANGED <<ivars, bcvars, hvars, kvars, serving>>
  \/ OfController /\ BCNext /\ UNCHANGED <<ivars, mvars, hvars, kvars, serving>>
  \/ OfClient /\ INext /\ UNCHANGED <<mvars, bcvars, hvars, kvars, serving>>
  \/ OfHub /\ H!Next /\ UNCHANGED <<ivars, mvars, bcvars, kvars, serving>>
  \/ OfConnections /\ K!Next /\ UNCHANGED <<ivars, mvars, bcvars, hvars, serving>>

(* The steps of FairMSpec, of FairSpec, of BCSpec, of FairISpec, and of    *)
(* the Spec of the hub with its one queue.                                 *)
MCBroker == OfProcess /\ BrokerStep
MCServer == OfProcess /\ ServerStep
MCSnapshotter == OfProcess /\ SnapshotterStep
MCApp == OfProcess /\ AppStep
MCListener(l) == OfProcess /\ ListenerStep(l)
MCSidecar(s) == OfProcess /\ SidecarStops(s)
MCHandle == OfConnections /\ K!Handle
MCWrite(h) == OfConnections /\ K!Write(h)
MCFinish(h) == OfConnections /\ K!Finish(h)
MCBridge == OfController /\ BridgeStep
MCController == OfController /\ ControllerStep
MCReceive == OfClient /\ Receive
MCHandleNext == OfClient /\ HandleNext
MCConnect == OfClient /\ Connect
MCLoad == OfClient /\ LoadSnapshot
MCAdd == OfHub /\ \E m \in 1 .. 2 : H!PutBody(m, Upstream) \/ H!AppendRef(m, Upstream)
MCFetch == OfHub /\ H!Fetch(Upstream)
MCPump ==
  /\ OfHub
  /\ \/ H!ReadAgain("cloud") \/ H!Take("cloud") \/ H!NextPriority("cloud")
     \/ H!Checkpoint("cloud") \/ H!Retry("cloud") \/ H!Drop("cloud")
MCSend == OfHub /\ H!Send("cloud", {})
MCClean == OfHub /\ H!CleanQueue(Upstream)
MCCleaner == OfHub /\ (H!CountOff \/ H!RemoveBody \/ H!RemoveEntry \/ H!KeepEntry)

MCSpec ==
  /\ MCInit /\ [][MCNext]_mcvars
  /\ WF_mvars(MCBroker) /\ WF_mvars(MCServer) /\ WF_mvars(MCSnapshotter) /\ WF_mvars(MCApp)
  /\ \A l \in Listeners : WF_mvars(MCListener(l))
  /\ \A s \in Sidecars : WF_mvars(MCSidecar(s))
  /\ WF_kvars(MCHandle) /\ \A h \in K!Handles : WF_kvars(MCWrite(h)) /\ WF_kvars(MCFinish(h))
  /\ WF_bcvars(MCBridge) /\ WF_bcvars(MCController)
  /\ WF_ivars(MCReceive) /\ WF_ivars(MCHandleNext) /\ WF_ivars(MCConnect) /\ WF_ivars(MCLoad)
  /\ WF_hvars(MCAdd) /\ WF_hvars(MCFetch) /\ WF_hvars(MCPump) /\ SF_hvars(MCSend)
  /\ SF_hvars(MCClean) /\ WF_hvars(MCCleaner)
-----------------------------------------------------------------------------
(* ConnectionsEnd for two connections of one client.                       *)
ConnectionsEnd == K!ConnectionsEnd

(* Settles for the messages above: pumps that wait, sends that fail and    *)
(* cleanups that are cut off hold no message up for ever.                  *)
HubSettles == OfHub => H!Settles
=============================================================================
