-------------------------- MODULE BridgeController --------------------------
(***************************************************************************)
(* The sidecar that keeps the upstream bridge running: the controller, the *)
(* bridge, which is one task with two pumps, and the three routines of     *)
(* each pump.  Any of them may end, and ends what it belongs to; the       *)
(* controller starts the bridge again until it is asked to shut down.      *)
(***************************************************************************)
EXTENDS Integers, Sequences

CONSTANTS
  Configured,   \* the settings have an upstream from which a bridge can be made
  MaxFailures,  \* bound on how often an MQTT client of a pump fails
  MaxUpdates    \* bound on the updates of the settings

ASSUME ControllerAssumption ==
  Configured \in BOOLEAN /\ MaxFailures \in Nat /\ MaxUpdates \in Nat

Pumps == {"local", "remote"}
Routines == {"messages", "egress", "ingress"}

VARIABLES
  messages,     \* the unbounded channel to the controller: "update" and "shutdown"
  controller,   \* "loop", "drain" or "stopped"
  handles,      \* bridge_handles and config_updaters have $upstream
  bridge,       \* "none", "running", "stopping", or "ended" and not seen yet
  pump,         \* [Pumps -> {"running", "stopping", "ended"}]
  running,      \* [Pumps -> SUBSET Routines]
  asked,        \* [Pumps -> SUBSET Routines]: those that were sent their shutdown
  shutdown,     \* the controller was asked to shut down
  updates, failures

parts == <<pump, running, asked>>
bcvars == <<messages, controller, handles, bridge, parts, shutdown, updates, failures>>

(* Bridge::new_upstream and Bridges::start_bridge                          *)
Fresh(all) == [p \in Pumps |-> all]

BCInit ==
  /\ messages = << >> /\ controller = "loop"
  /\ handles = Configured
  /\ bridge = IF Configured THEN "running" ELSE "none"
  /\ pump = Fresh(IF Configured THEN "running" ELSE "ended")
  /\ running = Fresh(IF Configured THEN Routines ELSE {})
  /\ asked = Fresh({})
  /\ shutdown = FALSE /\ updates = 0 /\ failures = 0

(* BridgeControllerHandle::send_message; a stopped controller has dropped  *)
(* its receiver.                                                           *)
SendMessage(message) ==
  /\ messages' = IF controller = "stopped" THEN messages ELSE Append(messages, message)
  /\ UNCHANGED <<controller, handles, bridge, parts, failures>>

SendUpdate ==
  /\ updates < MaxUpdates /\ updates' = updates + 1
  /\ SendMessage("update") /\ UNCHANGED shutdown

RequestShutdown ==
  /\ ~shutdown /\ shutdown' = TRUE
  /\ SendMessage("shutdown") /\ UNCHANGED updates
-----------------------------------------------------------------------------
(* Pump::run                                                               *)

Others == UNCHANGED <<messages, controller, handles, shutdown, updates>>

(* A routine returns when it has its shutdown, which its channel has room  *)
(* for: PumpChannels tells when it has not.                                *)
RoutineStops(p, r) ==
  /\ bridge # "none" /\ r \in running[p] \cap asked[p]
  /\ running' = [running EXCEPT ![p] = @ \ {r}]
  /\ UNCHANGED <<pump, asked, bridge, failures>> /\ Others

(* An error of the MQTT client ends ingress.                               *)
IngressFails(p) ==
  /\ bridge # "none" /\ "ingress" \in running[p] /\ failures < MaxFailures
  /\ running' = [running EXCEPT ![p] = @ \ {"ingress"}]
  /\ failures' = failures + 1
  /\ UNCHANGED <<pump, asked, bridge>> /\ Others

MutStopped(p) == {"egress", "ingress"}

(* The first routine that ends stops the other two.                        *)
Stopped(p) == Routines

PumpStops(p) ==
  /\ bridge # "none" /\ pump[p] = "running" /\ running[p] # Routines
  /\ pump' = [pump EXCEPT ![p] = "stopping"]
  /\ asked' = [asked EXCEPT ![p] = Stopped(p)]
  /\ UNCHANGED <<running, bridge, failures>> /\ Others

PumpEnds(p) ==
  /\ bridge # "none" /\ pump[p] = "stopping" /\ running[p] = {}
  /\ pump' = [pump EXCEPT ![p] = "ended"]
  /\ UNCHANGED <<running, asked, bridge, failures>> /\ Others
-----------------------------------------------------------------------------
(* Bridge::run                                                             *)

(* PumpHandle::shutdown, in the channel of the pump's messages processor.  *)
ShutdownPumps(which) ==
  asked' = [p \in Pumps |-> IF p \in which THEN asked[p] \cup {"messages"} ELSE asked[p]]

(* The first pump that ends stops the other one.                           *)
BridgeStops ==
  /\ bridge = "running"
  /\ \E p \in Pumps : pump[p] = "ended" /\ ShutdownPumps(Pumps \ {p})
  /\ bridge' = "stopping"
  /\ UNCHANGED <<pump, running, failures>> /\ Others

BridgeEnds ==
  /\ bridge = "stopping" /\ \A p \in Pumps : pump[p] = "ended"
  /\ bridge' = "ended"
  /\ UNCHANGED <<parts, failures>> /\ Others

BridgeStep ==
  \/ \E p \in Pumps : (\E r \in Routines : RoutineStops(p, r)) \/ PumpStops(p) \/ PumpEnds(p)
  \/ BridgeStops \/ BridgeEnds
-----------------------------------------------------------------------------
(* BridgeController::run.  Messages are looked at before the bridge.       *)

(* process_update.  The rules are in UpstreamPump; a bridge that has ended *)
(* does not get them.                                                      *)
ProcessUpdate ==
  /\ controller = "loop" /\ messages # << >> /\ Head(messages) = "update"
  /\ messages' = Tail(messages)
  /\ UNCHANGED <<controller, handles, bridge, parts, shutdown, updates, failures>>

(* Bridges::shutdown_all, up to the wait.                                  *)
ShutdownAll ==
  /\ controller = "loop" /\ messages # << >> /\ Head(messages) = "shutdown"
  /\ messages' = Tail(messages)
  /\ controller' = "drain"
  /\ IF handles THEN ShutdownPumps(Pumps) ELSE UNCHANGED asked
  /\ handles' = FALSE
  /\ UNCHANGED <<bridge, pump, running, shutdown, updates, failures>>

BridgesDone == bridge \in {"none", "ended"}

Drained ==
  /\ controller = "drain" /\ BridgesDone
  /\ controller' = "stopped" /\ bridge' = "none" /\ messages' = << >>
  /\ UNCHANGED <<handles, parts, shutdown, updates, failures>>

MutStartAgain == bridge' = "none" /\ handles' = FALSE /\ UNCHANGED parts

(* An upstream bridge that has exited is started again.                    *)
StartAgain ==
  /\ bridge' = "running" /\ handles' = TRUE
  /\ pump' = Fresh("running") /\ running' = Fresh(Routines) /\ asked' = Fresh({})

BridgeExited ==
  /\ controller = "loop" /\ messages = << >> /\ bridge = "ended"
  /\ StartAgain
  /\ UNCHANGED <<messages, controller, shutdown, updates, failures>>

ControllerStep == ProcessUpdate \/ ShutdownAll \/ Drained \/ BridgeExited

BCNext ==
  \/ SendUpdate \/ RequestShutdown \/ (\E p \in Pumps : IngressFails(p))
  \/ BridgeStep \/ ControllerStep

(* The tasks of the bridge and of the controller.                          *)
BCSpec == BCInit /\ [][BCNext]_bcvars /\ WF_bcvars(BridgeStep) /\ WF_bcvars(ControllerStep)
-----------------------------------------------------------------------------
(* The controller is a sidecar as the process of the broker expects it: it *)
(* ends when it is asked to, whatever ends at the same time, and not       *)
(* before the routines of its bridge have ended.                           *)
AsSidecar == INSTANCE Sidecar
  WITH phase <- IF controller = "stopped" /\ \A p \in Pumps : running[p] = {}
                THEN "stopped" ELSE IF shutdown THEN "asked" ELSE "running"

ImplementsSidecar == AsSidecar!RSpec

(* A bridge is never left half alive: as long as no shutdown was asked,    *)
(* all routines of both pumps run again some time after any of them ended. *)
BridgeRuns ==
  []<>(Configured /\ ~shutdown => bridge = "running" /\ running = Fresh(Routines))
=============================================================================
