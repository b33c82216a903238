-------------------------------- MODULE Mqttd --------------------------------
(***************************************************************************)
(* The process of the broker, from its start to its exit: the task of the  *)
(* broker, the server with one accept loop for every transport, the        *)
(* sidecars, the snapshotter, and the application that ends them all when  *)
(* a signal comes or one of them ends, and stores the last state.          *)
(*                                                                         *)
(* A state of the broker is its number: how often it has changed.          *)
(***************************************************************************)
EXTENDS Integers, Sequences

CONSTANTS
  External,     \* the transports that wait until the broker is ready: tcp, tls
  Sidecars,     \* bridge controller and command handler
  ChannelSize,  \* of the channel to the snapshotter: 5
  Faults,       \* what may go wrong: some of "accept", "panic", "definition", "store"
  MaxChanges,   \* bound on the changes of the broker's state
  MaxInbox      \* bound on the messages that wait for the broker

ASSUME MqttdAssumption ==
  /\ ChannelSize \in Nat \ {0} /\ MaxChanges \in Nat /\ MaxInbox \in Nat
  /\ "system" \notin External

Listeners == External \cup {"system"}

VARIABLES
  broker,       \* the task of the broker: "running" or "exited"
  inbox,        \* its channel of messages
  version,      \* its state
  unready,      \* BrokerReadyEvents that were not sent yet
  listener,     \* [Listeners -> {"waiting", "accepting", "stopped"}]
  stop,         \* the listeners that were sent the stop signal
  signal,       \* SIGTERM or SIGINT came, or the certificate must be renewed
  server,       \* where Server::serve is
  sidecar,      \* [Sidecars -> {"running", "asked", "stopped"}]
  states,       \* the channel of the snapshotter: states and Shutdown
  snapshotter,  \* the task of the snapshotter: "running" or "stopped"
  disk,         \* the state that was stored last
  app           \* where App::run and EdgeHubBootstrap::run are

task == <<broker, inbox, version, unready>>
heads == <<listener, stop, signal, server>>
store == <<states, snapshotter, disk>>
mvars == <<task, heads, sidecar, store, app>>

(* The event that ends the snapshotter is no state.                        *)
Shutdown == -1

Ended == app \in {"done", "failed"}

MInit ==
  /\ broker = "running" /\ inbox = << >> /\ version = 0
  /\ unready = {"AuthorizerReady", "PolicyReady"}
  /\ listener = [l \in Listeners |-> "waiting"] /\ stop = {}
  /\ signal = FALSE /\ server = "select"
  /\ sidecar = [s \in Sidecars |-> "running"]
  /\ states = << >> /\ snapshotter = "running" /\ disk = 0
  /\ app = "select"
-----------------------------------------------------------------------------
(* What comes from outside.                                                *)

(* BrokerHandle::send succeeds as long as the broker has its receiver.     *)
SendBroker(message) == broker = "running" /\ inbox' = Append(inbox, message)

(* A message of a client changes the state.                                *)
Change ==
  /\ broker = "running" /\ version < MaxChanges
  /\ version' = version + 1
  /\ UNCHANGED <<broker, inbox, unready, heads, sidecar, store, app>>

(* The timer of tick_snapshot or SIGUSR1.                                  *)
SnapshotTick ==
  /\ Len(inbox) < MaxInbox /\ SendBroker("snapshot")
  /\ UNCHANGED <<broker, version, unready, heads, sidecar, store, app>>

(* A publication of EdgeHub, which the command handler receives through    *)
(* the system transport and passes to the broker as an update.             *)
Command ==
  /\ \E s \in Sidecars : sidecar[s] # "stopped"
  /\ listener["system"] # "waiting"
  /\ Len(inbox) < MaxInbox
  /\ \E update \in {"identities", "policy"} \cup ({"definition"} \cap Faults) : SendBroker(update)
  /\ UNCHANGED <<broker, version, unready, heads, sidecar, store, app>>

ShutdownSignal ==
  /\ ~signal /\ signal' = TRUE
  /\ UNCHANGED <<task, listener, stop, server, sidecar, store, app>>
-----------------------------------------------------------------------------
(* Broker::run                                                             *)

(* StateSnapshotHandle::try_send drops a state that finds no room.         *)
TrySend(state) ==
  states' = IF Len(states) < ChannelSize /\ snapshotter = "running"
            THEN Append(states, state) ELSE states

(* The update of an authorizer takes its handle and sends the event once;  *)
(* then Broker::reauthorize may close sessions.                            *)
Update(event) ==
  /\ unready' = unready \ {event}
  /\ version' = version \/ (version < MaxChanges /\ version' = version + 1)
  /\ UNCHANGED <<broker, states>>

(* A definition that is no policy ends the loop, and with it the broker.   *)
Handle(message) ==
  \/ message = "snapshot" /\ TrySend(version) /\ UNCHANGED <<broker, version, unready>>
  \/ message = "identities" /\ Update("AuthorizerReady")
  \/ message = "policy" /\ Update("PolicyReady")
  \/ /\ message = "definition"
     /\ broker' = "exited" /\ UNCHANGED <<version, unready, states>>
  \/ /\ message = "shutdown"
     /\ broker' = "exited" /\ version' = version + 1 /\ UNCHANGED <<unready, states>>

BrokerStep ==
  /\ broker = "running" /\ inbox # << >>
  /\ inbox' = Tail(inbox)
  /\ Handle(Head(inbox))
  /\ UNCHANGED <<heads, sidecar, snapshotter, disk, app>>
-----------------------------------------------------------------------------
(* Listener::run                                                           *)

Becomes(l, phase) ==
  /\ listener' = [listener EXCEPT ![l] = phase]
  /\ UNCHANGED <<task, stop, signal, server, sidecar, store, app>>

(* BrokerReadySignal::wait is over; the system transport has none.         *)
Ready(l) == l = "system" \/ unready = {}

Listen(l) == listener[l] = "waiting" /\ Ready(l) /\ Becomes(l, "accepting")

(* The transport cannot be opened, or an error or the end of incoming.     *)
ListenFails(l) ==
  /\ "accept" \in Faults
  /\ (listener[l] = "waiting" /\ Ready(l)) \/ listener[l] = "accepting"
  /\ Becomes(l, "stopped")

(* The broker dropped the handles that had not sent their events.          *)
NeverReady(l) ==
  listener[l] = "waiting" /\ ~Ready(l) /\ broker = "exited" /\ Becomes(l, "stopped")

ListenerStops(l) ==
  /\ l \in stop
  /\ (listener[l] = "waiting" /\ ~Ready(l)) \/ listener[l] = "accepting"
  /\ Becomes(l, "stopped")

ListenerStep(l) == Listen(l) \/ NeverReady(l) \/ ListenerStops(l)
-----------------------------------------------------------------------------
(* Server::serve                                                           *)

AllStopped == \A l \in Listeners : listener[l] = "stopped"

Goes(phase) ==
  /\ server' = phase
  /\ UNCHANGED <<broker, version, unready, listener, signal, sidecar, store, app>>

MutStopAll == UNCHANGED <<stop, inbox>>

StopAll == stop' = Listeners /\ UNCHANGED inbox

(* The signal is looked at first, then the broker, then the listeners.     *)
ServeSignal == server = "select" /\ signal /\ StopAll /\ Goes("stopping")

ServeBroker == server = "select" /\ ~signal /\ broker = "exited" /\ StopAll /\ Goes("rest")

ServeListener ==
  /\ server = "select" /\ ~signal /\ broker = "running"
  /\ \E l \in Listeners : listener[l] = "stopped"
  /\ StopAll /\ Goes("listeners")

ServeStopping ==
  /\ server = "stopping"
  /\ \/ broker = "exited" /\ Goes("rest")
     \/ broker = "running" /\ (\E l \in Listeners : listener[l] = "stopped") /\ Goes("listeners")
  /\ UNCHANGED <<inbox, stop>>

ServeRest == server = "rest" /\ AllStopped /\ Goes("done") /\ UNCHANGED <<inbox, stop>>

(* The state of a broker that has exited is given up with the error.       *)
ServeListeners ==
  /\ server = "listeners" /\ AllStopped
  /\ \/ SendBroker("shutdown") /\ Goes("broker")
     \/ broker = "exited" /\ Goes("failed") /\ UNCHANGED inbox
  /\ UNCHANGED stop

ServeAwait == server = "broker" /\ broker = "exited" /\ Goes("done") /\ UNCHANGED <<inbox, stop>>

ServerStep ==
  \/ ServeSignal \/ ServeBroker \/ ServeListener \/ ServeStopping
  \/ ServeRest \/ ServeListeners \/ ServeAwait
-----------------------------------------------------------------------------
(* Snapshotter::run                                                        *)

SnapshotterStep ==
  /\ snapshotter = "running" /\ states # << >>
  /\ states' = Tail(states)
  /\ IF Head(states) = Shutdown
     THEN snapshotter' = "stopped" /\ UNCHANGED disk
     ELSE /\ disk' \in {Head(states)} \cup (IF "store" \in Faults THEN {disk} ELSE {})
          /\ UNCHANGED snapshotter
  /\ UNCHANGED <<task, heads, sidecar, app>>
-----------------------------------------------------------------------------
(* The sidecars, EdgeHubBootstrap::run and App::run                        *)

SidecarPanics(s) ==
  /\ "panic" \in Faults /\ sidecar[s] = "running"
  /\ sidecar' = [sidecar EXCEPT ![s] = "stopped"]
  /\ UNCHANGED <<task, heads, store, app>>

SidecarStops(s) ==
  /\ sidecar[s] = "asked"
  /\ sidecar' = [sidecar EXCEPT ![s] = "stopped"]
  /\ UNCHANGED <<task, heads, store, app>>

AskAll == sidecar' = [s \in Sidecars |-> IF sidecar[s] = "stopped" THEN "stopped" ELSE "asked"]

Served == server \in {"done", "failed"}
NoSidecar == \A s \in Sidecars : sidecar[s] = "stopped"
Result == IF server = "done" THEN "shutdown" ELSE "failed"

ServerFirst ==
  /\ app = "select" /\ Served
  /\ AskAll /\ app' = "sidecars" /\ UNCHANGED <<task, heads, store>>

SidecarsEnded ==
  /\ app = "sidecars" /\ NoSidecar
  /\ app' = Result /\ UNCHANGED <<task, heads, sidecar, store>>

SidecarFirst ==
  /\ app = "select" /\ ~Served
  /\ \E s \in Sidecars : sidecar[s] = "stopped"
  /\ AskAll /\ app' = "rest" /\ UNCHANGED <<task, heads, store>>

RestEnded ==
  /\ app = "rest" /\ NoSidecar
  /\ \/ SendBroker("shutdown") /\ app' = "server"
     \/ broker = "exited" /\ app' = "failed" /\ UNCHANGED inbox
  /\ UNCHANGED <<broker, version, unready, heads, sidecar, store>>

ServerEnded ==
  /\ app = "server" /\ Served
  /\ app' = Result /\ UNCHANGED <<task, heads, sidecar, store>>

StopSnapshotter ==
  /\ app = "shutdown" /\ Len(states) < ChannelSize
  /\ states' = Append(states, Shutdown) /\ app' = "join"
  /\ UNCHANGED <<task, heads, sidecar, snapshotter, disk>>

MutJoined == TRUE

Joined == snapshotter = "stopped"

StoreState ==
  /\ app = "join" /\ Joined
  /\ \/ disk' = version /\ app' = "exit"
     \/ "store" \in Faults /\ app' = "failed" /\ UNCHANGED disk
  /\ UNCHANGED <<task, heads, sidecar, states, snapshotter>>

(* Until the process has exited its tasks may go on.                       *)
Exit == app = "exit" /\ app' = "done" /\ UNCHANGED <<task, heads, sidecar, store>>

AppStep ==
  \/ ServerFirst \/ SidecarsEnded \/ SidecarFirst \/ RestEnded \/ ServerEnded
  \/ StopSnapshotter \/ StoreState \/ Exit
-----------------------------------------------------------------------------
Process ==
  \/ BrokerStep \/ (\E l \in Listeners : ListenerStep(l)) \/ ServerStep
  \/ SnapshotterStep \/ (\E s \in Sidecars : SidecarStops(s)) \/ AppStep

(* When App::run returns, the process exits with all its tasks.            *)
MNext ==
  /\ ~Ended
  /\ \/ Change \/ SnapshotTick \/ Command \/ ShutdownSignal
     \/ (\E l \in Listeners : ListenFails(l)) \/ (\E s \in Sidecars : SidecarPanics(s))
     \/ Process

MSpec == MInit /\ [][MNext]_mvars

(* Every task that can go on does, in its turn.                            *)
FairMSpec ==
  /\ MSpec
  /\ WF_mvars(~Ended /\ BrokerStep) /\ WF_mvars(~Ended /\ ServerStep)
  /\ WF_mvars(~Ended /\ SnapshotterStep) /\ WF_mvars(~Ended /\ AppStep)
  /\ \A l \in Listeners : WF_mvars(~Ended /\ ListenerStep(l))
  /\ \A s \in Sidecars : WF_mvars(~Ended /\ SidecarStops(s))
-----------------------------------------------------------------------------
(* A snapshot never replaces a later one: those that wait in the channel   *)
(* when the process ends are stored before the last state, not after it.   *)
SnapshotsAdvance == [][disk' >= disk]_mvars

(* A process that ends without an error has stored the state the broker    *)
(* had at its end, and no queued snapshot has taken its place.             *)
FinalStateSaved == app \in {"exit", "done"} => disk = version

(* Shutdown is a trigger of persistence: when the process has ended, the   *)
(* state the broker had at its end is stored.                              *)
ShutdownPersists == Ended => disk = version

SomeEnded ==
  \/ broker = "exited"
  \/ \E l \in Listeners : listener[l] = "stopped"
  \/ \E s \in Sidecars : sidecar[s] = "stopped"

(* No half of a process stays behind: when a signal has come or one of the *)
(* broker, the transports and the sidecars has ended, the others are ended *)
(* too, whatever ends meanwhile.                                           *)
EndsTogether ==
  []<>(signal \/ SomeEnded => Ended)
=============================================================================
