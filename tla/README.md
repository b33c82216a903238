# Specifications of IoT Edge

This directory models the parts of IoT Edge in which several tasks, connections,
processes or restarts meet: the MQTT broker with its sessions, clients, process and
bridge (`mqtt/`, Rust), the security daemon (`edgelet/`, Rust), and the store and
forward, the twins and the reconciliation of the Edge Hub and the Edge Agent
(`edge-hub/`, `edge-agent/`, C#).  TLC checks the modules on small instances; TLAPS
proves the theorems listed below for every value of the constants.

## The system and the modules

| Part | Source | Modules |
|---|---|---|
| Queue of a session | `mqtt-broker/src/session/state/queue.rs` | `BoundedQueue`, `QueueSpec` |
| Session state, identifiers, snapshots of a session | `mqtt-broker/src/session/` | `Session` |
| Delivery to a client | `session/`, `connection/`, `mqtt3/src/client/publish.rs` | `SessionDelivery` |
| Publications of a client | `broker.rs`, `mqtt3/src/client/` | `InboundDelivery` |
| Connections and sessions of the broker | `broker.rs`, `connection/mod.rs`, `state_change.rs` | `Broker` |
| State on disk | `persist.rs` | `FilePersistor` |
| Process of the broker | `mqttd/src/app/`, `snapshot.rs`, `server.rs`, `ready.rs`, `sidecar.rs` | `Mqttd`, `Sidecar` |
| Subscriptions of the MQTT client | `mqtt3/src/client/subscriptions.rs` | `ClientSubscriptions` |
| Bridge: rules and RPC commands | `mqtt-bridge/src/` | `UpstreamPump` |
| Bridge: channels of the pumps | `mqtt-bridge/src/pump/`, `client.rs` | `PumpChannels` |
| Bridge: store | `mqtt-bridge/src/persist/`, `pump/egress.rs` | `BridgeStore` |
| Bridge controller | `mqtt-bridge/src/controller/`, `bridge.rs` | `BridgeController`, `Sidecar` |
| Security daemon: start | `edgelet/iotedged/src/lib.rs`, `provisioning/`, `dps/` | `Daemon` |
| Security daemon: service | `edgelet-core/src/watchdog.rs`, `edgelet-http-mgmt/`, `edgelet-iothub/` | `Management` |
| Edge Agent | `edge-agent/.../Core/`, `Docker/`, `Edgelet/` | `EdgeAgent` |
| Edge Hub: store and forward | `Routing.Core/`, `Hub.Core/storage/`, `Hub.Core/routing/`, `Edge.Storage/` | `StoreForward` |
| Edge Hub: twins | `Hub.Core/twin/`, `DeviceConnectivityManager.cs` | `TwinSync` |

`PROJECT.json` repeats this inventory with the sources of every part, the parts
that are not modelled and why, maps each definition to the lines it translates,
and lists the hazards of the code with the properties that would show them.

How the parts interact.  In the broker every connection has two tasks:
`incoming_task` reads packets and sends each as a message *naming the client* into
the broker's channel, `outgoing_task` writes what the broker sends to the
connection.  One task owns all sessions and takes the messages one at a time, so a
handler is atomic and everything else interleaves.  The process runs the broker
beside a server, a snapshotter and two sidecars; one of these controls the bridge to
the upstream broker.  The security daemon provisions the device, removes the
modules of an older identity and then serves requests, of the Edge Agent above all,
which brings the modules to what a deployment says.  The Edge Hub stores messages
and twins on disk and forwards them when the cloud can be reached.

### The broker and its clients

`BoundedQueue` has the operators of the queue (limits by count and by bytes,
`DropNew` and `DropOld`; a publication is its payload length) and `QueueSpec` its
life under any sequence of calls.  `Session` extends it and models `SessionState`:
pools of identifiers that wrap from `MaxId` to 1, the insertion-ordered indexes of
what is outstanding, what QoS 2 publications hold until PUBREL, subscriptions, and
one operator per method.  Handlers with loops (resuming a session, loading a
snapshot) run turn by turn: `status` names the loop, and no other action is enabled
until it is done, which is what owning the session means.  Its client is
unconstrained: it may acknowledge anything at any time.

`SessionDelivery` puts a real client on the other side: the outgoing task, a network
that loses a suffix of what is on its way, the receiving half of the client,
reconnects, and acknowledgements of a broken connection that come late; with
`Takeovers` the client is back before the broker has noticed the break.
`InboundDelivery` is the other direction: the identifiers of the client, what it
sends again, and the handlers of PUBLISH and PUBREL, across breaks and restarts of
the broker.  After some errors the client asks for a clean session (`Resets`).  A
publication of QoS 2 that the broker delivers meanwhile is only what it does to the
client's identifiers: its PUBREL frees the broker's number in the client's own pool,
where a publication of the client may use it (`freed`, bounded by `MaxFreed`).

`Broker` models the tasks of every connection, the broker's channel, the session
table with takeovers, the three closing messages, wills, retained state topics,
updates of the authorization, snapshots, shutdown, failure and start.  Every
connection has a will; authentication and refused protocol versions are part of
"not allowed"; subscriptions are always authorized; the set of allowed clients
survives a restart.  Handlers have no branch for a failed send, which `SendsSucceed`
justifies.  `FilePersistor` has a step for every system call of `store`, each of
which may fail, with crashes anywhere; names of files are pairs of clock and
sequence number.

`Mqttd` is the process: who starts, waits for and stops whom, the bounded channel
of the snapshotter, and what a failure of any part does to the others.  A state of
the broker is its number.

### The bridge

`ClientSubscriptions` combines updates into packets, keeps them until they are
acknowledged, and folds or repeats them on a new connection.  `UpstreamPump` extends
it with the rules and the RPC commands of the remote pump; the updates of one event
are handled in one step, though the handler waits for room in the local pump between
them: the client is not polled meanwhile, so at most one command is entered, which
comes to the same before or after the event.  `PumpChannels` counts the messages of
each kind in the channels of the two pumps (commands, their answers, publications and
changes of connectivity from upstream, updates of the configuration) and tells who
waits for whom.  A command for a filter that another one waits for takes its entry,
and the earlier one is never answered (`overwritten`).
`BridgeStore` is the store with its waker, the loader in batches and the egress
with its limit in flight.  `BridgeController` starts, restarts and stops the bridge;
it takes it that the channels of the pumps have room for a shutdown, which
`PumpChannels` is about.  It implements `Sidecar`, what the process relies on.

### Daemon, agent and hub

`Daemon` is a start of the security daemon, one write, removal or request at a time,
in every mode of provisioning, and a request to provision again: it waits in the
channel of `start_api` (`requested`), is taken if dynamic reprovisioning is on, is lost
with a shutdown or a restart of the API, and only when the services have ended
(`"stopping"`) does `reprovision` remove the backup.  `Management` has the watchdog and
the handlers of the management API that change something, one call of the container
runtime or of the hub at a time.  Of an identity it has only whether it exists: keys
and generations are left out, because an update takes the generation of its request as
it is.  `EdgeAgent` has the loop of the agent: planner, plan runner with
retries, restart policy, config store, reports and shutdown.  Times of cool-off and
intensive care are nondeterministic (`due`); the plan runner and the restart policy
share one bound on restarts; the update of the agent itself
(`HealthRestartPlanner.cs:375-394`) is not modelled.

`StoreForward` has the dispatch of a message to its queues, the store of bodies with
reference counts, the sequential store of every queue, the pump of an endpoint over
its priorities with a reader that fetches ahead, the state machine of a queue with
checkpoints, retries, death and revival, and the cleanup, one write at a time.  A
failed send means that the message did not arrive; retries are unlimited as in
`RoutingModule.cs:371-393`.  Removed endpoints, changed routes, priorities that are
added later and errors of reads are left out.  `TwinSync` has the desired properties
of a client, which come as updates or as whole twins to several handlers at once,
and the reported ones, merged on disk and sent by a loop and after reconnections;
errors of the store are left out, and a client makes its next report after the
signal of the last one.

`MC*` modules put parts that run by themselves into one run: a variable (`which`,
`serving`, `part`) tells the part that moves, and the others stay as they are.
`*Proofs` modules hold the theorems.

## Runs

All bounds are constants of the modules.  Deadlock is not checked, because every
part may rest once its bounded inputs are used up.

| Run | Parts and bounds | Distinct states |
|---|---|---|
| `session` | a session under any client (3 identifiers, window 2, queue 1, 2 filters); a queue (5 publications of 5 lengths, limits 3 and 4, both actions); deliveries (3 publications, 2 breaks); the persistor (4 stores, 3 instants, 2 files kept) | 513,182 |
| `clients` | 2 publications, 2 breaks and a restart; 4 publications with 2 identifiers and a break, one identifier freed by the broker in either; 3 connections of one client with an update, a failure and a restart | 3,067,114 |
| `broker` | 2 clients, 2 connections, a subscription, an update, a graceful restart; takeovers with 2 publications of QoS 1 or 2 | 843,262 |
| `services` | the process with four faults; 2 connections; the controller (2 failures, 2 updates); a client that publishes (2 publications, a break, a restart) while the broker delivers; the hub (2 messages, a crash, a fault) | 245,780 |
| `daemon` | a start (4 configurations, 2 failures, an edit, a stop or request to provision again); 2 requests of the management API beside the watchdog; the agent (2 modules, 3 deployments, an exit, a fault, a restart) | 505,646 |
| `hub` | two endpoints that share a message; 3 messages of 2 clients with a crash and a fault; 2 priorities; entire queues; desired properties with 2 handlers; 2 reports with a restart | 2,516,588 |
| `bridge` | subscriptions (4 updates, 2 breaks); rules and commands; refused filters; channels of capacity 2 with 4 commands, 4 messages and an update; the store (6 publications, batches of 2) | 798,215 |

What they show is in their `about` in `PROJECT.json` and in the comment on every
property.  The bounds let the interesting cases happen: identifiers are so few that
a wrap meets one in use; windows, channels and batches are smaller than what goes
through them; two breaks are needed for a redelivery that is itself cut off; three
connections for a message of the first to meet the session of the third; two queues
of one message for a body to be shared; two handlers for a twin that is fetched
earlier and stored later.  `MaxUpdates` of the controller is bounded because its
loop looks at messages first, and endless updates would keep it from the bridge.

Five runs are expected to find a violation.  Each records where the code and what
is written about it differ; `findings` in `PROJECT.json` quotes the line.
`inbound_twice`: the client publishes again what waits for PUBCOMP, and a broker that
has released it takes it for new.  `daemon_obsolete`: a start that ends between the
registration and the removal of modules leaves modules with obsolete keys.
`channels_deadlock`: with more before each pump than its channel holds each waits for
the other, and nothing given to the bridge is carried out.  `shutdown_lost`: a broker that ends by itself while the server
waits for its transports takes the last state with it.  `hub_torn`: a cleanup removes
a body that another queue has just taken up.

### Conditional properties

Some properties except cases in which the code does something else:

* `SizeBounded` is about `DropNew`: `DropOld` removes one publication and adds the
  new one, so the total may exceed `max_size` (`queue.rs:95`).
* `Qos2InOrder` allows one break: a PUBREC that is repeated after a second one moves
  its identifier behind later ones (`state/mod.rs:205`).
* `MCNothingStranded` is about deliveries without takeovers: a takeover sends nothing
  outstanding again (`broker.rs:779`).
* QoS 0 identifiers are not given back at a reconnect (`offline.rs:53`); the runs
  have more identifiers than breaks can use up.
* `MCConfirmedPassed` has as many identifiers as publications; one that is reused at
  once may meet a late acknowledgement.
* `ForgottenAtMostFreed` allows one forgotten publication for each identifier that a
  PUBREL of the broker freed while a publication of the client had it
  (`publish.rs:152`): the next publication gets the same identifier and takes its place.
* `AllOnTheirWay` excepts commands whose entry a later one for the same filter took
  (`rpc/mod.rs:117`).  `NeverStuck` is about at most `Capacity + 1` messages before one of
  the two processors; with more before both, the pumps may wait for each other.
* `FilePersistor` is checked with `ClockSteady`: after the clock stepped back a store
  prunes the file it has just linked (`persist.rs:377`).
* `NoZombie` does not say that only the session's own connection ends it
  (`broker.rs:436`).  `SubscriptionsListed` is an inclusion: a takeover by a clean
  session leaves the topic as it was (`broker.rs:381`).  `ConnectedTopicExact` is
  about graceful shutdowns: after a failure the loaded topics tell of clients that
  are gone (`broker.rs:1035`).
* `ServingSound` excepts keys after a start that was interrupted between registration
  and removal, the case of `daemon_obsolete`.  `ReprovisionHeeded` is about requests that
  stopped the services and led to the removal of the backup: a daemon that fails in
  between restores it.
* `OwnContainer` is about requests with no other one for the same module during or
  after them: handlers take no lock, and two requests may undo each other's work.
* `BeliefTrue` and `Converges` except the options of modules after a call failed or a
  plan was cut off (`Agent.cs:168`); an empty plan leaves the reported version behind.
* `Kept` excepts torn messages, the case of `hub_torn`, and does not hold if messages
  expire *and* `CheckEntireQueue` is set: an expired entry is then taken from the tail
  and the next message gets its offset, which a checkpoint may have passed.
* `DesiredTold` excepts hubs in which an older twin was stored over a newer one, which
  `TwinStore.Update` allows on purpose, the reader of a twin was gone, or the call of the
  client's proxy failed (`StoringTwinManager.cs:234`).
  `ReportsKept` promises that the patch is sent only if the last try did not fail and
  the hub was not restarted: after that nobody tries before the next report or
  reconnection.

## Fairness

Every fair step is a loop of the code that runs while it has input, or a call that
is retried: the tasks of broker, connections and client, reconnecting with a
back-off, the tasks of the process, the bridge and the controller, the remote pump,
the loader and egress, the watchdog and the daemon that is started again, the loop of
the agent.  These are weakly fair.  Strongly fair are steps that something else may
disable again and again but that the code tries for ever: a send of the hub that
succeeds, its cleanup of a queue, and the timer, the retry and the success of a call
of the agent.  Clients, networks, files, failures and restarts owe nothing and are
bounded: after the last one there is quiet for long enough.

## Proofs

| Module | Theorems (properties that a run checks are set in bold) |
|---|---|
| `SessionProofs` | `TypeOK`, `SendWindow`, `Qos0IdsReserved`, `QueueLenBounded`, `SendOrderTotal`, **`RedeliveryComplete`** |
| `BrokerProofs` | `TypeOK`, **`OnlyAllowedConnected`**, `SubscriptionsListed`; `ConnectedTopicExact` and **`StateTopicsExact`** for a broker that is only shut down gracefully |
| `HandleProofs` | **`SendsSucceed`**, **`WillOnce`**, **`NoZombie`** |
| `ProcessProofs` | **`LinkValid`**, `TempRemovable`, **`Durable`**, for a steady clock; **`SnapshotsAdvance`**, `FinalStateSaved`; `PTypeOK`, **`AllOnTheirWay`**, **`NeverStuck`**; **`StoreExact`** |
| `DaemonProofs` | **`ServingSound`**, **`ReprovisionHeeded`** |
| `HubPumpProofs`, `HubProofs` | **`Kept`**, **`OrderKept`**, if nothing expires or the cleanup looks at the head of a queue only |
| `TwinProofs` | **`ReportsKept`**, **`DesiredTold`** |

The assumptions are the named `ASSUME`s of the modules, which the runs evaluate, and
the hypotheses that a theorem states.

*Session.*  All handlers are compositions of a few changes of the state, so the
inductive invariant `Sound(s)` is about a state: besides the properties it says
that identifiers in the QoS 0 index are reserved, that the two indexes split by
QoS, and that insertion numbers are below the next one.  One lemma per change,
one step per action.  The window of the session is counted with the library's
theorems on cardinality.  Redelivery adds what the loops have collected so far:
everything below the position of the loop, in order, and nothing else.

*Broker.*  A session has a handle exactly while it is online, and an online
client is allowed, because connecting tests the permission and an update drops
who lost it.  The topics are exact, and so is what a graceful shutdown saves: that
needs the saved snapshot in the invariant, and fails for one saved with clients
connected, which is why the theorem assumes `~Failures`.  That no subscription is
missed (`ListedInv`) needs no such assumption, because topics and sessions are saved
together.

*Handles.*  `SendsSucceed` is not inductive: that a connection was not told to
stop depends on who else may have its handle.  `HInv` therefore says that a handle
has at most one holder, a session or a request in the channel, of the
connection's own client (`OneHolder`); that the connection of a held handle still
listens and its will was not published (`HeldLive`); that a connection not yet
made was sent nothing (`UnusedQuiet`); and that a holder whose connection has
stopped reading is followed, *behind* its request if it is one, by a message that
closes the session (`EndFollows`).  `HandlerKeeps` covers every handler that
only releases handles; accepting a connection is the one that moves a handle, from
a request to a session.

*Process and bridge.*  `FileInv` follows `store`: from which step on the new file
is complete, what the temporary link names, that the files to prune are older
than the one the link names (which needs the steady clock), and that `committed`
is at least `acked`.  `ProcessInv`: what is in the channel of the snapshotter is
sorted and later than what is on disk, and the last state is stored behind all of
it.  `ChannelsInv`: every command without an answer is at one place, or its entry was
taken.  That the pumps cannot wait in a circle follows from the types alone: if no
step of `Flow` is possible, the local client holds a command and the remote client or
processor something for the local pump, both channels are full and both processors
busy, which makes `Capacity + 2` before each.  `StoreInv`: a publication is its offset, so that *started*, *batch*
and *queue* are consecutive intervals of numbers, and what is loaded is what is in
flight, published or in the batch.  That egress repeats nothing then needs no
reasoning on the history.

*Daemon.*  `Inv` says what each file on disk and each module owes to the settings,
the certificate and the identity under which it was made (`Saved`, `Sourced`,
`KeyReady`), step by step of the start, so that a start that finds the files as it
would write them may keep the modules; `Traced` relates keys to the generation of
the device's identity, and excepts interrupted registrations, the finding of
`daemon_obsolete`; `Asked` follows a request to provision again: from the removal
of the backup until the service has answered there is nothing to restore.

*Store and forward.*  That a pending message keeps its entry and its body depends on
all that happens around a queue, so `HubInv` says where everything is.  `Laid`: the
entries of a queue have exactly the offsets from head to tail, in which lie the saved
checkpoint, the checkpoint in memory and the reader.  `ReadOn`: what is pending is
behind the checkpoint, and as far as the reader has come it is with the reader or,
before all of that, with the pump.  `Pumping`: what is to be checkpointed was settled
or failed.  `Cleaning`: the cleanup has the head of a queue in hand, and the queue is
done with it.  `Counted`: the count of a body is at least the number of queues that
refer to it or are about to, less the one the cleanup is just counting off; a body
torn by a crash or by the race of `hub_torn` is excepted, as in `Kept`.
`OneQueue` reduces the steps of a pump to what they do to its own queue, and
`QueuesFrame` those that touch no queue.  The hypothesis is needed: if an expired
entry is taken from the tail of a queue, the next message gets an offset that a
checkpoint may have passed, and `Laid` fails.  For `OrderKept`, `Ordered` adds that a
pending message appended earlier has the smaller offset; a batch is a prefix of what
is pending, so what is sent from it and what fails cut it along the lanes.

*Twins.*  Reports: `ReportInv` says that the cloud's values overlaid with the patch on
disk are what the client wrote, that whoever sends holds the lock, that the patch in
their hands is the one on disk (`Sent`), and that a patch that is not empty has someone
who has yet to look at it (`Watched`).  Desired properties: `DesiredInv` says from
which stored version each handler computes its patch (`FromStored`) and that a client
was told, or a handler is about to tell it, of every change after the twin it got
(`ToldAfter`), also while that twin is still on its way (`Answers`).

Out of the prover's reach, and checked by TLC only: all liveness
(`EventuallyDelivered`, `EndsTogether`, `BridgeRuns`, `EventuallyConfirmed`,
`HubSettles`, `ConnectionsEnd`, `MCProgress`, `Converges`, `MCSettles`), because it
rests on fairness and `ENABLED`, and with it the liveness that `ImplementsSidecar`
includes; and `QueueExact`, whose sum of lengths over a queue is a recursive
definition over data.  Not proved so far, though they are safety properties: `NothingForgotten`,
`AcceptedInOrder`, `OnceInTurn` and `MCNothingStranded` of deliveries,
`MCConfirmedPassed` and `ForgottenAtMostFreed` of publications, `OwnContainer` and `BeliefTrue` of daemon and
agent, `PriorityFirst` of the hub, `MCSubscribed` and `MCRpcExact` of the bridge.

## Not modelled

`PROJECT.json` has the list.  Topic filters, policies, routes, settings and packet
formats are computations or formats without concurrency; protocol heads, transports,
the HSM and HTTP services are input and output; the Kubernetes operator, edge modules,
tools and tests are other programs.
