---------------------------- MODULE PumpChannels ----------------------------
(***************************************************************************)
(* Who waits for whom in the upstream bridge (mqtt-bridge/src): each pump  *)
(* has a bounded channel of messages (pump/builder.rs), a processor that   *)
(* waits for the MQTT client of its pump (pump/messages.rs), and a client  *)
(* that is not polled while its event handler waits for room in the other  *)
(* pump's channel (handle_events of client.rs).  The local client receives *)
(* RPC commands for the remote pump; the remote client receives            *)
(* acknowledgements, publications and changes of connectivity for the      *)
(* local pump, which publishes them.  Updates of the configuration go      *)
(* through both channels.  Messages are counted, and so are the commands   *)
(* that RpcSubscriptions keeps by filter: their order and their filters    *)
(* make no difference to who waits, and UpstreamPump has them.             *)
(***************************************************************************)
EXTENDS Naturals

CONSTANTS
  Capacity,    \* of mpsc::channel
  MaxGiven,    \* bound: commands
  MaxMessages, \* bound: publications and changes of connectivity from upstream
  MaxConfigs   \* bound: updates of the configuration

ASSUME ChannelsAssumption ==
  /\ Capacity \in Nat \ {0}
  /\ MaxGiven \in Nat /\ MaxMessages \in Nat /\ MaxConfigs \in Nat

VARIABLES
  given, replied,     \* commands given and answered
  overwritten,        \* history: commands whose entry a later one took
  entries,            \* commands in RpcSubscriptions
  local_client,       \* "polled", or holds a "command" for the remote pump
  remote_commands, remote_changes, \* in the channel of the remote pump
  remote_processor,   \* "idle", or busy: "update", "enter", "publish", "answer", "change"
  remote_client,      \* "polled", or holds an "ack" or a "message" for the local pump
  local_acks, local_messages, \* in the channel of the local pump
  local_processor,    \* "idle", or works on an "ack" or a "message"
  updater,            \* "idle", or sends its update to the pump "local" or "remote"
  arrived, changes    \* messages from upstream and updates so far

local == <<local_client, local_processor>>
remote == <<remote_client, remote_processor>>
remote_channel == <<remote_commands, remote_changes>>
local_channel == <<local_acks, local_messages>>
told == <<given, replied, overwritten, arrived, changes>>
pvars == <<told, entries, local, remote, remote_channel, local_channel, updater>>

RemoteRoom == remote_commands + remote_changes < Capacity
LocalRoom == local_acks + local_messages < Capacity

(* A message enters the channel of the local pump.                         *)
ToLocal(m) ==
  /\ LocalRoom
  /\ local_acks' = local_acks + (IF m = "ack" THEN 1 ELSE 0)
  /\ local_messages' = local_messages + (IF m = "message" THEN 1 ELSE 0)

(* handle_publication of LocalRpcMqttEventHandler: the command is sent to  *)
(* the remote pump, as soon as its channel has room.                       *)
ReceiveCommand ==
  /\ local_client = "polled"
  /\ given < MaxGiven
  /\ given' = given + 1
  /\ local_client' = "command"
  /\ UNCHANGED <<replied, overwritten, arrived, changes, entries, local_processor, remote,
                 remote_channel, local_channel, updater>>

PassCommand ==
  /\ local_client = "command"
  /\ RemoteRoom
  /\ remote_commands' = remote_commands + 1
  /\ local_client' = "polled"
  /\ UNCHANGED <<told, entries, local_processor, remote, remote_changes, local_channel, updater>>

(* send_update of BridgeHandle: what concerns the local pump is sent to it *)
(* first, and then what concerns the remote pump.                          *)
StartUpdate ==
  /\ updater = "idle"
  /\ changes < MaxConfigs
  /\ changes' = changes + 1
  /\ updater' \in {"local", "remote"}
  /\ UNCHANGED <<given, replied, overwritten, arrived, entries, local, remote, remote_channel,
                 local_channel>>

UpdateLocal ==
  /\ updater = "local"
  /\ ToLocal("message")
  /\ updater' \in {"idle", "remote"}
  /\ UNCHANGED <<told, entries, local, remote, remote_channel>>

UpdateRemote ==
  /\ updater = "remote"
  /\ RemoteRoom
  /\ remote_changes' = remote_changes + 1
  /\ updater' = "idle"
  /\ UNCHANGED <<told, entries, local, remote, remote_commands, local_channel>>

(* The remote processor takes a command, whatever it asks for, or an       *)
(* update of the configuration.                                            *)
TakeRemote ==
  /\ remote_processor = "idle"
  /\ \/ /\ remote_commands > 0
        /\ remote_commands' = remote_commands - 1
        /\ remote_processor' \in {"update", "publish"}
        /\ UNCHANGED remote_changes
     \/ /\ remote_changes > 0
        /\ remote_changes' = remote_changes - 1
        /\ remote_processor' = "change"
        /\ UNCHANGED remote_commands
  /\ UNCHANGED <<told, entries, local, remote_client, local_channel, updater>>

(* The remote client takes the update of a subscription, of a command or   *)
(* the last one of a change of the configuration, or completes the         *)
(* publication, for which the processor waits.                             *)
ServeRemote ==
  /\ remote_client = "polled"
  /\ \/ remote_processor = "update" /\ remote_processor' = "enter"
     \/ remote_processor = "publish" /\ remote_processor' = "answer"
     \/ remote_processor = "change" /\ remote_processor' = "idle"
  /\ UNCHANGED <<told, entries, local, remote_client, remote_channel, local_channel, updater>>

(* handle_subscribe and handle_unsubscribe enter the command, over the     *)
(* entry of an earlier command for the same filter if there is one.        *)
EnterCommand ==
  /\ remote_processor = "enter"
  /\ remote_processor' = "idle"
  /\ \/ entries' = entries + 1 /\ UNCHANGED overwritten
     \/ entries > 0 /\ overwritten' = overwritten + 1 /\ UNCHANGED entries
  /\ UNCHANGED <<given, replied, arrived, changes, local, remote_client, remote_channel,
                 local_channel, updater>>

(* handle_publish sends its answer to the local pump.                      *)
AnswerPublish ==
  /\ remote_processor = "answer"
  /\ ToLocal("ack")
  /\ remote_processor' = "idle"
  /\ UNCHANGED <<told, entries, local, remote_client, remote_channel, updater>>

(* handle_subscription_update finds an entry for the filter of an          *)
(* acknowledgement, removes it and has its answer to send.                 *)
FindEntry ==
  /\ entries > 0
  /\ entries' = entries - 1
  /\ remote_client' = "ack"

(* RemoteUpstreamMqttEventHandler::handle gets acknowledgements, the first *)
(* of which with an entry is answered.  One without an entry answers       *)
(* nothing, and is no step of this module.                                 *)
ReceiveAcks ==
  /\ remote_client = "polled"
  /\ FindEntry
  /\ UNCHANGED <<told, local, remote_processor, remote_channel, local_channel, updater>>

(* It gets a publication or a change of connectivity for the local pump.   *)
ReceiveMessage ==
  /\ remote_client = "polled"
  /\ arrived < MaxMessages
  /\ arrived' = arrived + 1
  /\ remote_client' = "message"
  /\ UNCHANGED <<given, replied, overwritten, changes, entries, local, remote_processor,
                 remote_channel, local_channel, updater>>

(* Mutant: the handler that finds the channel full drops what it holds.    *)
MutPassLocal ==
  /\ remote_client # "polled"
  /\ IF LocalRoom THEN ToLocal(remote_client) ELSE UNCHANGED local_channel
  /\ remote_client' = "polled"
  /\ UNCHANGED <<told, entries, local, remote_processor, remote_channel, updater>>

(* What it holds is sent to the local pump, and then the handler is done,  *)
(* or goes on with the next acknowledgement of the event.                  *)
PassLocal ==
  /\ remote_client # "polled"
  /\ ToLocal(remote_client)
  /\ \/ remote_client' = "polled" /\ UNCHANGED entries
     \/ remote_client = "ack" /\ FindEntry
  /\ UNCHANGED <<told, local, remote_processor, remote_channel, updater>>

(* The local processor takes a message ...                                 *)
TakeLocal ==
  /\ local_processor = "idle"
  /\ \/ /\ local_acks > 0
        /\ local_acks' = local_acks - 1
        /\ local_processor' = "ack"
        /\ UNCHANGED local_messages
     \/ /\ local_messages > 0
        /\ local_messages' = local_messages - 1
        /\ local_processor' = "message"
        /\ UNCHANGED local_acks
  /\ UNCHANGED <<told, entries, local_client, remote, remote_channel, updater>>

(* Mutant: one loop polls both clients, and waits for the handler of each. *)
MutLocalServes ==
  local_client = "polled" /\ remote_client = "polled" /\ local_processor # "idle"

LocalServes == local_client = "polled" /\ local_processor # "idle"

(* ... and waits until the local client has published it, or has taken the *)
(* last update of a subscription.                                          *)
ServeLocal ==
  /\ LocalServes
  /\ replied' = replied + (IF local_processor = "ack" THEN 1 ELSE 0)
  /\ local_processor' = "idle"
  /\ UNCHANGED <<given, overwritten, arrived, changes, entries, local_client, remote,
                 remote_channel, local_channel, updater>>

PInit ==
  /\ given = 0 /\ replied = 0 /\ overwritten = 0 /\ arrived = 0 /\ changes = 0 /\ entries = 0
  /\ local_client = "polled" /\ remote_client = "polled"
  /\ local_processor = "idle" /\ remote_processor = "idle" /\ updater = "idle"
  /\ remote_commands = 0 /\ remote_changes = 0 /\ local_acks = 0 /\ local_messages = 0

(* What the bridge does with what it has been given.                       *)
Flow ==
  \/ PassCommand \/ UpdateLocal \/ UpdateRemote \/ TakeRemote \/ ServeRemote \/ EnterCommand
  \/ AnswerPublish \/ PassLocal \/ TakeLocal \/ ServeLocal

PNext == ReceiveCommand \/ StartUpdate \/ ReceiveAcks \/ ReceiveMessage \/ Flow

PSpec == PInit /\ [][PNext]_pvars

(* The tasks of the bridge and of its controller run, and the brokers take *)
(* the packets of their clients.                                           *)
FairPSpec == PSpec /\ WF_pvars(Flow)
-----------------------------------------------------------------------------
(* Counts and states have their types, and no channel holds more than its  *)
(* capacity.                                                               *)
PTypeOK ==
  /\ given \in Nat /\ replied \in Nat /\ overwritten \in Nat
  /\ arrived \in Nat /\ changes \in Nat /\ entries \in Nat
  /\ local_client \in {"polled", "command"}
  /\ remote_client \in {"polled", "ack", "message"}
  /\ local_processor \in {"idle", "ack", "message"}
  /\ remote_processor \in {"idle", "update", "enter", "publish", "answer", "change"}
  /\ updater \in {"idle", "local", "remote"}
  /\ remote_commands \in Nat /\ remote_changes \in Nat
  /\ remote_commands + remote_changes <= Capacity
  /\ local_acks \in Nat /\ local_messages \in Nat /\ local_acks + local_messages <= Capacity

One(b) == IF b THEN 1 ELSE 0

(* The commands under way, as the actions above move them.                 *)
Unanswered ==
  One(local_client = "command") + remote_commands
    + One(remote_processor \in {"update", "enter", "publish", "answer"}) + entries
    + One(remote_client = "ack") + local_acks + One(local_processor = "ack")

(* No command is answered twice, and none is lost on its way unless a      *)
(* later one takes its entry: those without an answer are held by a        *)
(* client, a processor or a channel, or are entered for an acknowledgement *)
(* to come, be it one that has been here already.                          *)
AllOnTheirWay == given = replied + overwritten + Unanswered

(* What the two processors have before them.                               *)
ForRemote ==
  One(local_client = "command") + One(updater = "remote") + remote_commands + remote_changes
    + One(remote_processor # "idle")
ForLocal ==
  One(remote_client # "polled") + One(remote_processor = "answer") + One(updater = "local")
    + local_acks + local_messages + One(local_processor # "idle")

Drained == ForRemote = 0 /\ ForLocal = 0

(* Some step of Flow can be taken.                                         *)
CanFlow ==
  \/ (local_client = "command" \/ updater = "remote") /\ RemoteRoom
  \/ remote_processor = "idle" /\ remote_commands + remote_changes > 0
  \/ remote_client = "polled" /\ remote_processor \in {"update", "publish", "change"}
  \/ remote_processor = "enter"
  \/ (remote_processor = "answer" \/ remote_client # "polled" \/ updater = "local") /\ LocalRoom
  \/ local_processor = "idle" /\ local_acks + local_messages > 0
  \/ LocalServes

(* As long as one of the two processors has at most Capacity + 1 messages  *)
(* before it, commands, answers, publications and updates of the           *)
(* configuration together, the pumps do not wait for each other in a       *)
(* circle, each client for room in the channel of the other pump and each  *)
(* processor for its client, however many messages the other one has.      *)
NeverStuck ==
  ~Drained /\ (ForRemote <= Capacity + 1 \/ ForLocal <= Capacity + 1) => CanFlow

(* Enough before both processors for the circle to close.                  *)
InCircle == ForRemote >= Capacity + 2 /\ ForLocal >= Capacity + 2

(* What is given to the bridge is carried out, at any time again.          *)
CarriedOut == []<>Drained
=============================================================================
