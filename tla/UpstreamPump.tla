---------------------------- MODULE UpstreamPump ----------------------------
(***************************************************************************)
(* The remote pump of the upstream bridge (mqtt-bridge/src): updates of    *)
(* the topic rules (config_update.rs, pump/messages.rs, messages.rs) and   *)
(* RPC commands (upstream/rpc, upstream/events/remote.rs), which both use  *)
(* the subscriptions of one MQTT client.  The processor of the pump's      *)
(* messages waits until the client took an update from its channel of      *)
(* capacity 0.  The client may handle many packets, the acknowledgement of *)
(* the update among them, before the task polls the processor again.       *)
(***************************************************************************)
EXTENDS ClientSubscriptions

CONSTANTS
  RuleFilters, RpcFilters,  \* what rules and commands subscribe to
  Rules,       \* the rules a filter may have
  MaxCommands  \* bound: commands

NoRule == 0

ASSUME UpstreamAssumption ==
  /\ RuleFilters \cup RpcFilters = Filters
  /\ Rules \subseteq Nat \ {NoRule}
  /\ RuleFilters \cap RpcFilters = {}

VARIABLES
  current,        \* ConfigUpdater: [RuleFilters -> Rules \cup {NoRule}]
  mapper_updates, \* TopicMapperUpdates
  topic_mappers,  \* StoreMqttEventHandler
  pump,           \* the pump's messages, an update of several filters taken apart
  rpc,            \* RpcSubscriptions: [RpcFilters -> command, or 0]
  commands,       \* the commands given: a sequence of [kind, filter]
  answered,       \* the commands answered with an ack or a nack
  wanted,         \* history: the rules the bridge was told to apply
  superseded,     \* history: commands whose entry of rpc a later one took
  early,          \* history: commands acknowledged before they were entered in rpc
  folded          \* history: filters of whose unsubscription a reset session left no trace

rules == <<current, mapper_updates, topic_mappers>>
calls == <<rpc, commands, answered, superseded, early>>
uvars == <<cvars, rules, calls, pump, wanted, folded>>

(* diff_topic_rules: a filter whose rule changed is added again, and not   *)
(* removed first.                                                          *)
Removed(new) == {f \in RuleFilters : current[f] # NoRule /\ new[f] = NoRule}
Added(new) == {f \in RuleFilters : new[f] # NoRule /\ new[f] # current[f]}

(* ConfigUpdater::send_update.  It starts without the rules of the         *)
(* settings, so an update that leaves one of these out does not remove it. *)
ConfigUpdate(new) ==
  /\ updates < MaxUpdates
  /\ updates' = updates + 1
  /\ current' = new
  /\ wanted' = [f \in RuleFilters |-> IF f \in Removed(new) \cup Added(new) THEN new[f] ELSE wanted[f]]
  /\ pump' = pump
       \o SetToSeq({[do |-> "remove", filter |-> f, arg |-> NoRule] : f \in Removed(new)})
       \o SetToSeq({[do |-> "add", filter |-> f, arg |-> new[f]] : f \in Added(new)})
  /\ UNCHANGED <<asked, client, network, cancelled, breaks, mapper_updates, topic_mappers, calls,
                 folded>>

(* LocalRpcMqttEventHandler passes a command to the remote pump.           *)
Command(kind, f) ==
  /\ Len(commands) < MaxCommands
  /\ commands' = Append(commands, [kind |-> kind, filter |-> f])
  /\ pump' = Append(pump, [do |-> kind, filter |-> f, arg |-> Len(commands) + 1])
  /\ UNCHANGED <<cvars, rules, rpc, answered, superseded, early, wanted, folded>>

Does(what) == pump # << >> /\ Head(pump).do = what
Then(what) == pump' = [pump EXCEPT ![1].do = what]
Done == pump' = Tail(pump)

(* The client takes one update of a handle, and sends it.                  *)
Take(kind) ==
  LET f == Head(pump).filter IN
    /\ connected /\ waiting_to_be_sent = << >>
    /\ Send(<<Update(kind, f)>>)
    /\ Wants(kind, f)
    /\ folded' = folded \ {f}
    /\ UNCHANGED <<subscriptions, waiting_to_be_sent, connected, to_client, server, updates, breaks>>

(* MessagesProcessor::run removes rules: the mapper is forgotten once the  *)
(* client took the update ...                                              *)
RemoveRule ==
  /\ Does("remove") /\ Then("forget")
  /\ Take("UNSUBSCRIBE")
  /\ UNCHANGED <<rules, calls, wanted>>

ForgetMapper ==
  /\ Does("forget") /\ Done
  /\ mapper_updates' = [mapper_updates EXCEPT ![Head(pump).filter] = NoRule]
  /\ UNCHANGED <<cvars, current, topic_mappers, calls, wanted, folded>>

(* ... and adds rules: the mapper first, and then the subscription.        *)
AddMapper ==
  /\ Does("add") /\ Then("subscribe")
  /\ mapper_updates' = [mapper_updates EXCEPT ![Head(pump).filter] = Head(pump).arg]
  /\ UNCHANGED <<cvars, current, topic_mappers, calls, wanted, folded>>

AddSubscription ==
  /\ Does("subscribe") /\ Done
  /\ Take("SUBSCRIBE")
  /\ UNCHANGED <<rules, calls, wanted>>

(* handle_subscribe and handle_unsubscribe of a command: it is entered in  *)
(* rpc once the client took the update.                                    *)
RpcUpdate ==
  /\ \E kind \in {"SUBSCRIBE", "UNSUBSCRIBE"} : Does(kind) /\ Take(kind)
  /\ Then("enter")
  /\ UNCHANGED <<rules, calls, wanted>>

Waiting(f) == \E i \in DOMAIN waiting_to_be_acked : f \in waiting_to_be_acked[i].filters

(* Mutant: a command for a filter that has an entry is not entered.        *)
MutRpcEnter ==
  /\ Does("enter") /\ Done
  /\ LET f == Head(pump).filter
         i == Head(pump).arg
     IN  /\ rpc' = [rpc EXCEPT ![f] = IF @ = 0 THEN i ELSE @]
         /\ early' = IF Waiting(f) THEN early ELSE early \cup {i}
  /\ UNCHANGED <<cvars, rules, commands, answered, superseded, wanted, folded>>

RpcEnter ==
  /\ Does("enter") /\ Done
  /\ LET f == Head(pump).filter
         i == Head(pump).arg
     IN  /\ rpc' = [rpc EXCEPT ![f] = i]
         /\ superseded' = superseded \cup ({rpc[f]} \ {0})
         /\ early' = IF Waiting(f) THEN early ELSE early \cup {i}
  /\ UNCHANGED <<cvars, rules, commands, answered, wanted, folded>>

(* Mutant: a publication waits until no command has an entry.              *)
MutRpcPublish ==
  /\ Does("PUBLISH") /\ Done
  /\ connected
  /\ \A f \in RpcFilters : rpc[f] = 0
  /\ answered' = answered \cup {Head(pump).arg}
  /\ UNCHANGED <<cvars, rules, rpc, commands, superseded, early, wanted, folded>>

(* handle_publish waits for the server, and answers either way.            *)
RpcPublish ==
  /\ Does("PUBLISH") /\ Done
  /\ connected
  /\ answered' = answered \cup {Head(pump).arg}
  /\ UNCHANGED <<cvars, rules, rpc, commands, superseded, early, wanted, folded>>

(* Mutant: the rules see updates only when no command is answered.         *)
MutSubscriptionUpdates ==
  LET refused == Head(to_client).refused
      answers == {f \in RpcFilters : rpc[f] # 0 /\ f \in Granted \cup Ended \cup refused}
  IN
    /\ topic_mappers' = [f \in RuleFilters |->
         CASE answers = {} /\ f \in Granted /\ mapper_updates[f] # NoRule -> mapper_updates[f]
           [] answers = {} /\ f \in Ended \cup refused -> NoRule
           [] OTHER -> topic_mappers[f]]
    /\ answered' = answered \cup {rpc[f] : f \in answers}
    /\ rpc' = [f \in RpcFilters |-> IF f \in answers THEN 0 ELSE rpc[f]]

(* RemoteUpstreamMqttEventHandler::handle for the updates of subscriptions *)
(* in one acknowledgement: first those that answer a command, and then     *)
(* update_subscribed or update_unsubscribed for the others.                *)
SubscriptionUpdates ==
  LET refused == Head(to_client).refused
      answers == {f \in RpcFilters : rpc[f] # 0 /\ f \in Granted \cup Ended \cup refused}
  IN
    /\ topic_mappers' = [f \in RuleFilters |->
         CASE f \in Granted \ answers /\ mapper_updates[f] # NoRule -> mapper_updates[f]
           [] f \in (Ended \cup refused) \ answers -> NoRule
           [] OTHER -> topic_mappers[f]]
    /\ answered' = answered \cup {rpc[f] : f \in answers}
    /\ rpc' = [f \in RpcFilters |-> IF f \in answers THEN 0 ELSE rpc[f]]

(* The handler waits for room in the local pump between the updates of one *)
(* event.  What can be done meanwhile is one RpcEnter, as the client is    *)
(* not polled, and it comes to the same before or after the event.         *)
ReceiveUpdates ==
  /\ ReceiveAck
  /\ SubscriptionUpdates
  /\ UNCHANGED <<current, mapper_updates, commands, superseded, early, pump, wanted, folded>>

bridge == <<rules, calls, pump, wanted>>
SendInitial == SendUpdates /\ UNCHANGED <<bridge, folded>>
ServerAnswers == ServerHandles /\ UNCHANGED <<bridge, folded>>
BreakUpstream == Break /\ UNCHANGED <<bridge, folded>>

(* Unsubscriptions that were not acknowledged raise no event when they are *)
(* folded into the SUBSCRIBE of a new session.                             *)
ReconnectUpstream(reset) ==
  /\ Reconnect(reset)
  /\ folded' = IF reset THEN {f \in Filters : f \in folded \/ Waiting(f)} \ asked ELSE folded
  /\ UNCHANGED bridge

(* PumpBuilder::build and MqttClient::run: the rules of the settings.      *)
UInit ==
  \E initial \in [RuleFilters -> Rules \cup {NoRule}] :
    LET fs == {f \in RuleFilters : initial[f] # NoRule} IN
      /\ mapper_updates = initial /\ wanted = initial
      /\ current = [f \in RuleFilters |-> NoRule] /\ topic_mappers = current
      /\ CInitWith(fs)
      /\ pump = << >> /\ rpc = [f \in RpcFilters |-> 0] /\ commands = << >>
      /\ answered = {} /\ superseded = {} /\ early = {} /\ folded = {}

Process ==
  \/ RemoveRule \/ ForgetMapper \/ AddMapper \/ AddSubscription
  \/ RpcUpdate \/ RpcEnter \/ RpcPublish

(* The client reconnects, the server answers and the pump's task runs.     *)
Work ==
  \/ Process \/ ReceiveUpdates \/ SendInitial \/ ServerAnswers
  \/ \E reset \in BOOLEAN : ReconnectUpstream(reset)

UNext ==
  \/ \E new \in [RuleFilters -> Rules \cup {NoRule}] : ConfigUpdate(new)
  \/ \E f \in RpcFilters, kind \in {"SUBSCRIBE", "UNSUBSCRIBE", "PUBLISH"} : Command(kind, f)
  \/ Work \/ BreakUpstream

USpec == UInit /\ [][UNext]_uvars

FairUSpec == USpec /\ WF_uvars(Work)
-----------------------------------------------------------------------------
Idle == Quiet /\ pump = << >>

(* When nothing is under way, the bridge is subscribed to the filters that *)
(* have a rule, and applies to the messages of each the rule it was told   *)
(* last, whatever the order of updates, acks and broken connections; a     *)
(* filter the server refuses has no rule.  Left out are filters of whose   *)
(* unsubscription a reset session left no trace.                           *)
RulesApplied ==
  Idle => \A f \in RuleFilters \ folded :
            LET rule == IF f \in Rejected THEN NoRule ELSE wanted[f] IN
              topic_mappers[f] = rule /\ (f \in server <=> rule # NoRule)

(* When nothing is under way, every command was answered, unless a later   *)
(* one took its entry, its acknowledgement came before its entry, or a     *)
(* reset session swallowed its unsubscription.                             *)
RpcAnsweredUnless ==
  Idle => \A i \in DOMAIN commands :
            i \in answered \cup superseded \cup early \/ commands[i].filter \in folded

(* The last command for a filter, once it is answered, is in force at the  *)
(* server, or a packet for the filter still waits for its acknowledgement: *)
(* an entry is answered by the first acknowledgement for its filter, which *)
(* may be that of an earlier command or of a new session.                  *)
RpcCarriedOut ==
  \A i \in answered :
    LET f == commands[i].filter
        Updates == {j \in DOMAIN commands : commands[j].filter = f /\ commands[j].kind # "PUBLISH"}
    IN  i \in Updates /\ f \notin Rejected /\ (\A j \in Updates : j <= i) /\ connected
          => (commands[i].kind = "SUBSCRIBE" <=> f \in server) \/ Waiting(f)
=============================================================================
