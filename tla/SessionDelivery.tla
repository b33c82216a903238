-------------------------- MODULE SessionDelivery --------------------------
(***************************************************************************)
(* A persistent session that delivers publications to a client of the      *)
(* mqtt3 crate over connections that break: the broker's Session, the      *)
(* outgoing and incoming tasks of the connection                           *)
(* (mqtt-broker/src/connection), the network, and the receiving half of    *)
(* the client (mqtt3/src/client/publish.rs).  The topic of a publication   *)
(* is its number, so that each can be followed to the application.         *)
(***************************************************************************)
EXTENDS Session, Functions

LOCAL SE == INSTANCE SequencesExt

CONSTANTS
  MaxLosses,  \* bound: connections that break
  Takeovers   \* whether the client may be back before the broker knows

ASSUME DeliveryAssumption == MaxLosses \in Nat /\ Takeovers \in BOOLEAN

VARIABLES
  out,        \* events on their way to the connection's outgoing_task
  wire,       \* packets on their way to the client
  acks,       \* packets and acknowledgements of the connection to the broker
  stale,      \* those left by connections that are gone
  up,         \* the client's connection: "no", "connecting", "yes" or "error"
  released,   \* the client's waiting_to_be_released
  delivered,  \* publications the client gave to the application
  made,       \* publications made to the session
  dropped,    \* publications the broker gave up
  losses      \* number of connections that broke

session == <<state, status, cursor, pending, events, forwarded, published>>
client == <<up, released, delivered, losses>>
dvars == <<session, out, wire, acks, stale, client, made, dropped>>
-----------------------------------------------------------------------------
ConnAck == [type |-> "ConnAck"]
Packet(t, k) == [type |-> t, id |-> k]

Queued(s) == Range(s.waiting_to_be_sent.inner)
SentPubs(es) == {es[i].pub : i \in {j \in DOMAIN es : es[j].type = "PublishTo"}}

(* What a step of the session sends goes to the connection it belongs to;  *)
(* publications it neither sends nor queues are given up.                  *)
Dispatch(new) ==
  /\ out' = out \o events'
  /\ dropped' = dropped \cup ((Queued(state) \cup new) \ (Queued(state') \cup SentPubs(events')))

PublishNext(p) ==
  /\ p.topic = published + 1
  /\ Publish(p)
  /\ Dispatch({Filter(state, p)})
  /\ made' = made \cup {Filter(state, p)}
  /\ UNCHANGED <<wire, acks, stale, client>>

(* The broker takes an acknowledgement from its channel.                   *)
Handle(a) ==
  CASE a.type = "PubAck0" -> HandlePubAck0(a.id)
    [] a.type = "PubAck"  -> HandlePubAck(a.id)
    [] a.type = "PubRec"  -> HandlePubRec(a.id)
    [] a.type = "PubComp" -> HandlePubComp(a.id)

(* For an offline session it is an error that the broker logs.             *)
HandleAck(a) ==
  \/ status = "online" /\ Handle(a) /\ Dispatch({})
  \/ status = "offline" /\ UNCHANGED <<session, out, dropped>>

HandleNext ==
  /\ acks # << >>
  /\ HandleAck(Head(acks))
  /\ acks' = Tail(acks)
  /\ UNCHANGED <<wire, stale, client, made>>

HandleStale ==
  /\ stale # << >>
  /\ HandleAck(Head(stale))
  /\ stale' = Tail(stale)
  /\ UNCHANGED <<wire, acks, client, made>>

(* outgoing_task writes an event to the connection; for a QoS 0 publication *)
(* it then reports so to the broker.  The write to a connection that is    *)
(* gone may still succeed.                                                 *)
Write ==
  /\ out # << >>
  /\ LET e == Head(out)
     IN  /\ out' = Tail(out)
         /\ wire' = IF up = "no" THEN wire ELSE Append(wire, e)
         /\ acks' = IF e.type = "PublishTo" /\ e.pub.qos = 0
                      THEN Append(acks, Packet("PubAck0", e.id)) ELSE acks
  /\ UNCHANGED <<session, stale, client, made, dropped>>
-----------------------------------------------------------------------------
(* The client.                                                             *)

(* State::new_connection for a session that was present: the PUBRECs that  *)
(* may have been lost, by packet identifier.                               *)
PubRecs ==
  LET ids == SE!SetToSortSeq(DOMAIN released, LAMBDA j, k : j < k)
  IN  [i \in DOMAIN ids |-> Packet("PubRec", ids[i])]

ReceiveConnAck(p) ==
  /\ p.type = "ConnAck"
  /\ up' = "yes"
  /\ acks' = acks \o PubRecs
  /\ UNCHANGED <<released, delivered>>

ReceivePublish(p) ==
  /\ p.type = "PublishTo"
  /\ p.pub.qos < 2
  /\ delivered' = Append(delivered, p.pub)
  /\ acks' = IF p.pub.qos = 1 THEN Append(acks, Packet("PubAck", p.id)) ELSE acks
  /\ UNCHANGED <<up, released>>

(* Mutant: a QoS 2 publication is given to the application at once.        *)
MutReceivePublishQos2(p) ==
  /\ p.type = "PublishTo"
  /\ p.pub.qos = 2
  /\ delivered' = Append(delivered, p.pub)
  /\ acks' = Append(acks, Packet("PubRec", p.id))
  /\ UNCHANGED <<up, released>>

(* A QoS 2 publication waits for its PUBREL.  One that is already waiting  *)
(* must be marked as a duplicate.                                          *)
ReceivePublishQos2(p) ==
  /\ p.type = "PublishTo"
  /\ p.pub.qos = 2
  /\ IF p.id \in DOMAIN released /\ ~p.dup
       THEN /\ up' = "error"
            /\ UNCHANGED <<released, acks>>
       ELSE /\ released' = IF p.id \in DOMAIN released THEN released
                             ELSE [k \in DOMAIN released \cup {p.id} |->
                                     IF k = p.id THEN p.pub ELSE released[k]]
            /\ acks' = Append(acks, Packet("PubRec", p.id))
            /\ UNCHANGED up
  /\ UNCHANGED delivered

ReceivePubRel(p) ==
  /\ p.type = "PubRel"
  /\ IF p.id \in DOMAIN released
       THEN /\ delivered' = Append(delivered, released[p.id])
            /\ released' = [k \in DOMAIN released \ {p.id} |-> released[k]]
       ELSE UNCHANGED <<delivered, released>>
  /\ acks' = Append(acks, Packet("PubComp", p.id))
  /\ UNCHANGED up

Receive ==
  /\ up \in {"connecting", "yes"}
  /\ wire # << >>
  /\ LET p == Head(wire)
     IN  ReceiveConnAck(p) \/ ReceivePublish(p) \/ ReceivePublishQos2(p) \/ ReceivePubRel(p)
  /\ wire' = Tail(wire)
  /\ UNCHANGED <<session, out, stale, losses, made, dropped>>
-----------------------------------------------------------------------------
(* Connections.                                                            *)

(* The network drops what is on its way to the client, and all but some    *)
(* prefix of what is on its way back; reports of outgoing_task are not on  *)
(* the network.                                                            *)
Lose ==
  /\ up \in {"connecting", "yes"}
  /\ losses < MaxLosses
  /\ losses' = losses + 1
  /\ up' = "no"
  /\ wire' = << >>
  /\ acks' = << >>
  /\ \E n \in 0 .. Len(acks) :
       stale' = stale \o SubSeq(acks, 1, n)
                      \o SelectSeq(SubSeq(acks, n + 1, Len(acks)),
                                   LAMBDA a : a.type = "PubAck0")
  /\ UNCHANGED <<session, out, released, delivered, made, dropped>>

(* incoming_task ends and the broker drops the connection.  It has taken   *)
(* what the task read from the connection before, as acknowledgements come *)
(* first, unless a later connection's drop is mistaken for this one's.     *)
Drop ==
  /\ up = "no"
  /\ ~Takeovers => \A i \in DOMAIN stale : stale[i].type = "PubAck0"
  /\ CloseSession
  /\ out' = << >>
  /\ UNCHANGED <<wire, acks, stale, client, made, dropped>>

(* CONNECT for the offline session: into_online collects what is to be     *)
(* sent, and the CONNACK goes before it.                                   *)
Reconnect ==
  /\ up = "no"
  /\ IntoOnline
  /\ up' = "connecting"
  /\ UNCHANGED <<out, wire, acks, stale, released, delivered, losses, made, dropped>>

IntoOnlineLoops ==
  /\ \/ \E k \in Id : ResendPublish(k) \/ ResendPubRel(k)
     \/ ResendPublishDone \/ ResendPubRelDone
  /\ UNCHANGED <<out, wire, acks, stale, client, made, dropped>>

DrainQueued ==
  /\ Drain
  /\ dropped' = IF status' = "panicked" THEN dropped \cup (Queued(state) \ Queued(state'))
                                        ELSE dropped
  /\ UNCHANGED <<out, wire, acks, stale, client, made>>

SendCollected ==
  /\ Resumed
  /\ out' = << ConnAck >> \o events
  /\ UNCHANGED <<wire, acks, stale, client, made, dropped>>

(* CONNECT for a session that still has its old connection: the session    *)
(* moves to the new one as it is, and only a CONNACK is sent.              *)
Takeover ==
  /\ Takeovers
  /\ up = "no"
  /\ status = "online"
  /\ up' = "connecting"
  /\ out' = << ConnAck >>
  /\ UNCHANGED <<session, wire, acks, stale, released, delivered, losses, made, dropped>>

(* A client that has connected and subscribed to everything.               *)
ClientInit ==
  /\ out = << >> /\ wire = << >> /\ acks = << >> /\ stale = << >>
  /\ up = "yes"
  /\ released = [k \in {} |-> k]
  /\ delivered = << >>
  /\ made = {} /\ dropped = {}
  /\ losses = 0

DInit ==
  /\ state = [NewState EXCEPT !.subscriptions = [f \in Filters |-> 2]]
  /\ status = "online"
  /\ cursor = 0
  /\ pending = << >> /\ events = << >> /\ forwarded = << >>
  /\ published = 0
  /\ ClientInit

DNext ==
  \/ \E p \in Publications : PublishNext(p)
  \/ HandleNext \/ HandleStale \/ Write \/ Receive
  \/ Lose \/ Drop \/ Reconnect \/ IntoOnlineLoops \/ DrainQueued \/ SendCollected
  \/ Takeover

DSpec == DInit /\ [][DNext]_dvars

(* The broker, the tasks of the connection and the client go on while they *)
(* have something to do, and a client that lost its connection comes back; *)
(* nothing obliges anyone to publish, or a connection to break.            *)
Fairness ==
  /\ WF_dvars(HandleNext) /\ WF_dvars(HandleStale)
  /\ WF_dvars(Write) /\ WF_dvars(Receive)
  /\ WF_dvars(Drop) /\ WF_dvars(Reconnect)
  /\ WF_dvars(IntoOnlineLoops) /\ WF_dvars(DrainQueued) /\ WF_dvars(SendCollected)

FairDSpec == DSpec /\ Fairness
-----------------------------------------------------------------------------
Values(m) == {m.items[k].value : k \in Keys(m)}

In(q, t, k) == \E i \in DOMAIN q : q[i].type = t /\ q[i].id = k

Times(p) == Cardinality({i \in DOMAIN delivered : delivered[i] = p})

(* A publication of QoS 2 reaches the application at most once, however    *)
(* connections break between the four packets of its handshake and however *)
(* often each of them is sent again.                                       *)
ExactlyOnce == \A p \in Publications : p.qos = 2 => Times(p) <= 1

(* Every publication of QoS 1 or 2 to the session is queued, outstanding,  *)
(* held by the client until its PUBREL, delivered, or given up because the *)
(* queue is full: no break between two packets makes both sides forget it. *)
NothingForgotten ==
  {p \in made : p.qos > 0} \subseteq
    Queued(state) \cup Values(state.waiting_to_be_acked)
      \cup {released[k] : k \in DOMAIN released} \cup Range(delivered) \cup dropped

(* The first deliveries of publications of one QoS.                        *)
First(i) == \A j \in 1 .. i - 1 : delivered[j] # delivered[i]

DeliveredInOrder(qos) ==
  \A i, j \in {k \in DOMAIN delivered : delivered[k].qos = qos /\ First(k)} :
    i < j => delivered[i].topic < delivered[j].topic

(* Publications of QoS 1 reach the application in the order in which they  *)
(* were published, counting the first delivery of each, across every       *)
(* redelivery.                                                             *)
Qos1InOrder == DeliveredInOrder(1)

(* So do publications of QoS 2 across one break.  A PUBREC that is sent    *)
(* again moves its publication behind later ones, and their PUBRELs follow *)
(* that order after another break.                                         *)
Qos2InOrder == losses <= 1 => DeliveredInOrder(2)

(* While publications are queued the window of an online session is full:  *)
(* one that is published then does not overtake them.                      *)
NoOvertaking ==
  status = "online" /\ state.waiting_to_be_sent.inner # << >> => ~AllowedToSend(state)

(* While the connection stands, every outstanding packet of the broker is  *)
(* on its way to the client, or its acknowledgement is on its way back:    *)
(* none occupies the window without a chance to leave it.                  *)
NothingStranded ==
  status = "online" /\ up = "yes" =>
    /\ \A k \in Keys(state.waiting_to_be_acked) :
         \/ In(out \o wire, "PublishTo", k)
         \/ In(acks \o stale, "PubAck", k) \/ In(acks \o stale, "PubRec", k)
    /\ \A k \in Keys(state.waiting_to_be_completed) :
         In(out \o wire, "PubRel", k) \/ In(acks \o stale, "PubComp", k)

(* The client never takes a publication for an unmarked duplicate.         *)
ClientAccepts == up # "error"

(* ClientAccepts, Qos1InOrder and Qos2InOrder: whatever is sent again, the *)
(* client takes it, and its application gets what is new in order.         *)
AcceptedInOrder == ClientAccepts /\ Qos1InOrder /\ Qos2InOrder

(* Every publication of QoS 1 or 2 to the session is eventually delivered  *)
(* or given up: whatever breaks, a time comes when none is outstanding.    *)
EventuallyDelivered ==
  []<>({p \in made : p.qos > 0} \subseteq Range(delivered) \cup dropped)
=============================================================================
