-------------------------- MODULE InboundDelivery --------------------------
(***************************************************************************)
(* Publications of a client of the mqtt3 crate to the broker, over         *)
(* connections that break and a broker that may restart: the publishing    *)
(* half of mqtt3/src/client/publish.rs, the network, and the broker's      *)
(* Session that receives them and hands them to Broker::publish_all.  The  *)
(* topic of a publication is its number.                                   *)
(***************************************************************************)
EXTENDS Session, Functions, TLC

LOCAL SE == INSTANCE SequencesExt

CONSTANTS
  MaxLosses,    \* bound: connections that break by themselves
  MaxRestarts,  \* bound: restarts of the broker
  Resets,       \* whether the client may take its session for lost with a connection
  MaxFreed      \* bound: identifiers freed by QoS 2 publications that the broker delivers

ASSUME InboundAssumption ==
  {MaxLosses, MaxRestarts, MaxFreed} \subseteq Nat /\ Resets \in BOOLEAN

VARIABLES
  kind,       \* the broker's session: "none", "transient" or "persistent"
  ids,        \* the client's PacketIdentifiers
  to_ack,     \* the client's waiting_to_be_acked
  to_complete,\* the client's waiting_to_be_completed
  clean,      \* whether the client asks for a clean session when it connects
  requested,  \* publications the client has sent for the application
  confirmed,  \* publications the application was told are done
  up,         \* the client's connection: "no", "connecting" or "yes"
  sent,       \* packets on their way to the broker
  stale,      \* those left by connections that are gone
  back,       \* packets on their way to the client
  passed,     \* publications of QoS 1 and 2 handed to Broker::publish_all
  again,      \* those handed to it more than once
  freed,      \* number of identifiers in use that a PUBREL of the broker freed
  losses,     \* number of connections that broke
  restarts    \* number of restarts of the broker

session == <<state, status, cursor, pending, events, forwarded, published>>
client == <<ids, to_ack, to_complete, clean, requested, confirmed>>
network == <<up, sent, stale, back>>
ivars == <<session, kind, client, network, passed, again, freed, losses, restarts>>

NoFunction == [k \in {} |-> k]
Drop(f, k) == [x \in DOMAIN f \ {k} |-> f[x]]

Publishing(k, p, d) == [type |-> "Publish", id |-> k, pub |-> p, dup |-> d]
Packet(t, k) == [type |-> t, id |-> k]
-----------------------------------------------------------------------------
(* The client.                                                             *)

(* State::poll sends a request.                                            *)
Request(p) ==
  /\ up = "yes"
  /\ p.topic = Cardinality(requested) + 1
  /\ requested' = requested \cup {p}
  /\ IF p.qos = 0
       THEN /\ sent' = Append(sent, Publishing(0, p, FALSE))
            /\ confirmed' = confirmed \cup {p}
            /\ UNCHANGED <<ids, to_ack>>
       ELSE /\ CanReserve(ids)
            /\ ids' = Reserve(ids)
            /\ to_ack' = NextId(ids.previous) :> p @@ to_ack
            /\ sent' = Append(sent, Publishing(NextId(ids.previous), p, FALSE))
            /\ UNCHANGED confirmed
  /\ UNCHANGED <<session, kind, to_complete, clean, up, stale, back, passed, again, freed, losses,
                 restarts>>

(* State::new_connection for a session that was present: what was not      *)
(* acknowledged is published again, and so is what only waits for PUBCOMP. *)
Resend(f) ==
  LET ks == SE!SetToSortSeq(DOMAIN f, LAMBDA j, k : j < k)
  IN  [i \in DOMAIN ks |-> Publishing(ks[i], f[ks[i]], TRUE)]

(* Mutant: what waits for PUBCOMP is not sent again.                       *)
MutReceiveConnAck(a) ==
  /\ a.type = "ConnAck"
  /\ up' = "yes"
  /\ clean' = FALSE
  /\ IF clean \/ ~a.session_present
       THEN /\ to_ack' = to_complete @@ to_ack
            /\ to_complete' = NoFunction
       ELSE UNCHANGED <<to_ack, to_complete>>
  /\ sent' = Resend(to_ack')
  /\ UNCHANGED <<ids, requested, confirmed>>

(* CONNACK, and State::new_connection.  When the session is not resumed    *)
(* the handshakes of QoS 2 start over.                                     *)
ReceiveConnAck(a) ==
  /\ a.type = "ConnAck"
  /\ up' = "yes"
  /\ clean' = FALSE
  /\ IF clean \/ ~a.session_present
       THEN /\ to_ack' = to_complete @@ to_ack
            /\ to_complete' = NoFunction
       ELSE UNCHANGED <<to_ack, to_complete>>
  /\ sent' = Resend(to_ack') \o Resend(to_complete')
  /\ UNCHANGED <<ids, requested, confirmed>>

ReceivePubAck(a) ==
  /\ a.type = "PubAck"
  /\ IF a.id \in DOMAIN to_ack
       THEN /\ ids' = Discard(ids, a.id)
            /\ to_ack' = Drop(to_ack, a.id)
            /\ confirmed' = confirmed \cup {to_ack[a.id]}
       ELSE UNCHANGED <<ids, to_ack, confirmed>>
  /\ UNCHANGED <<to_complete, clean, requested, sent, up>>

(* Mutant: a PUBREC ends the handshake.                                    *)
MutReceivePubRec(a) ==
  /\ a.type = "PubRec"
  /\ a.id \in DOMAIN to_ack
  /\ ids' = Discard(ids, a.id)
  /\ to_ack' = Drop(to_ack, a.id)
  /\ confirmed' = confirmed \cup {to_ack[a.id]}
  /\ UNCHANGED <<to_complete, clean, requested, sent, up>>

ReceivePubRec(a) ==
  /\ a.type = "PubRec"
  /\ IF a.id \in DOMAIN to_ack
       THEN /\ to_ack' = Drop(to_ack, a.id)
            /\ to_complete' = a.id :> to_ack[a.id] @@ to_complete
       ELSE UNCHANGED <<to_ack, to_complete>>
  /\ sent' = Append(sent, Packet("PubRel", a.id))
  /\ UNCHANGED <<ids, clean, requested, confirmed, up>>

ReceivePubComp(a) ==
  /\ a.type = "PubComp"
  /\ IF a.id \in DOMAIN to_complete
       THEN /\ ids' = Discard(ids, a.id)
            /\ to_complete' = Drop(to_complete, a.id)
            /\ confirmed' = confirmed \cup {to_complete[a.id]}
       ELSE UNCHANGED <<ids, to_complete, confirmed>>
  /\ UNCHANGED <<to_ack, clean, requested, sent, up>>

Receive ==
  /\ up # "no"
  /\ back # << >>
  /\ LET a == Head(back)
     IN  ReceiveConnAck(a) \/ ReceivePubAck(a) \/ ReceivePubRec(a) \/ ReceivePubComp(a)
  /\ back' = Tail(back)
  /\ UNCHANGED <<session, kind, stale, passed, again, freed, losses, restarts>>

(* The PUBREL of a publication that the broker delivers, or a reset of the *)
(* session while one waits for it: the client takes the broker's packet    *)
(* identifier out of its own identifiers in use.                           *)
ReceivePubRel(k) ==
  /\ up = "yes"
  /\ k \in ids.in_use
  /\ freed < MaxFreed
  /\ freed' = freed + 1
  /\ ids' = Discard(ids, k)
  /\ UNCHANGED <<session, kind, to_ack, to_complete, clean, requested, confirmed, network,
                 passed, again, losses, restarts>>
-----------------------------------------------------------------------------
(* The broker.                                                             *)

HandlePacket(a) ==
  CASE a.type = "Publish" -> HandlePublish(a.id, a.pub)
    [] a.type = "PubRel"  -> HandlePubRel(a.id)

(* The events of the session go to the connection it belongs to.           *)
Dispatch ==
  /\ back' = IF up = "no" THEN back ELSE back \o events'
  /\ LET ps == {p \in Range(forwarded') : p.qos > 0}
     IN  /\ passed' = passed \o SelectSeq(forwarded', LAMBDA p : p \in ps \ Range(passed))
         /\ again' = again \cup (ps \cap Range(passed))

HandleNext ==
  /\ sent # << >>
  /\ HandlePacket(Head(sent))
  /\ sent' = Tail(sent)
  /\ Dispatch
  /\ UNCHANGED <<kind, client, up, stale, freed, losses, restarts>>

(* A packet of a connection that is gone; for an offline session it is an  *)
(* error that the broker logs.                                             *)
HandleStale ==
  /\ stale # << >>
  /\ Head(stale).type # "DropConnection"
  /\ \/ HandlePacket(Head(stale)) /\ Dispatch
     \/ status = "offline" /\ UNCHANGED <<session, back, passed, again>>
  /\ stale' = Tail(stale)
  /\ UNCHANGED <<kind, client, up, sent, freed, losses, restarts>>

(* Broker::close_session.                                                  *)
Close ==
  IF kind = "transient"
    THEN /\ kind' = "none"
         /\ state' = NewState
         /\ status' = "offline"
         /\ Quiet
         /\ UNCHANGED <<cursor, pending, published>>
    ELSE CloseSession /\ UNCHANGED kind

(* Broker::drop_connection, asked for by a connection that is gone.  It    *)
(* closes the session's connection, whichever that is by now; what the     *)
(* client sent on that one finds the session offline.                      *)
DropConnection ==
  /\ stale # << >>
  /\ Head(stale).type = "DropConnection"
  /\ \/ status = "online" /\ Close
     \/ status = "offline" /\ UNCHANGED <<session, kind>>
  /\ up' = "no" /\ sent' = << >> /\ back' = << >>
  /\ stale' = Tail(stale)
  /\ UNCHANGED <<client, passed, again, freed, losses, restarts>>

(* Broker::open_session, for an offline session, one that still has its    *)
(* old connection, or none; nothing is outstanding in this direction.  The *)
(* tasks of an old connection stop wherever they are.                      *)
Connect ==
  LET present == kind # "none" /\ ~clean
  IN  /\ up = "no"
      /\ ~Busy
      /\ status' = "online"
      /\ kind' = IF clean THEN "transient" ELSE "persistent"
      /\ state' = IF present THEN state ELSE NewState
      /\ Quiet
      /\ up' = "connecting"
      /\ back' = << [type |-> "ConnAck", session_present |-> present] >>
      /\ \E n \in 0 .. Len(stale) : stale' = SubSeq(stale, 1, n)
      /\ UNCHANGED <<cursor, pending, published, client, sent, passed, again, freed,
                     losses, restarts>>

(* The connection is gone: what is on its way to the client is lost, and   *)
(* all but some prefix of what is on its way to the broker.                *)
Break ==
  /\ up' = "no" /\ sent' = << >> /\ back' = << >>
  /\ \E n \in 0 .. Len(sent) :
       stale' = stale \o SubSeq(sent, 1, n) \o << [type |-> "DropConnection"] >>

(* The connection breaks.  Unless the client sees a timeout or the end of  *)
(* the stream it takes its session for lost, and asks for a clean one.     *)
Lose ==
  /\ up # "no"
  /\ losses < MaxLosses
  /\ losses' = losses + 1
  /\ Break
  /\ clean' \in {clean, clean \/ Resets}
  /\ UNCHANGED <<session, kind, ids, to_ack, to_complete, requested, confirmed, passed, again,
                 freed, restarts>>

(* A request finds no free packet identifier: the client keeps it, and     *)
(* gives up the connection and the session.                                *)
Exhausted ==
  /\ up = "yes"
  /\ Cardinality(requested) < Cardinality(Topics)
  /\ ~CanReserve(ids)
  /\ losses < MaxLosses
  /\ losses' = losses + 1
  /\ Break
  /\ clean' = TRUE
  /\ UNCHANGED <<session, kind, ids, to_ack, to_complete, requested, confirmed, passed, again,
                 freed, restarts>>

(* The broker goes down and its snapshot, which leaves out transient       *)
(* sessions, is loaded.                                                    *)
RestartBroker ==
  /\ restarts < MaxRestarts
  /\ restarts' = restarts + 1
  /\ Restart
  /\ kind' = IF kind = "persistent" THEN kind ELSE "none"
  /\ up' = "no" /\ sent' = << >> /\ stale' = << >> /\ back' = << >>
  /\ clean' \in {clean, clean \/ (Resets /\ up # "no")}
  /\ UNCHANGED <<ids, to_ack, to_complete, requested, confirmed, passed, again, freed, losses>>

LoadSnapshot ==
  /\ LoadQueued \/ Loaded
  /\ UNCHANGED <<kind, client, network, passed, again, freed, losses, restarts>>

IInit ==
  /\ Init
  /\ kind = "persistent"
  /\ ids = DefaultIds
  /\ to_ack = NoFunction /\ to_complete = NoFunction
  /\ clean = FALSE
  /\ requested = {} /\ confirmed = {}
  /\ up = "yes"
  /\ sent = << >> /\ stale = << >> /\ back = << >>
  /\ passed = << >> /\ again = {} /\ freed = 0
  /\ losses = 0 /\ restarts = 0

INext ==
  \/ \E p \in Inbound : Request(p)
  \/ Receive
  \/ \E k \in Id : ReceivePubRel(k)
  \/ HandleNext \/ HandleStale \/ DropConnection \/ Connect \/ Lose \/ Exhausted
  \/ RestartBroker \/ LoadSnapshot

ISpec == IInit /\ [][INext]_ivars

(* The broker and the client go on while they have something to do, and    *)
(* the client that lost its connection comes back; nothing obliges the     *)
(* application to publish, a connection to break or the broker to stop.    *)
FairISpec ==
  /\ ISpec
  /\ WF_ivars(Receive) /\ WF_ivars(HandleNext)
  /\ WF_ivars(Connect) /\ WF_ivars(LoadSnapshot)
-----------------------------------------------------------------------------
(* What the application was told is done was handed on by the broker, or,  *)
(* for QoS 0, was at least sent: neither a break nor a restart between two *)
(* packets makes the client confirm a publication the broker never took.   *)
ConfirmedPassed == {p \in confirmed : p.qos > 0} \subseteq Range(passed)

(* A publication of QoS 2 is handed on at most once.                       *)
PassedOnce == \A p \in again : p.qos # 2

(* Sent with QoS 1 or 2, not confirmed, and in none of the client's maps.  *)
Forgotten ==
  {p \in requested : p.qos > 0} \ (confirmed \cup Range(to_ack) \cup Range(to_complete))

(* Every publication of QoS 1 or 2 that the client has sent is confirmed,  *)
(* or the client still holds it and sends it again on its next connection: *)
(* no other publication takes its packet identifier and its place.  Each   *)
(* identifier in use that a PUBREL of the broker frees costs the client    *)
(* one publication at most: it goes to a second publication, but the       *)
(* answers to the two never free it once more for a third.                 *)
ForgottenAtMostFreed == Cardinality(Forgotten) <= freed

(* Every publication of QoS 1 or 2 that the client has sent is eventually  *)
(* confirmed: whatever breaks, a time comes when none is outstanding.      *)
EventuallyConfirmed == []<>({p \in requested : p.qos > 0} \subseteq confirmed)
=============================================================================
