------------------------- MODULE ClientSubscriptions -------------------------
(***************************************************************************)
(* The subscriptions of the MQTT client (mqtt3/src/client/subscriptions.rs *)
(* with poll_next of mqtt3/src/client/mod.rs): updates are combined into   *)
(* packets, kept until they are acknowledged, and repeated or folded into  *)
(* one SUBSCRIBE on a new connection.  The server answers in order; what   *)
(* is on its way is lost when the connection breaks.                       *)
(***************************************************************************)
EXTENDS Naturals, Sequences, SequencesExt

CONSTANTS
  Filters,     \* topic filters
  Rejected,    \* the filters whose subscription the server refuses
  MaxUpdates,  \* bound: updates asked for
  MaxBreaks    \* bound: broken connections

VARIABLES
  asked,       \* history: the filters the application wants, by its last request
  subscriptions, waiting_to_be_sent, waiting_to_be_acked,
  connected, to_server, to_client,
  server,      \* the subscriptions of the session at the server
  cancelled,   \* history: filters of which a SUBSCRIBE and an UNSUBSCRIBE cancelled out
  updates, breaks

network == <<connected, to_server, to_client, server>>
client == <<subscriptions, waiting_to_be_sent, waiting_to_be_acked>>
cvars == <<asked, client, network, cancelled, updates, breaks>>

Update(kind, f) == [kind |-> kind, filter |-> f]
Packet(kind, fs) == IF fs = {} THEN << >> ELSE <<[kind |-> kind, filters |-> fs]>>

(* Updates are combined: the targets after the updates s, and the filters  *)
(* of pairs of which nothing is sent.                                      *)
NoTarget == [sub |-> {}, unsub |-> {}, gone |-> {}]

Combine(t, u) ==
  CASE u.kind = "SUBSCRIBE" ->
         [t EXCEPT !.unsub = @ \ {u.filter}, !.sub = @ \cup {u.filter}, !.gone = @ \ {u.filter}]
    [] u.kind = "UNSUBSCRIBE" /\ u.filter \in t.sub ->
         [t EXCEPT !.sub = @ \ {u.filter}, !.gone = @ \cup {u.filter}]
    [] u.kind = "UNSUBSCRIBE" /\ u.filter \notin t.sub ->
         [t EXCEPT !.unsub = @ \cup {u.filter}, !.gone = @ \ {u.filter}]

(* poll, for the updates s that wait: one packet of each kind at most.     *)
Send(s) ==
  LET t == FoldLeft(Combine, NoTarget, s)
      packets == Packet("SUBSCRIBE", t.sub) \o Packet("UNSUBSCRIBE", t.unsub)
  IN  /\ waiting_to_be_acked' = waiting_to_be_acked \o packets
      /\ to_server' = to_server \o packets
      /\ cancelled' = (cancelled \ (t.sub \cup t.unsub)) \cup t.gone

Wants(kind, f) == asked' = IF kind = "SUBSCRIBE" THEN asked \cup {f} ELSE asked \ {f}

(* Client::subscribe and unsubscribe, and UpdateSubscriptionHandle.        *)
Ask(kind, f) ==
  /\ updates < MaxUpdates
  /\ updates' = updates + 1
  /\ Wants(kind, f)
  /\ waiting_to_be_sent' = Append(waiting_to_be_sent, Update(kind, f))
  /\ UNCHANGED <<subscriptions, waiting_to_be_acked, network, cancelled, breaks>>

SendUpdates ==
  /\ connected
  /\ waiting_to_be_sent # << >>
  /\ waiting_to_be_sent' = << >>
  /\ Send(waiting_to_be_sent)
  /\ UNCHANGED <<asked, subscriptions, connected, to_client, server, updates, breaks>>

(* The server: external.                                                   *)
ServerHandles ==
  /\ to_server # << >>
  /\ LET p == Head(to_server)
         refused == IF p.kind = "SUBSCRIBE" THEN p.filters \cap Rejected ELSE {}
     IN  /\ server' = IF p.kind = "SUBSCRIBE" THEN server \cup (p.filters \ Rejected)
                                              ELSE server \ p.filters
         /\ to_client' = Append(to_client, [kind |-> p.kind, refused |-> refused])
  /\ to_server' = Tail(to_server)
  /\ UNCHANGED <<asked, client, connected, cancelled, updates, breaks>>

(* The acknowledgement of the oldest packet.  What it grants, ends and     *)
(* refuses is passed on as an event.                                       *)
Expected == waiting_to_be_acked # << >> /\ Head(waiting_to_be_acked).kind = Head(to_client).kind
Acked == Head(waiting_to_be_acked)
Granted == IF Acked.kind = "SUBSCRIBE" THEN Acked.filters \ Head(to_client).refused ELSE {}
Ended == IF Acked.kind = "UNSUBSCRIBE" THEN Acked.filters ELSE {}

ReceiveAck ==
  /\ to_client # << >>
  /\ Expected
  /\ subscriptions' = (subscriptions \cup Granted) \ Ended
  /\ waiting_to_be_acked' = Tail(waiting_to_be_acked)
  /\ to_client' = Tail(to_client)
  /\ UNCHANGED <<asked, waiting_to_be_sent, connected, to_server, server, cancelled, updates, breaks>>

Break ==
  /\ connected
  /\ breaks < MaxBreaks
  /\ breaks' = breaks + 1
  /\ connected' = FALSE
  /\ to_server' = << >> /\ to_client' = << >>
  /\ UNCHANGED <<asked, client, server, cancelled, updates>>

(* The subscriptions after the packets that were not acknowledged.         *)
Apply(subs, p) == IF p.kind = "SUBSCRIBE" THEN subs \cup p.filters ELSE subs \ p.filters

(* new_connection: the server has the session, or has none.                *)
NewConnection(reset) ==
  IF reset
    THEN LET subs == FoldLeft(Apply, subscriptions, waiting_to_be_acked) IN
           /\ server' = {}
           /\ subscriptions' = {}
           /\ waiting_to_be_acked' = Packet("SUBSCRIBE", subs)
           /\ to_server' = Packet("SUBSCRIBE", subs)
    ELSE /\ to_server' = waiting_to_be_acked
         /\ UNCHANGED <<server, subscriptions, waiting_to_be_acked>>

Reconnect(reset) ==
  /\ ~connected
  /\ connected' = TRUE
  /\ NewConnection(reset)
  /\ UNCHANGED <<asked, waiting_to_be_sent, to_client, cancelled, updates, breaks>>

(* A new client, of which the application asked for the filters fs.        *)
CInitWith(fs) ==
  /\ asked = fs /\ subscriptions = {} /\ server = {} /\ cancelled = {}
  /\ waiting_to_be_sent = SetToSeq({Update("SUBSCRIBE", f) : f \in fs})
  /\ waiting_to_be_acked = << >>
  /\ connected = FALSE /\ to_server = << >> /\ to_client = << >>
  /\ updates = 0 /\ breaks = 0

CInit == CInitWith({})

CNext ==
  \/ \E f \in Filters, kind \in {"SUBSCRIBE", "UNSUBSCRIBE"} : Ask(kind, f)
  \/ SendUpdates \/ ServerHandles \/ ReceiveAck \/ Break
  \/ \E reset \in BOOLEAN : Reconnect(reset)

CSpec == CInit /\ [][CNext]_cvars
-----------------------------------------------------------------------------
Quiet == connected /\ waiting_to_be_sent = << >> /\ waiting_to_be_acked = << >>

(* Once every update is acknowledged, the server has the subscriptions the *)
(* application asked for last, and the client knows which these are,       *)
(* across broken connections with and without a session at the server.     *)
(* Left out are filters of which a SUBSCRIBE and a later UNSUBSCRIBE were  *)
(* combined to nothing.                                                    *)
SubscribedUnlessCancelled ==
  Quiet => /\ server \ cancelled = (asked \ Rejected) \ cancelled
           /\ subscriptions = server

(* The client never takes an acknowledgement for unexpected and gives up   *)
(* the session: the oldest packet it waits for is of its kind, also after  *)
(* packets were repeated on a new connection.                              *)
AcksExpected == to_client # << >> => Expected
=============================================================================
