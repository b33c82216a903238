---------------------------- MODULE BrokerProofs ----------------------------
(***************************************************************************)
(* The safety of the broker's sessions, for every number of clients and    *)
(* connections: the retained topics tell the truth and only clients with   *)
(* the permission are connected.                                           *)
(***************************************************************************)
EXTENDS Broker, TLAPS

Session == [kind : {"none", "transient", "persistent", "offline"},
            handle : 0 .. MaxConnections, subs : SUBSET TopicFilters]

Topics == [connected : SUBSET Clients, sessions : SUBSET Clients,
           subs : [Clients -> SUBSET TopicFilters]]

ConnReqs == [type : {"ConnReq"}, client : Clients, handle : Handles, clean : BOOLEAN]
EndMessages == [type : Ends, client : Clients]
SubMessages == [type : {"Subscribe", "Unsubscribe"}, client : Clients, filter : TopicFilters]

Pcs == {"unused", "open", "draining", "failed", "closed"}
Connections == [Handles -> [pc : Pcs, client : Clients]]

Outgoing == [Handles -> Seq({"ConnAck", "Stop", "Ack"})]
Messages == Seq(ConnReqs \cup EndMessages \cup SubMessages)

HandleExact(ss) == \A c \in Clients : Online(ss[c]) <=> ss[c].handle # 0

Typed ==
  /\ sessions \in [Clients -> Session]
  /\ HandleExact(sessions)
  /\ retained \in Topics
  /\ messages \in Messages
  /\ conns \in Connections
  /\ outgoing \in Outgoing
  /\ wills \in [Handles -> Nat]
  /\ allowed \subseteq Clients
  /\ running \in BOOLEAN
  /\ saved \in [retained : Topics, sessions : [Clients -> Session]]
  /\ HandleExact(saved.sessions)
  /\ \A c \in Clients : ~Online(saved.sessions[c])

Exact(r, ss) == r.connected = Connected(ss) /\ r.sessions = Known(ss)

(* A broker that does not run has left an exact snapshot, unless it failed. *)
Inv ==
  /\ Typed
  /\ OnlyAllowedConnected
  /\ ~Failures => ConnectedTopicExact /\ (~running => Exact(saved.retained, saved.sessions))
-----------------------------------------------------------------------------
(* Closing sessions gives sessions, none of them online among the closed.  *)
LEMMA ClosedType ==
  ASSUME NEW s \in Session, s.kind # "none"
  PROVE  /\ Closed(s) \in Session
         /\ Closed(s).handle = 0
         /\ ~Online(Closed(s))
         /\ Closed(s).kind # "none" <=> s.kind # "transient"
<1>1. MaxConnections \in Nat /\ 0 \in 0 .. MaxConnections
  BY BrokerAssumption
<1>2. CASE s.kind = "transient"
  BY <1>1, <1>2, Zenon DEF Closed, Session, Online, NoSession
<1>3. CASE s.kind # "transient"
  <2>1. Closed(s) = [kind |-> "offline", handle |-> 0, subs |-> s.subs]
    BY <1>3, Zenon DEF Closed, Session
  <2> QED BY <1>1, <1>3, <2>1 DEF Session, Online
<1> QED BY <1>2, <1>3, Zenon

(* What closing sessions publishes are topics.                             *)
LEMMA RetainedType ==
  ASSUME NEW ss \in [Clients -> Session], NEW cs \in SUBSET Clients, retained \in Topics
  PROVE  RetainedAfter(ss, cs) \in Topics
  BY Zenon DEF RetainedAfter, Topics, Connected, Known

(* Closing some online sessions, as every handler does it, keeps the       *)
(* sessions well formed and, if the topics were exact, makes the published *)
(* ones exact.                                                             *)
LEMMA CloseSome ==
  ASSUME Typed, NEW cs \in SUBSET Connected(sessions), NEW ss,
         ss = [c \in Clients |-> IF c \in cs THEN Closed(sessions[c]) ELSE sessions[c]]
  PROVE  /\ ss \in [Clients -> Session]
         /\ HandleExact(ss)
         /\ Connected(ss) = Connected(sessions) \ cs
         /\ RetainedAfter(ss, cs) \in Topics
         /\ Exact(retained, sessions) => Exact(RetainedAfter(ss, cs), ss)
<1>1. \A c \in cs : c \in Clients /\ sessions[c] \in Session /\ sessions[c].kind # "none"
  BY Zenon DEF Typed, Connected, Online
<1>2. \A c \in cs : /\ Closed(sessions[c]) \in Session
                    /\ Closed(sessions[c]).handle = 0
                    /\ ~Online(Closed(sessions[c]))
                    /\ Closed(sessions[c]).kind # "none" <=> sessions[c].kind # "transient"
  BY <1>1, ClosedType, Zenon
<1>3. ss \in [Clients -> Session]
  BY <1>2, Zenon DEF Typed
<1>4. HandleExact(ss)
  BY <1>2, Zenon DEF Typed, HandleExact
<1>5. Connected(ss) = Connected(sessions) \ cs
  BY <1>2, Zenon DEF Connected
<1>6. RetainedAfter(ss, cs) \in Topics
  <2>1. cs \in SUBSET Clients /\ retained \in Topics
    BY <1>1, Zenon DEF Typed
  <2> QED BY <1>3, <2>1, RetainedType, Zenon
<1>7. ASSUME Exact(retained, sessions) PROVE Exact(RetainedAfter(ss, cs), ss)
  <2>1. RetainedAfter(ss, cs).connected = Connected(ss)
    BY Zenon DEF RetainedAfter
  <2>2. ASSUME {c \in cs : ss[c].kind = "none"} = {}
        PROVE  Known(ss) = Known(sessions)
    BY <2>2, <1>1, Zenon DEF Known
  <2>3. RetainedAfter(ss, cs).sessions = Known(ss)
    BY <2>2, <1>7, Zenon DEF RetainedAfter, Exact
  <2> QED BY <2>1, <2>3, Zenon DEF Exact
<1> QED BY <1>3, <1>4, <1>5, <1>6, <1>7, Zenon

(* A snapshot holds sessions without connections.                          *)
LEMMA SnapshotType ==
  ASSUME NEW ss \in [Clients -> Session], NEW r \in Topics
  PROVE  LET s == Snapshot(ss, r)
         IN  /\ s \in [retained : Topics, sessions : [Clients -> Session]]
             /\ HandleExact(s.sessions)
             /\ \A c \in Clients : ~Online(s.sessions[c])
<1>1. \A c \in Clients : ss[c].kind \in {"persistent", "offline"} =>
        Closed(ss[c]) \in Session /\ Closed(ss[c]).handle = 0 /\ ~Online(Closed(ss[c]))
  BY ClosedType, Zenon
<1>2. NoSession \in Session /\ ~Online(NoSession) /\ NoSession.handle = 0
  BY BrokerAssumption DEF NoSession, Session, Online
<1> DEFINE f == [c \in Clients |-> IF ss[c].kind \in {"persistent", "offline"}
                                     THEN Closed(ss[c]) ELSE NoSession]
<1>3. f \in [Clients -> Session] /\ \A c \in Clients : f[c].handle = 0 /\ ~Online(f[c])
  BY <1>1, <1>2, Zenon
<1>4. Snapshot(ss, r) = [retained |-> r, sessions |-> f]
  BY Zenon DEF Snapshot
<1> HIDE DEF f
<1> QED BY <1>3, <1>4 DEF HandleExact
-----------------------------------------------------------------------------
(* A broker that starts without a snapshot satisfies the invariant.        *)
LEMMA InitInv == Init => Inv
<1> SUFFICES ASSUME Init PROVE Inv
  BY Zenon
<1> DEFINE None == [c \in Clients |-> NoSession]
           NoTopics == [connected |-> {}, sessions |-> {}, subs |-> [c \in Clients |-> {}]]
<1>1. NoSession \in Session /\ ~Online(NoSession) /\ NoSession.handle = 0 /\ NoSession.kind = "none"
  BY BrokerAssumption DEF NoSession, Session, Online
<1>2. None \in [Clients -> Session] /\ HandleExact(None) /\ Connected(None) = {} /\ Known(None) = {}
  BY <1>1, Zenon DEF HandleExact, Connected, Known
<1>3. NoTopics \in Topics
  BY Zenon DEF Topics
<1>4. sessions = None /\ retained = NoTopics
      /\ saved = [retained |-> NoTopics, sessions |-> None] /\ running = TRUE
  BY Zenon DEF Init
<1>5. \A c \in Clients : ~Online(None[c])
  BY <1>1, Zenon
<1>6. saved \in [retained : Topics, sessions : [Clients -> Session]]
      /\ saved.sessions = None
  BY <1>2, <1>3, <1>4, Zenon
<1>7. (CHOOSE c \in Clients : TRUE) \in Clients
  BY BrokerAssumption, Zenon
<1>8. Typed
  <2>1. conns \in Connections
    BY <1>7, Zenon DEF Init, Connections, Pcs
  <2>2. outgoing \in Outgoing /\ wills \in [Handles -> Nat]
    BY DEF Init, Outgoing
  <2>3. messages \in Messages
    BY DEF Init, Messages
  <2>4. allowed \subseteq Clients
    BY Zenon DEF Init
  <2> HIDE DEF None, NoTopics
  <2> QED BY <1>2, <1>3, <1>4, <1>5, <1>6, <2>1, <2>2, <2>3, <2>4, Zenon DEF Typed
<1>9. retained.connected = {} /\ retained.sessions = {}
  BY <1>4, Zenon
<1> HIDE DEF None, NoTopics
<1> QED BY <1>2, <1>4, <1>8, <1>9, Zenon DEF Inv, OnlyAllowedConnected, ConnectedTopicExact

(* Steps of a connection, which leave the broker's state alone.            *)
LEMMA ConnectionInv ==
  ASSUME Inv, UNCHANGED <<sessions, retained, wills, allowed, saved, running>>,
         messages' \in Messages,
         conns' \in Connections,
         outgoing' \in Outgoing
  PROVE  Inv'
<1>1. Typed'
  BY Zenon DEF Inv, Typed, HandleExact, Online
<1>2. Connected(sessions)' = Connected(sessions) /\ Known(sessions)' = Known(sessions)
  BY Zenon DEF Connected, Known
<1>3. OnlyAllowedConnected'
  BY <1>2, Zenon DEF Inv, OnlyAllowedConnected
<1>4. ASSUME ~Failures
      PROVE  ConnectedTopicExact' /\ (~running' => Exact(saved.retained, saved.sessions)')
  BY <1>2, <1>4, Zenon DEF Inv, ConnectedTopicExact, Exact, Connected, Known
<1> QED BY <1>1, <1>3, <1>4, Zenon DEF Inv

(* The channel to the broker carries messages only.                        *)
LEMMA AskType ==
  ASSUME Typed, NEW m \in ConnReqs \cup EndMessages \cup SubMessages, Ask(m)
  PROVE  messages' \in Messages
  BY DEF Typed, Ask, Messages

(* A connection that moves on stays a connection.                          *)
LEMMA PcType ==
  ASSUME Typed, NEW h \in Handles, NEW p \in Pcs
  PROVE  [conns EXCEPT ![h].pc = p] \in Connections
<1>1. conns[h] \in [pc : Pcs, client : Clients]
  BY Zenon DEF Typed, Connections
<1>2. [conns[h] EXCEPT !.pc = p] \in [pc : Pcs, client : Clients]
  BY <1>1, Zenon
<1> QED BY <1>2, Zenon DEF Typed, Connections

(* The channels to the connections carry their events only.                *)
LEMMA OutgoingType ==
  ASSUME Typed, NEW h \in Handles, NEW q \in Seq({"ConnAck", "Stop", "Ack"})
  PROVE  [outgoing EXCEPT ![h] = q] \in Outgoing
  BY Zenon DEF Typed, Outgoing

(* What the tasks of a connection do preserves the invariant.              *)
LEMMA ConnectionSteps ==
  ASSUME Inv,
         \/ \E c \in Clients, clean \in Cleans : Open(c, clean)
         \/ \E h \in Handles, t \in {"Subscribe", "Unsubscribe"}, f \in TopicFilters : Read(h, t, f)
         \/ \E h \in Handles, t \in {"Disconnect", "DropConnection"} : EndIncoming(h, t)
         \/ \E h \in Handles : Write(h) \/ WriteFails(h) \/ Finish(h)
  PROVE  Inv'
<1> USE DEF Inv
<1>1. ASSUME NEW c \in Clients, NEW clean \in Cleans, Open(c, clean) PROVE Inv'
  <2>1. PICK h \in Handles :
          /\ conns' = [conns EXCEPT ![h] = [pc |-> "open", client |-> c]]
          /\ Ask([type |-> "ConnReq", client |-> c, handle |-> h, clean |-> clean])
          /\ UNCHANGED <<sessions, retained, outgoing, wills, allowed, saved, running>>
    BY <1>1, Zenon DEF Open
  <2>2. [type |-> "ConnReq", client |-> c, handle |-> h, clean |-> clean] \in ConnReqs
    BY BrokerAssumption, Zenon DEF ConnReqs
  <2>3. messages' \in Messages
    BY <2>1, <2>2, AskType, Zenon
  <2>4. conns' \in Connections
    BY <2>1, Zenon DEF Typed, Connections, Pcs
  <2>5. outgoing' \in Outgoing
    BY <2>1, Zenon DEF Typed
  <2> QED BY <2>1, <2>3, <2>4, <2>5, ConnectionInv, Zenon
<1>2. ASSUME NEW h \in Handles, NEW t \in {"Subscribe", "Unsubscribe"}, NEW f \in TopicFilters,
             Read(h, t, f)
      PROVE  Inv'
  <2>1. [type |-> t, client |-> conns[h].client, filter |-> f] \in SubMessages
    BY Zenon DEF Typed, SubMessages, Connections
  <2>2. messages' \in Messages
    BY <1>2, <2>1, AskType, Zenon DEF Read
  <2> QED BY <1>2, <2>2, ConnectionInv, Zenon DEF Read, Typed
<1>3. ASSUME NEW h \in Handles, NEW t \in {"Disconnect", "DropConnection"}, EndIncoming(h, t)
      PROVE  Inv'
  <2>1. Message(t, conns[h].client) \in EndMessages
    BY Zenon DEF Typed, EndMessages, Message, Ends, Connections
  <2>2. messages' \in Messages
    BY <1>3, <2>1, AskType, Zenon DEF EndIncoming
  <2>3. conns' \in Connections
    BY <1>3, PcType, Zenon DEF EndIncoming, Pcs
  <2> QED BY <1>3, <2>2, <2>3, ConnectionInv, Zenon DEF EndIncoming, Typed
<1>4. ASSUME NEW h \in Handles, Write(h) PROVE Inv'
  <2>1. conns' \in Connections
    BY <1>4, PcType, Zenon DEF Write, Typed, Pcs
  <2>2. Tail(outgoing[h]) \in Seq({"ConnAck", "Stop", "Ack"})
    BY <1>4 DEF Write, Typed, Outgoing
  <2>3. << >> \in Seq({"ConnAck", "Stop", "Ack"})
    OBVIOUS
  <2>4. outgoing' \in Outgoing
    BY <1>4, <2>2, <2>3, OutgoingType, Zenon DEF Write
  <2> QED BY <1>4, <2>1, <2>4, ConnectionInv, Zenon DEF Write, Typed
<1>5. ASSUME NEW h \in Handles, WriteFails(h) PROVE Inv'
  <2>1. conns' \in Connections
    BY <1>5, PcType, Zenon DEF WriteFails, Pcs
  <2>2. Message("CloseSession", conns[h].client) \in EndMessages
    BY Zenon DEF Typed, EndMessages, Message, Ends, Connections
  <2>3. messages' \in Messages
    BY <1>5, <2>2, AskType, Zenon DEF WriteFails, Typed
  <2> QED BY <1>5, <2>1, <2>3, ConnectionInv, Zenon DEF WriteFails, Typed
<1>6. ASSUME NEW h \in Handles, Finish(h) PROVE Inv'
  <2>1. conns' \in Connections
    BY <1>6, PcType, Zenon DEF Finish, Pcs
  <2>2. << >> \in Seq({"ConnAck", "Stop", "Ack"})
    OBVIOUS
  <2>3. outgoing' \in Outgoing
    BY <1>6, <2>2, OutgoingType, Zenon DEF Finish
  <2> QED BY <1>6, <2>1, <2>3, ConnectionInv, Zenon DEF Finish, Typed
<1> QED BY <1>1, <1>2, <1>3, <1>4, <1>5, <1>6, Zenon
-----------------------------------------------------------------------------
(* What the broker takes from its channel is a message of the type asked   *)
(* for, of a client.                                                       *)
LEMMA TakeType ==
  ASSUME Typed, NEW t, Take(t)
  PROVE  /\ running
         /\ messages' \in Messages
         /\ Head(messages).client \in Clients
         /\ t = "ConnReq" => Head(messages) \in ConnReqs
         /\ t \in {"Subscribe", "Unsubscribe"} => Head(messages) \in SubMessages
<1>1. messages \in Messages /\ messages # << >>
  BY Zenon DEF Typed, Take
<1>2. Head(messages) \in ConnReqs \cup EndMessages \cup SubMessages /\ Tail(messages) \in Messages
  BY <1>1 DEF Messages
<1>3. Head(messages).type = t
  BY Zenon DEF Take
<1>4. Head(messages).client \in Clients
  BY <1>2, Zenon DEF ConnReqs, EndMessages, SubMessages
<1>5. t = "ConnReq" => Head(messages) \in ConnReqs
  BY <1>2, <1>3, Zenon DEF EndMessages, SubMessages, Ends
<1>6. t \in {"Subscribe", "Unsubscribe"} => Head(messages) \in SubMessages
  BY <1>2, <1>3, Zenon DEF EndMessages, ConnReqs, Ends
<1> QED BY <1>2, <1>4, <1>5, <1>6, Zenon DEF Take

(* An online session has the handle of a connection.                       *)
LEMMA OnlineHandle ==
  ASSUME Typed, NEW c \in Clients, Online(sessions[c])
  PROVE  sessions[c].handle \in Handles
<1>1. sessions[c].handle \in 0 .. MaxConnections /\ sessions[c].handle # 0
  BY Zenon DEF Typed, HandleExact, Session
<1> QED BY <1>1, BrokerAssumption DEF Handles

(* Events sent to a connection leave the channels well formed.             *)
LEMMA SendType ==
  ASSUME NEW q \in Outgoing, NEW h \in Handles, NEW es \in Seq({"ConnAck", "Stop", "Ack"})
  PROVE  Send(q, h, es) \in Outgoing
<1>1. q[h] \o es \in Seq({"ConnAck", "Stop", "Ack"})
  BY DEF Outgoing
<1> QED BY <1>1, Zenon DEF Send, Outgoing

(* The events the broker sends.                                            *)
LEMMA EventTypes ==
  /\ << "Stop" >> \in Seq({"ConnAck", "Stop", "Ack"})
  /\ << "Ack" >> \in Seq({"ConnAck", "Stop", "Ack"})
  /\ << "ConnAck" >> \in Seq({"ConnAck", "Stop", "Ack"})
  /\ << "ConnAck", "Stop" >> \in Seq({"ConnAck", "Stop", "Ack"})
  OBVIOUS

(* A handler of a running broker preserves the invariant when it leaves    *)
(* well formed state, connects only clients that may connect and keeps the *)
(* topics exact.                                                           *)
LEMMA HandlerInv ==
  ASSUME Inv, running, UNCHANGED <<conns, saved, running>>,
         sessions' \in [Clients -> Session], HandleExact(sessions'),
         retained' \in Topics, messages' \in Messages, outgoing' \in Outgoing,
         wills' \in [Handles -> Nat], allowed' \subseteq Clients,
         Connected(sessions') \subseteq allowed',
         Exact(retained, sessions) => Exact(retained', sessions')
  PROVE  Inv'
<1>1. Typed'
  <2>1. HandleExact(saved.sessions)' /\ \A c \in Clients : ~Online(saved.sessions[c])'
    BY Zenon DEF Inv, Typed, HandleExact, Online
  <2>2. HandleExact(sessions)'
    BY Zenon DEF HandleExact
  <2> QED BY <2>1, <2>2, Zenon DEF Inv, Typed, Connections
<1>2. OnlyAllowedConnected'
  BY Zenon DEF OnlyAllowedConnected, Connected
<1>3. ASSUME ~Failures PROVE ConnectedTopicExact' /\ running'
  <2>1. Exact(retained', sessions')
    BY <1>3, Zenon DEF Inv, ConnectedTopicExact, Exact
  <2> QED BY <2>1, Zenon DEF ConnectedTopicExact, Exact, Connected, Known
<1> QED BY <1>1, <1>2, <1>3, Zenon DEF Inv

(* A handler that leaves sessions and topics alone preserves it too.       *)
LEMMA QuietInv ==
  ASSUME Inv, running, UNCHANGED <<conns, saved, running, sessions, retained, allowed, wills>>,
         messages' \in Messages, outgoing' \in Outgoing
  PROVE  Inv'
  BY ConnectionInv, Zenon DEF Inv, Typed

(* Closing the sessions cs of a running broker preserves the invariant.    *)
LEMMA CloseInv ==
  ASSUME Inv, running, NEW cs \in SUBSET Connected(sessions),
         sessions' = [c \in Clients |-> IF c \in cs THEN Closed(sessions[c]) ELSE sessions[c]],
         retained' = IF cs = {} THEN retained ELSE RetainedAfter(sessions', cs),
         UNCHANGED <<conns, saved, running>>,
         messages' \in Messages, outgoing' \in Outgoing, wills' \in [Handles -> Nat],
         allowed' \subseteq Clients, Connected(sessions) \ cs \subseteq allowed'
  PROVE  Inv'
<1>1. /\ sessions' \in [Clients -> Session]
      /\ HandleExact(sessions')
      /\ Connected(sessions') = Connected(sessions) \ cs
      /\ RetainedAfter(sessions', cs) \in Topics
      /\ Exact(retained, sessions) => Exact(RetainedAfter(sessions', cs), sessions')
  BY CloseSome, Zenon DEF Inv
<1>2. CASE cs = {}
  <2>1. sessions' = sessions /\ retained' = retained
    BY <1>2, Zenon DEF Inv, Typed
  <2> QED BY <1>1, <1>2, <2>1, HandlerInv, Zenon DEF Inv, Typed
<1>3. CASE cs # {}
  BY <1>1, <1>3, HandlerInv, Zenon
<1> QED BY <1>2, <1>3, Zenon

(* close_session of one client, with the events and the will that go with  *)
(* it.                                                                     *)
LEMMA CloseOneInv ==
  ASSUME Inv, running, NEW c \in Clients, Online(sessions[c]), CloseSession(c),
         UNCHANGED <<conns, saved, running, allowed>>,
         messages' \in Messages, outgoing' \in Outgoing, wills' \in [Handles -> Nat]
  PROVE  Inv'
<1>1. {c} \in SUBSET Connected(sessions)
  BY Zenon DEF Connected
<1>2. sessions' = [d \in Clients |-> IF d \in {c} THEN Closed(sessions[d]) ELSE sessions[d]]
  BY Zenon DEF CloseSession, Inv, Typed
<1>3. retained' = IF {c} = {} THEN retained ELSE RetainedAfter(sessions', {c})
  BY Zenon DEF CloseSession
<1>4. allowed' \subseteq Clients /\ Connected(sessions) \ {c} \subseteq allowed'
  BY Zenon DEF Inv, Typed, OnlyAllowedConnected
<1> QED BY <1>1, <1>2, <1>3, <1>4, CloseInv, Zenon
-----------------------------------------------------------------------------
(* The messages that end a connection preserve the invariant.              *)
LEMMA EndSteps ==
  ASSUME Inv, ProcessDisconnect \/ ProcessDropConnection \/ ProcessCloseSession
  PROVE  Inv'
<1> DEFINE c == Head(messages).client
<1>1. Typed
  BY Zenon DEF Inv
<1>2. running /\ messages' \in Messages /\ c \in Clients
  BY <1>1, TakeType, Zenon DEF ProcessDisconnect, ProcessDropConnection, ProcessCloseSession
<1>3. outgoing \in Outgoing /\ wills \in [Handles -> Nat]
  BY <1>1, Zenon DEF Typed
<1>4. UNCHANGED <<conns, allowed, saved, running>>
  BY Zenon DEF ProcessDisconnect, ProcessDropConnection, ProcessCloseSession
<1>5. CASE ~Online(sessions[c])
  <2>1. UNCHANGED <<sessions, retained, outgoing, wills>>
    BY <1>5, Zenon DEF ProcessDisconnect, ProcessDropConnection, ProcessCloseSession, DropConnection
  <2> QED BY <1>2, <1>3, <1>4, <2>1, QuietInv, Zenon
<1>6. CASE Online(sessions[c])
  <2> DEFINE h == sessions[c].handle
  <2>1. h \in Handles
    BY <1>1, <1>2, <1>6, OnlineHandle, Zenon
  <2>2. CloseSession(c)
    BY <1>6, Zenon DEF ProcessDisconnect, ProcessDropConnection, ProcessCloseSession, DropConnection
  <2>3. outgoing' = outgoing \/ outgoing' = Send(outgoing, h, << "Stop" >>)
    BY <1>6, Zenon DEF ProcessDisconnect, ProcessDropConnection, ProcessCloseSession, DropConnection
  <2>4. wills' = wills \/ PublishWill(h)
    BY <1>6, Zenon DEF ProcessDisconnect, ProcessDropConnection, ProcessCloseSession, DropConnection
  <2> HIDE DEF h, c
  <2>5. outgoing' \in Outgoing
    BY <1>3, <2>1, <2>3, SendType, EventTypes, Zenon
  <2>6. wills' \in [Handles -> Nat]
    BY <1>3, <2>1, <2>4 DEF PublishWill
  <2> QED BY <1>2, <1>4, <1>6, <2>2, <2>5, <2>6, CloseOneInv, Zenon
<1> QED BY <1>5, <1>6, Zenon

(* process_subscribe and process_unsubscribe change neither who is         *)
(* connected nor who has a session.                                        *)
LEMMA SubscriptionStep ==
  ASSUME Inv, NEW t \in {"Subscribe", "Unsubscribe"}, ProcessSubscription(t)
  PROVE  Inv'
<1> DEFINE m == Head(messages)
           c == m.client
           s == sessions[c]
           subs == IF t = "Subscribe" THEN s.subs \cup {m.filter} ELSE s.subs \ {m.filter}
<1>1. Typed
  BY Zenon DEF Inv
<1>2. running /\ messages' \in Messages /\ c \in Clients /\ m.filter \in TopicFilters
  BY <1>1, TakeType, Zenon DEF ProcessSubscription, SubMessages
<1>3. UNCHANGED <<conns, wills, allowed, saved, running>>
  BY Zenon DEF ProcessSubscription
<1>4. CASE ~Online(s)
  BY <1>1, <1>2, <1>3, <1>4, QuietInv, Zenon DEF ProcessSubscription, Typed
<1>5. CASE Online(s)
  <2>1. /\ sessions' = [sessions EXCEPT ![c].subs = subs]
        /\ retained' = [retained EXCEPT !.subs[c] = subs]
        /\ outgoing' = Send(outgoing, s.handle, << "Ack" >>)
    BY <1>5, Zenon DEF ProcessSubscription
  <2>2. s \in Session /\ subs \in SUBSET TopicFilters /\ s.handle \in Handles
    BY <1>1, <1>2, <1>5, OnlineHandle, Zenon DEF Typed, Session
  <2> HIDE DEF subs, c
  <2>3. outgoing' \in Outgoing
    BY <1>1, <2>1, <2>2, SendType, EventTypes, Zenon DEF Typed
  <2>4. retained' \in Topics /\ retained'.connected = retained.connected
                             /\ retained'.sessions = retained.sessions
    BY <1>1, <1>2, <2>1, <2>2, Zenon DEF Typed, Topics
  <2>5. [s EXCEPT !.subs = subs] = [kind |-> s.kind, handle |-> s.handle, subs |-> subs]
    BY <2>2 DEF Session
  <2>6. sessions' = [sessions EXCEPT ![c] = [kind |-> s.kind, handle |-> s.handle, subs |-> subs]]
    BY <2>1, <2>5, Zenon
  <2>7. sessions' \in [Clients -> Session]
    BY <1>1, <1>2, <2>2, <2>6, Zenon DEF Typed, Session
  <2>8. \A d \in Clients : sessions'[d].kind = sessions[d].kind
                           /\ sessions'[d].handle = sessions[d].handle
    BY <1>1, <1>2, <2>6, Zenon DEF Typed
  <2>9. Connected(sessions') = Connected(sessions) /\ Known(sessions') = Known(sessions)
        /\ HandleExact(sessions')
    BY <1>1, <2>8 DEF Connected, Known, Online, HandleExact, Typed
  <2>10. wills' \in [Handles -> Nat] /\ allowed' \subseteq Clients
         /\ Connected(sessions') \subseteq allowed'
    BY <1>2, <1>3, <2>9, Zenon DEF Inv, Typed, OnlyAllowedConnected
  <2>11. Exact(retained, sessions) => Exact(retained', sessions')
    BY <2>4, <2>9, Zenon DEF Exact
  <2> QED BY <1>2, <1>3, <2>3, <2>4, <2>7, <2>9, <2>10, <2>11, HandlerInv, Zenon
<1> QED BY <1>4, <1>5, Zenon

(* process_connect connects only clients with the permission and publishes *)
(* what changes; a takeover changes nothing that the topics tell.          *)
LEMMA ConnectStep ==
  ASSUME Inv, ProcessConnect
  PROVE  Inv'
<1> DEFINE m == Head(messages)
           c == m.client
           s == sessions[c]
           new == [kind |-> IF m.clean THEN "transient" ELSE "persistent",
                   handle |-> m.handle, subs |-> IF m.clean THEN {} ELSE s.subs]
           ss == [sessions EXCEPT ![c] = new]
<1>1. Typed
  BY Zenon DEF Inv
<1>2. running /\ messages' \in Messages /\ m \in ConnReqs
  BY <1>1, TakeType, Zenon DEF ProcessConnect
<1>3. UNCHANGED <<conns, wills, allowed, saved, running>>
  BY Zenon DEF ProcessConnect
<1>4. c \in Clients /\ m.handle \in Handles /\ s \in Session
  BY <1>1, <1>2, Zenon DEF ConnReqs, Typed
<1>5. CASE c \notin allowed
  <2>1. outgoing' = Send(outgoing, m.handle, << "ConnAck", "Stop" >>)
        /\ UNCHANGED <<sessions, retained>>
    BY <1>5, Zenon DEF ProcessConnect
  <2>2. outgoing' \in Outgoing
    BY <1>1, <1>4, <2>1, SendType, EventTypes, Zenon DEF Typed
  <2> QED BY <1>2, <1>3, <2>1, <2>2, QuietInv, Zenon
<1>6. CASE c \in allowed
  <2>1. sessions' = ss
    BY <1>6, Zenon DEF ProcessConnect
  <2>2. new \in Session /\ Online(new) /\ new.handle # 0 /\ new.kind # "none"
    BY <1>4, BrokerAssumption DEF Session, Handles, Online
  <2>3. new.subs \in SUBSET TopicFilters
    BY <2>2, Zenon DEF Session
  <2> HIDE DEF new
  <2>4. ss \in [Clients -> Session] /\ HandleExact(ss)
    BY <1>1, <1>4, <2>2, Zenon DEF Typed, HandleExact
  <2>5. Connected(ss) = Connected(sessions) \cup {c} /\ Known(ss) = Known(sessions) \cup {c}
    BY <1>1, <1>4, <2>2, Zenon DEF Typed, Connected, Known
  <2>6. Connected(ss) \subseteq allowed' /\ wills' \in [Handles -> Nat] /\ allowed' \subseteq Clients
    BY <1>2, <1>3, <1>6, <2>5, Zenon DEF Inv, Typed, OnlyAllowedConnected
  <2>7. outgoing' \in Outgoing
    <3>1. CASE Online(s)
      <4>1. s.handle \in Handles
        BY <1>1, <1>4, <3>1, OnlineHandle, Zenon
      <4>2. Send(outgoing, s.handle, << "Stop" >>) \in Outgoing
        BY <1>1, <4>1, SendType, EventTypes, Zenon DEF Typed
      <4>3. Send(Send(outgoing, s.handle, << "Stop" >>), m.handle, << "ConnAck" >>) \in Outgoing
        BY <1>4, <4>2, SendType, EventTypes, Zenon
      <4> QED BY <1>6, <3>1, <4>3, Zenon DEF ProcessConnect
    <3>2. CASE ~Online(s)
      <4>1. outgoing' = Send(outgoing, m.handle, << "ConnAck" >>)
        BY <1>6, <3>2, Zenon DEF ProcessConnect
      <4> QED BY <1>1, <1>4, <4>1, SendType, EventTypes, Zenon DEF Typed
    <3> QED BY <3>1, <3>2, Zenon
  <2>8. retained' \in Topics /\ (Exact(retained, sessions) => Exact(retained', ss))
    <3>1. CASE Online(s)
      <4>1. retained' = retained
        BY <1>6, <3>1, Zenon DEF ProcessConnect
      <4>2. c \in Connected(sessions) /\ c \in Known(sessions)
        BY <1>4, <3>1, Zenon DEF Connected, Known, Online
      <4>3. Connected(ss) = Connected(sessions) /\ Known(ss) = Known(sessions)
        BY <2>5, <4>2, Zenon
      <4> HIDE DEF ss
      <4> QED BY <1>1, <4>1, <4>3, Zenon DEF Typed, Exact
    <3>2. CASE ~Online(s)
      <4>1. retained' = [connected |-> Connected(ss),
                         sessions |-> IF s.kind = "none" THEN Known(ss) ELSE retained.sessions,
                         subs |-> [retained.subs EXCEPT ![c] = new.subs]]
        BY <1>6, <3>2, Zenon DEF ProcessConnect, new
      <4>2. s.kind # "none" => Known(ss) = Known(sessions)
        BY <1>4, <2>5, Zenon DEF Known
      <4>3. [retained.subs EXCEPT ![c] = new.subs] \in [Clients -> SUBSET TopicFilters]
        BY <1>1, <1>4, <2>3, Zenon DEF Typed, Topics
      <4>4. Connected(ss) \in SUBSET Clients /\ Known(ss) \in SUBSET Clients
            /\ retained.sessions \in SUBSET Clients
        BY <1>1, Zenon DEF Connected, Known, Typed, Topics
      <4> HIDE DEF ss, s
      <4>5. retained' \in Topics
        BY <4>1, <4>3, <4>4, Zenon DEF Topics
      <4>6. retained'.connected = Connected(ss)
            /\ retained'.sessions = IF s.kind = "none" THEN Known(ss) ELSE retained.sessions
        BY <4>1, Zenon
      <4> QED BY <4>2, <4>5, <4>6, Zenon DEF Exact
    <3> QED BY <3>1, <3>2, Zenon
  <2> HIDE DEF ss
  <2> QED BY <1>2, <1>3, <2>1, <2>4, <2>6, <2>7, <2>8, HandlerInv, Zenon
<1> QED BY <1>5, <1>6, Zenon
-----------------------------------------------------------------------------
(* "Stop" sent to the connections hs.                                      *)
LEMMA StopType ==
  ASSUME Typed, NEW hs
  PROVE  [h \in Handles |-> IF h \in hs THEN Append(outgoing[h], "Stop") ELSE outgoing[h]]
           \in Outgoing
<1>1. \A h \in Handles : /\ outgoing[h] \in Seq({"ConnAck", "Stop", "Ack"})
                         /\ Append(outgoing[h], "Stop") \in Seq({"ConnAck", "Stop", "Ack"})
  BY DEF Typed, Outgoing
<1> QED BY <1>1, Zenon DEF Outgoing

(* reauthorize disconnects every client without the permission.            *)
LEMMA UpdateStep ==
  ASSUME Inv, NEW cs \in SUBSET Clients, UpdateAuthorization(cs)
  PROVE  Inv'
<1> DEFINE dropped == Connected(sessions) \ cs
           hs == {sessions[c].handle : c \in dropped}
<1>1. Typed
  BY Zenon DEF Inv
<1>2. /\ running /\ allowed' = cs /\ UNCHANGED <<messages, conns, saved, running>>
      /\ sessions' = [c \in Clients |-> IF c \in dropped THEN Closed(sessions[c]) ELSE sessions[c]]
      /\ retained' = IF dropped = {} THEN retained ELSE RetainedAfter(sessions', dropped)
      /\ outgoing' = [h \in Handles |-> IF h \in hs THEN Append(outgoing[h], "Stop")
                                                    ELSE outgoing[h]]
      /\ wills' = [h \in Handles |-> IF h \in hs THEN wills[h] + 1 ELSE wills[h]]
  BY Zenon DEF UpdateAuthorization
<1>3. dropped \in SUBSET Connected(sessions) /\ Connected(sessions) \ dropped \subseteq cs
  BY Zenon
<1> HIDE DEF dropped, hs
<1>4. outgoing' \in Outgoing
  BY <1>1, <1>2, StopType, Zenon
<1>5. wills' \in [Handles -> Nat]
  BY <1>1, <1>2 DEF Typed
<1>6. messages' \in Messages
  BY <1>1, <1>2, Zenon DEF Typed
<1> QED BY <1>2, <1>3, <1>4, <1>5, <1>6, CloseInv, Zenon

(* A step that only changes what is on disk, or stops the broker with a    *)
(* snapshot that is exact unless it may fail, preserves the invariant.     *)
LEMMA SavedInv ==
  ASSUME Typed', OnlyAllowedConnected',
         ~Failures => ConnectedTopicExact' /\ (~running' => Exact(saved'.retained, saved'.sessions))
  PROVE  Inv'
  BY Zenon DEF Inv, Exact, Connected, Known

(* Saving the state leaves a well formed snapshot behind.                  *)
LEMMA SnapshotStep ==
  ASSUME Inv, StateSnapshot
  PROVE  Inv'
<1>1. Typed /\ Failures
  BY Zenon DEF Inv, StateSnapshot
<1>2. /\ UNCHANGED <<sessions, retained, messages, conns, outgoing, wills, allowed, running>>
      /\ saved' = Snapshot(sessions, retained)
  BY Zenon DEF StateSnapshot
<1>3. /\ saved' \in [retained : Topics, sessions : [Clients -> Session]]
      /\ HandleExact(saved'.sessions)
      /\ \A c \in Clients : ~Online(saved'.sessions[c])
  BY <1>1, <1>2, SnapshotType, Zenon DEF Typed
<1>4. Typed'
  BY <1>1, <1>2, <1>3, Zenon DEF Typed, HandleExact, Online
<1>5. OnlyAllowedConnected'
  BY <1>2, Zenon DEF Inv, OnlyAllowedConnected, Connected
<1> QED BY <1>1, <1>4, <1>5, SavedInv, Zenon

(* So does a broker that fails.                                            *)
LEMMA FailStep ==
  ASSUME Inv, Fail
  PROVE  Inv'
<1>1. Typed /\ Failures
  BY Zenon DEF Inv, Fail
<1>2. /\ UNCHANGED <<sessions, retained, conns, outgoing, wills, allowed>>
      /\ messages' = << >>
      /\ running' = FALSE
      /\ saved' = saved \/ saved' = Snapshot(sessions, retained)
  BY Zenon DEF Fail
<1>3. /\ saved' \in [retained : Topics, sessions : [Clients -> Session]]
      /\ HandleExact(saved'.sessions)
      /\ \A c \in Clients : ~Online(saved'.sessions[c])
  BY <1>1, <1>2, SnapshotType, Zenon DEF Typed
<1>4. messages' \in Messages
  BY <1>2 DEF Messages
<1>5. Typed'
  BY <1>1, <1>2, <1>3, <1>4, Zenon DEF Typed, HandleExact, Online
<1>6. OnlyAllowedConnected'
  BY <1>2, Zenon DEF OnlyAllowedConnected
<1> QED BY <1>1, <1>5, <1>6, SavedInv, Zenon

(* process_shutdown closes every session before the last snapshot, which   *)
(* therefore says that nobody is connected.                                *)
LEMMA ShutdownStep ==
  ASSUME Inv, Shutdown
  PROVE  Inv'
<1> DEFINE online == Connected(sessions)
           ss == [c \in Clients |-> IF c \in online THEN Closed(sessions[c]) ELSE sessions[c]]
           r == IF online = {} THEN retained ELSE RetainedAfter(ss, online)
           hs == {sessions[c].handle : c \in online}
<1>1. Typed /\ running
  BY Zenon DEF Inv, Shutdown
<1>2. /\ running' = FALSE /\ UNCHANGED <<conns, wills, allowed>>
      /\ sessions' = ss /\ retained' = r
      /\ saved' = Snapshot(ss, r)
      /\ messages' = << >>
      /\ outgoing' = [h \in Handles |-> IF h \in hs THEN Append(outgoing[h], "Stop")
                                                    ELSE outgoing[h]]
  BY Zenon DEF Shutdown
<1>3. /\ ss \in [Clients -> Session]
      /\ HandleExact(ss)
      /\ Connected(ss) = Connected(sessions) \ online
      /\ RetainedAfter(ss, online) \in Topics
      /\ Exact(retained, sessions) => Exact(RetainedAfter(ss, online), ss)
  BY <1>1, CloseSome, Zenon
<1>4. online = {} => ss = sessions
  BY <1>1, Zenon DEF Typed
<1>5. r \in Topics /\ (Exact(retained, sessions) => Exact(r, ss)) /\ Connected(ss) = {}
  BY <1>1, <1>3, <1>4, Zenon DEF Typed
<1> HIDE DEF online, ss, r, hs
<1>6. /\ saved' \in [retained : Topics, sessions : [Clients -> Session]]
      /\ HandleExact(saved'.sessions)
      /\ \A c \in Clients : ~Online(saved'.sessions[c])
  BY <1>2, <1>3, <1>5, SnapshotType, Zenon
<1>7. messages' \in Messages /\ outgoing' \in Outgoing
  <2>1. messages' \in Messages
    BY <1>2 DEF Messages
  <2> QED BY <1>1, <1>2, <2>1, StopType, Zenon
<1>8. Typed'
  <2>1. HandleExact(sessions)'
    BY <1>2, <1>3, Zenon DEF HandleExact
  <2>2. HandleExact(saved.sessions)' /\ \A c \in Clients : ~Online(saved.sessions[c])'
    BY <1>6, Zenon DEF HandleExact, Online
  <2> QED BY <1>1, <1>2, <1>3, <1>5, <1>6, <1>7, <2>1, <2>2, Zenon DEF Typed
<1>9. OnlyAllowedConnected' /\ ConnectedTopicExact'
  BY <1>2, Zenon DEF OnlyAllowedConnected, ConnectedTopicExact
<1>10. Exact(retained, sessions) => Exact(saved'.retained, saved'.sessions)
  <2>1. saved'.retained = r
        /\ saved'.sessions = [c \in Clients |-> IF ss[c].kind \in {"persistent", "offline"}
                                                  THEN Closed(ss[c]) ELSE NoSession]
    BY <1>2, Zenon DEF Snapshot
  <2>2. Connected(saved'.sessions) = {}
    BY <1>6, Zenon DEF Connected
  <2>3. \A c \in Clients : ss[c] \in Session /\ ss[c].kind # "transient"
    BY <1>3, <1>5, Zenon DEF Connected, Online
  <2>4. \A c \in Clients : ss[c].kind # "none" =>
          ss[c].kind \in {"persistent", "offline"} /\ Closed(ss[c]).kind # "none"
    BY <2>3, ClosedType, Zenon DEF Session
  <2>5. \A c \in Clients : saved'.sessions[c].kind # "none" <=> ss[c].kind # "none"
    BY <2>1, <2>4 DEF NoSession
  <2>6. Known(saved'.sessions) = Known(ss)
    BY <2>5, Zenon DEF Known
  <2> QED BY <1>5, <2>1, <2>2, <2>6, Zenon DEF Exact
<1>11. ~Failures => Exact(retained, sessions)
  BY <1>1, Zenon DEF Inv, ConnectedTopicExact, Exact
<1> QED BY <1>8, <1>9, <1>10, <1>11, SavedInv, Zenon

(* A broker starts with the sessions and topics of the snapshot.           *)
LEMMA StartStep ==
  ASSUME Inv, Start
  PROVE  Inv'
<1>1. Typed /\ ~running
  BY Zenon DEF Inv, Start
<1>2. /\ running' = TRUE /\ sessions' = saved.sessions /\ retained' = saved.retained
      /\ UNCHANGED <<messages, wills, allowed, saved>>
      /\ outgoing' = [h \in Handles |-> << >>]
      /\ conns' = [h \in Handles |-> IF conns[h].pc = "unused"
                                       THEN conns[h] ELSE [conns[h] EXCEPT !.pc = "closed"]]
  BY Zenon DEF Start
<1>3. sessions' \in [Clients -> Session] /\ retained' \in Topics
  BY <1>1, <1>2, Zenon DEF Typed
<1>4. HandleExact(sessions)' /\ HandleExact(saved.sessions)'
      /\ \A c \in Clients : ~Online(saved.sessions[c])'
  BY <1>1, <1>2, Zenon DEF Typed, HandleExact, Online
<1>5. outgoing' \in Outgoing
  BY <1>2 DEF Outgoing
<1>6. conns' \in Connections
  <2>1. \A h \in Handles : conns[h] \in [pc : Pcs, client : Clients]
    BY <1>1, Zenon DEF Typed, Connections
  <2>2. \A h \in Handles : [conns[h] EXCEPT !.pc = "closed"] \in [pc : Pcs, client : Clients]
    BY <2>1, Zenon DEF Pcs
  <2> QED BY <1>2, <2>1, <2>2, Zenon DEF Connections
<1>7. Typed'
  BY <1>1, <1>2, <1>3, <1>4, <1>5, <1>6, Zenon DEF Typed
<1>8. Connected(sessions') = {}
  BY <1>1, <1>2, Zenon DEF Connected, Typed
<1>9. OnlyAllowedConnected'
  BY <1>8, Zenon DEF OnlyAllowedConnected, Connected
<1>10. ~Failures => ConnectedTopicExact'
  BY <1>1, <1>2, Zenon DEF Inv, Exact, ConnectedTopicExact, Connected, Known
<1> QED BY <1>2, <1>7, <1>9, <1>10, SavedInv, Zenon
-----------------------------------------------------------------------------
(* Every step of the broker and its connections preserves the invariant.   *)
LEMMA NextInv == Inv /\ [Next]_vars => Inv'
<1> SUFFICES ASSUME Inv, [Next]_vars PROVE Inv'
  BY Zenon
<1>1. CASE UNCHANGED vars
  BY <1>1, ConnectionInv, Zenon DEF vars, Inv, Typed
<1>2. CASE Handle
  BY <1>2, ConnectStep, EndSteps, SubscriptionStep, Zenon DEF Handle
<1>3. ASSUME NEW cs \in SUBSET Clients, UpdateAuthorization(cs) PROVE Inv'
  BY <1>3, UpdateStep, Zenon
<1>4. CASE StateSnapshot \/ Shutdown \/ Fail \/ Start
  BY <1>4, SnapshotStep, ShutdownStep, FailStep, StartStep, Zenon
<1> QED BY <1>1, <1>2, <1>3, <1>4, ConnectionSteps, Zenon DEF Next

(* The inductive invariant holds throughout.                               *)
THEOREM InvHolds == Spec => []Inv
  BY InitInv, NextInv, PTL DEF Spec

(* Sessions, connections, topics and permissions keep their shape, and a   *)
(* session holds a connection's handle exactly while it is online, whatever *)
(* messages its client's connections leave behind.                         *)
THEOREM TypeCorrect == Spec => []TypeOK
<1>1. Inv => TypeOK
  BY Zenon DEF Inv, Typed, TypeOK, Session, Topics, Connections, Pcs, HandleExact
<1> QED BY <1>1, InvHolds, PTL

(* No client without the permission stays connected once the broker has    *)
(* handled the update of the policy (reauthorize, process_connect).        *)
THEOREM OnlyAllowedConnectedHolds == Spec => []OnlyAllowedConnected
<1>1. Inv => OnlyAllowedConnected
  BY Zenon DEF Inv
<1> QED BY <1>1, InvHolds, PTL

(* The topics $edgehub/connected and $edgehub/sessions tell who is         *)
(* connected and who has a session, as long as the broker stops only by    *)
(* process_shutdown.                                                       *)
THEOREM ConnectedTopicExactHolds == ~Failures => (Spec => []ConnectedTopicExact)
<1>1. ~Failures /\ Inv => ConnectedTopicExact
  BY Zenon DEF Inv
<1>2. ASSUME ~Failures PROVE Inv => ConnectedTopicExact
  BY <1>1, <1>2, Zenon
<1>3. ASSUME ~Failures PROVE Spec => []ConnectedTopicExact
  BY <1>2, <1>3, InvHolds, PTL
<1> QED BY <1>3, Zenon

-----------------------------------------------------------------------------
(* The subscriptions of the sessions ss are in the topics r.               *)
Listed(r, ss) == \A c \in Clients : ss[c].subs \subseteq r.subs[c]

(* Topics and sessions in memory, and those on disk from which a broker    *)
(* starts, even after a failure.                                           *)
ListedInv == Listed(retained, sessions) /\ Listed(saved.retained, saved.sessions)

(* Closing sessions empties the topics of the transient ones only, which   *)
(* are gone.                                                               *)
LEMMA CloseListed ==
  ASSUME Typed, Listed(retained, sessions), NEW cs \in SUBSET Connected(sessions), NEW ss,
         ss = [c \in Clients |-> IF c \in cs THEN Closed(sessions[c]) ELSE sessions[c]]
  PROVE  Listed(RetainedAfter(ss, cs), ss)
<1>1. \A c \in cs : c \in Clients /\ sessions[c] \in Session /\ sessions[c].kind # "none"
  BY Zenon DEF Typed, Connected, Online
<1>2. \A c \in cs : Closed(sessions[c]).kind = "none" => Closed(sessions[c]).subs = {}
  BY <1>1, Zenon DEF Closed, NoSession, Session
<1>3. \A c \in cs : Closed(sessions[c]).subs \subseteq sessions[c].subs
  BY <1>1, Zenon DEF Closed, NoSession, Session
<1>4. ASSUME NEW c \in Clients PROVE ss[c].subs \subseteq RetainedAfter(ss, cs).subs[c]
  <2>1. RetainedAfter(ss, cs).subs[c] = IF c \in cs /\ ss[c].kind = "none" THEN {} ELSE retained.subs[c]
    BY Zenon DEF RetainedAfter
  <2>2. sessions[c].subs \subseteq retained.subs[c]
    BY Zenon DEF Listed
  <2> QED BY <1>2, <1>3, <2>1, <2>2, Zenon
<1> QED BY <1>4, Zenon DEF Listed

(* A snapshot has the subscriptions of the persistent sessions and the     *)
(* topics as they are.                                                     *)
LEMMA SnapshotListed ==
  ASSUME NEW ss \in [Clients -> Session], NEW r, Listed(r, ss)
  PROVE  Listed(Snapshot(ss, r).retained, Snapshot(ss, r).sessions)
<1>1. \A c \in Clients : ss[c].kind \in {"persistent", "offline"} => Closed(ss[c]).subs = ss[c].subs
  BY Zenon DEF Closed, Session
<1>2. NoSession.subs = {}
  BY Zenon DEF NoSession
<1>3. \A c \in Clients : Snapshot(ss, r).sessions[c].subs \subseteq ss[c].subs
  BY <1>1, <1>2, Zenon DEF Snapshot
<1>4. Snapshot(ss, r).retained = r
  BY Zenon DEF Snapshot
<1> QED BY <1>3, <1>4, Zenon DEF Listed

(* Handlers that close one session, or none.                               *)
LEMMA EndListed ==
  ASSUME Typed, Listed(retained, sessions), NEW c \in Clients, Online(sessions[c]), CloseSession(c)
  PROVE  Listed(retained', sessions')
<1>1. {c} \in SUBSET Connected(sessions)
  BY Zenon DEF Connected
<1>2. sessions' = [d \in Clients |-> IF d \in {c} THEN Closed(sessions[d]) ELSE sessions[d]]
  BY Zenon DEF CloseSession, Typed
<1>3. retained' = RetainedAfter(sessions', {c})
  BY Zenon DEF CloseSession
<1> QED BY <1>1, <1>2, <1>3, CloseListed, Zenon

(* process_connect lists what the session has; a takeover leaves the topic *)
(* and adds no subscription.                                               *)
LEMMA ConnectListed ==
  ASSUME Typed, Listed(retained, sessions), ProcessConnect
  PROVE  Listed(retained', sessions')
<1> DEFINE m == Head(messages)
           c == m.client
           s == sessions[c]
           new == [kind |-> IF m.clean THEN "transient" ELSE "persistent",
                   handle |-> m.handle, subs |-> IF m.clean THEN {} ELSE s.subs]
<1>1. c \in Clients
  BY TakeType, Zenon DEF ProcessConnect
<1>2. CASE c \notin allowed
  BY <1>2, Zenon DEF ProcessConnect
<1>3. CASE c \in allowed
  <2>1. sessions' = [sessions EXCEPT ![c] = new]
    BY <1>3, Zenon DEF ProcessConnect
  <2>2. new.subs \subseteq s.subs
    BY Zenon
  <2>3. CASE Online(s)
    <3>1. retained' = retained
      BY <1>3, <2>3, Zenon DEF ProcessConnect
    <3> HIDE DEF new, c
    <3> QED BY <1>1, <2>1, <2>2, <3>1, Zenon DEF Typed, Listed
  <2>4. CASE ~Online(s)
    <3>0. PICK x, y : retained' = [connected |-> x, sessions |-> y,
                                   subs |-> [retained.subs EXCEPT ![c] = new.subs]]
      <4> HIDE DEF new
      <4> QED BY <1>3, <2>4, Zenon DEF ProcessConnect, new
    <3>1. retained'.subs = [retained.subs EXCEPT ![c] = new.subs]
      BY <3>0, Zenon
    <3> HIDE DEF new, c
    <3> QED BY <1>1, <2>1, <3>1, Zenon DEF Typed, Listed, Topics
  <2> QED BY <2>3, <2>4, Zenon
<1> QED BY <1>2, <1>3, Zenon

(* The messages that end a connection.                                     *)
LEMMA EndStepsListed ==
  ASSUME Typed, Listed(retained, sessions),
         ProcessDisconnect \/ ProcessDropConnection \/ ProcessCloseSession
  PROVE  Listed(retained', sessions')
<1> DEFINE c == Head(messages).client
<1>1. c \in Clients
  BY TakeType, Zenon DEF ProcessDisconnect, ProcessDropConnection, ProcessCloseSession
<1>2. CASE Online(sessions[c])
  <2>1. CloseSession(c)
    BY <1>2, Zenon DEF ProcessDisconnect, ProcessDropConnection, ProcessCloseSession, DropConnection
  <2> QED BY <1>1, <1>2, <2>1, EndListed, Zenon
<1>3. CASE ~Online(sessions[c])
  BY <1>3, Zenon DEF ProcessDisconnect, ProcessDropConnection, ProcessCloseSession, DropConnection
<1> QED BY <1>2, <1>3, Zenon

(* process_subscribe and process_unsubscribe publish the new list.         *)
LEMMA SubscriptionListed ==
  ASSUME Typed, Listed(retained, sessions), NEW t \in {"Subscribe", "Unsubscribe"},
         ProcessSubscription(t)
  PROVE  Listed(retained', sessions')
<1> DEFINE m == Head(messages)
           c == m.client
           s == sessions[c]
           subs == IF t = "Subscribe" THEN s.subs \cup {m.filter} ELSE s.subs \ {m.filter}
<1>1. c \in Clients
  BY TakeType, Zenon DEF ProcessSubscription
<1>2. CASE Online(s)
  <2>1. /\ sessions' = [sessions EXCEPT ![c].subs = subs]
        /\ retained' = [retained EXCEPT !.subs[c] = subs]
    BY <1>2, Zenon DEF ProcessSubscription
  <2> HIDE DEF subs, c
  <2>2. \A d \in Clients : sessions'[d].subs = IF d = c THEN subs ELSE sessions[d].subs
    BY <1>1, <2>1 DEF Typed, Session
  <2>3. \A d \in Clients : retained'.subs[d] = IF d = c THEN subs ELSE retained.subs[d]
    BY <1>1, <2>1, Zenon DEF Typed, Topics
  <2> QED BY <2>2, <2>3, Zenon DEF Listed
<1>3. CASE ~Online(s)
  BY <1>3, Zenon DEF ProcessSubscription
<1> QED BY <1>2, <1>3, Zenon

(* reauthorize and process_shutdown close several sessions at once.        *)
LEMMA CloseManyListed ==
  ASSUME Typed, Listed(retained, sessions), NEW cs \in SUBSET Connected(sessions), NEW ss, NEW r,
         ss = [c \in Clients |-> IF c \in cs THEN Closed(sessions[c]) ELSE sessions[c]],
         r = IF cs = {} THEN retained ELSE RetainedAfter(ss, cs)
  PROVE  Listed(r, ss) /\ ss \in [Clients -> Session]
<1>1. ss \in [Clients -> Session]
  BY CloseSome, Zenon
<1>2. CASE cs = {}
  BY <1>1, <1>2, Zenon DEF Listed
<1>3. CASE cs # {}
  BY <1>1, <1>3, CloseListed, Zenon
<1> QED BY <1>2, <1>3, Zenon

(* The first broker has no subscriptions.                                  *)
LEMMA InitListed == Init => ListedInv
  BY DEF Init, ListedInv, Listed, NoSession

(* Every step of the broker and of its connections keeps the topics        *)
(* complete.                                                               *)
LEMMA NextListed == Inv /\ ListedInv /\ [Next]_vars => ListedInv'
<1> SUFFICES ASSUME Inv, ListedInv, [Next]_vars PROVE ListedInv'
  BY Zenon
<1>0. Typed /\ Listed(retained, sessions) /\ Listed(saved.retained, saved.sessions)
      /\ sessions \in [Clients -> Session]
  BY Zenon DEF Inv, ListedInv, Typed
<1>1. ASSUME UNCHANGED <<sessions, retained, saved>> PROVE ListedInv'
  BY <1>0, <1>1, Zenon DEF ListedInv, Listed
<1>2. ASSUME Listed(retained', sessions'), saved' = saved PROVE ListedInv'
  BY <1>0, <1>2, Zenon DEF ListedInv, Listed
<1>3. CASE Handle
  <2>1. saved' = saved
    BY <1>3, Zenon DEF Handle, ProcessConnect, ProcessDisconnect, ProcessDropConnection,
                ProcessCloseSession, ProcessSubscription
  <2> QED BY <1>0, <1>2, <1>3, <2>1, ConnectListed, EndStepsListed, SubscriptionListed, Zenon DEF Handle
<1>4. ASSUME NEW cs \in SUBSET Clients, UpdateAuthorization(cs) PROVE ListedInv'
  <2>1. Listed(retained', sessions')
    BY <1>0, <1>4, CloseManyListed, Zenon DEF UpdateAuthorization
  <2> QED BY <1>2, <1>4, <2>1, Zenon DEF UpdateAuthorization
<1>5. CASE StateSnapshot
  <2>1. UNCHANGED <<sessions, retained>> /\ saved' = Snapshot(sessions, retained)
    BY <1>5, Zenon DEF StateSnapshot
  <2>2. Listed(saved'.retained, saved'.sessions)
    BY <1>0, <2>1, SnapshotListed, Zenon
  <2> QED BY <1>0, <2>1, <2>2, Zenon DEF ListedInv, Listed
<1>6. CASE Shutdown
  <2> DEFINE cs == Connected(sessions)
             ss == [c \in Clients |-> IF c \in cs THEN Closed(sessions[c]) ELSE sessions[c]]
             r == IF cs = {} THEN retained ELSE RetainedAfter(ss, cs)
  <2>1. sessions' = ss /\ retained' = r /\ saved' = Snapshot(ss, r)
    BY <1>6, Zenon DEF Shutdown
  <2>2. Listed(r, ss) /\ ss \in [Clients -> Session]
    BY <1>0, CloseManyListed, Zenon
  <2> HIDE DEF ss, r
  <2>3. Listed(saved'.retained, saved'.sessions)
    BY <2>1, <2>2, SnapshotListed, Zenon
  <2> QED BY <2>1, <2>2, <2>3, Zenon DEF ListedInv, Listed
<1>7. CASE Fail
  <2>1. UNCHANGED <<sessions, retained>> /\ saved' \in {saved, Snapshot(sessions, retained)}
    BY <1>7, Zenon DEF Fail
  <2>2. Listed(saved'.retained, saved'.sessions)
    BY <1>0, <2>1, SnapshotListed, Zenon
  <2> QED BY <1>0, <2>1, <2>2, Zenon DEF ListedInv, Listed
<1>8. CASE Start
  BY <1>0, <1>8, Zenon DEF Start, ListedInv, Listed
<1>9. CASE UNCHANGED vars
  BY <1>1, <1>9, Zenon DEF vars
<1>10. ASSUME NEW c \in Clients, NEW clean \in Cleans, Open(c, clean) PROVE ListedInv'
  BY <1>1, <1>10, Zenon DEF Open
<1>11. ASSUME NEW h \in Handles, NEW t, NEW f, Read(h, t, f) PROVE ListedInv'
  BY <1>1, <1>11, Zenon DEF Read
<1>12. ASSUME NEW h \in Handles, NEW t, EndIncoming(h, t) PROVE ListedInv'
  BY <1>1, <1>12, Zenon DEF EndIncoming
<1>13. ASSUME NEW h \in Handles, Write(h) \/ WriteFails(h) \/ Finish(h) PROVE ListedInv'
  BY <1>1, <1>13, Zenon DEF Write, WriteFails, Finish
<1> QED
  BY <1>3, <1>4, <1>5, <1>6, <1>7, <1>8, <1>9, <1>10, <1>11, <1>12, <1>13, Zenon DEF Next

(* The topics $edgehub/{client}/subscriptions miss no subscription, even   *)
(* of a broker that failed and started from an older snapshot: topics and  *)
(* sessions are saved together (snapshot, BrokerBuilder::build).           *)
THEOREM SubscriptionsListedHolds == Spec => []SubscriptionsListed
<1>1. ListedInv => SubscriptionsListed
  BY Zenon DEF ListedInv, Listed, SubscriptionsListed
<1> QED BY <1>1, InitListed, NextListed, InvHolds, PTL DEF Spec

(* What the retained topics tell of connections, sessions and              *)
(* subscriptions is true, as long as the broker stops only by              *)
(* process_shutdown.                                                       *)
THEOREM StateTopicsExactHolds == ~Failures => (Spec => []StateTopicsExact)
<1>1. ASSUME ~Failures PROVE Spec => []StateTopicsExact
  <2>1. Spec => []ConnectedTopicExact
    BY <1>1, ConnectedTopicExactHolds, Zenon
  <2>2. ConnectedTopicExact /\ SubscriptionsListed => StateTopicsExact
    BY Zenon DEF StateTopicsExact
  <2> QED BY <2>1, <2>2, SubscriptionsListedHolds, PTL
<1> QED BY <1>1, Zenon
=============================================================================
