------------------------------- MODULE Broker -------------------------------
(***************************************************************************)
(* The life cycle of sessions and connections in the broker: the two tasks *)
(* of each connection (mqtt-broker/src/connection/mod.rs), the channel     *)
(* through which they ask the broker for everything, and the handlers that *)
(* open, take over, close, save and load sessions                          *)
(* (mqtt-broker/src/broker.rs), with the retained topics that tell which   *)
(* clients are connected, have a session and subscribe to what.  Messages  *)
(* name a client, never a connection.  Every connection has a will.        *)
(***************************************************************************)
EXTENDS Naturals, Sequences, FiniteSets

CONSTANTS
  Clients,
  TopicFilters,    \* what clients subscribe to
  Cleans,          \* the clean session flags of connections, a set of booleans
  MaxConnections,  \* bound: connections made
  MaxRequests,     \* bound: SUBSCRIBE and UNSUBSCRIBE packets read
  MaxUpdates,      \* bound: updates of the authorization policy
  MaxStarts,       \* bound: starts of a stopped broker
  Failures         \* whether the broker may stop without closing its sessions

ASSUME BrokerAssumption ==
  /\ Clients # {}
  /\ Cleans \subseteq BOOLEAN
  /\ {MaxConnections, MaxRequests, MaxUpdates, MaxStarts} \subseteq Nat
  /\ Failures \in BOOLEAN

VARIABLES
  sessions,  \* the broker's sessions by client
  retained,  \* the retained topics that tell of state changes
  messages,  \* the channel to the broker
  conns,     \* connections by handle
  outgoing,  \* the channel to each connection's outgoing_task
  wills,     \* how often the will of each connection was published
  allowed,   \* clients the authorizer lets connect
  saved,     \* the snapshot on disk
  running,   \* whether the broker runs
  requests, updates, starts

vars == <<sessions, retained, messages, conns, outgoing, wills, allowed, saved, running,
          requests, updates, starts>>

Handles == 1 .. MaxConnections

NoSession == [kind |-> "none", handle |-> 0, subs |-> {}]
Online(s) == s.kind \in {"transient", "persistent"}

(* The clients StateChange::new_connection_change and new_session_change list. *)
Connected(ss) == {c \in Clients : Online(ss[c])}
Known(ss) == {c \in Clients : ss[c].kind # "none"}

Message(t, c) == [type |-> t, client |-> c]
Ends == {"Disconnect", "DropConnection", "CloseSession"}

(* A handle keeps its channel open while a session or a ConnReq has it.    *)
Held(h) ==
  \/ \E c \in Connected(sessions) : sessions[c].handle = h
  \/ \E i \in DOMAIN messages : messages[i].type = "ConnReq" /\ messages[i].handle = h
-----------------------------------------------------------------------------
(* A connection (connection/mod.rs).  It is "open" while both tasks run,   *)
(* "draining" when only outgoing_task runs, and "failed" when that stopped *)
(* at an error and its channel is emptied until the broker lets go of it.  *)

Ask(m) == messages' = Append(messages, m)

(* A CONNECT opens the connection.                                         *)
Open(c, clean) ==
  \E h \in Handles :
    /\ running
    /\ conns[h].pc = "unused"
    /\ \A g \in 1 .. h - 1 : conns[g].pc # "unused"
    /\ conns' = [conns EXCEPT ![h] = [pc |-> "open", client |-> c]]
    /\ Ask([type |-> "ConnReq", client |-> c, handle |-> h, clean |-> clean])
    /\ UNCHANGED <<sessions, retained, outgoing, wills, allowed, saved, running, requests,
                   updates, starts>>

Read(h, t, f) ==
  /\ running
  /\ conns[h].pc = "open"
  /\ requests < MaxRequests
  /\ requests' = requests + 1
  /\ Ask([type |-> t, client |-> conns[h].client, filter |-> f])
  /\ UNCHANGED <<sessions, retained, conns, outgoing, wills, allowed, saved, running, updates,
                 starts>>

(* incoming_task ends: with a DISCONNECT, or because the stream ends, an   *)
(* error, a timeout or a second CONNECT stops it.                          *)
EndIncoming(h, t) ==
  /\ running
  /\ conns[h].pc = "open"
  /\ conns' = [conns EXCEPT ![h].pc = "draining"]
  /\ Ask(Message(t, conns[h].client))
  /\ UNCHANGED <<sessions, retained, outgoing, wills, allowed, saved, running, requests,
                 updates, starts>>

(* outgoing_task takes its next event; DropConnection and Disconnect stop  *)
(* it, and with it the connection.                                         *)
Write(h) ==
  /\ conns[h].pc \in {"open", "draining"}
  /\ outgoing[h] # << >>
  /\ IF Head(outgoing[h]) = "Stop"
       THEN /\ conns' = [conns EXCEPT ![h].pc = "closed"]
            /\ outgoing' = [outgoing EXCEPT ![h] = << >>]
       ELSE /\ outgoing' = [outgoing EXCEPT ![h] = Tail(@)]
            /\ UNCHANGED conns
  /\ UNCHANGED <<sessions, retained, messages, wills, allowed, saved, running, requests,
                 updates, starts>>

(* Mutant: the broker is not told.                                         *)
MutWriteFails(h) ==
  /\ running
  /\ conns[h].pc \in {"open", "draining"}
  /\ outgoing[h] # << >> /\ Head(outgoing[h]) # "Stop"
  /\ conns' = [conns EXCEPT ![h].pc = "failed"]
  /\ UNCHANGED <<sessions, retained, messages, outgoing, wills, allowed, saved, running,
                 requests, updates, starts>>

(* It cannot write: unless incoming_task has ended before, the broker is   *)
(* asked to close the session.                                             *)
WriteFails(h) ==
  /\ running
  /\ conns[h].pc \in {"open", "draining"}
  /\ outgoing[h] # << >> /\ Head(outgoing[h]) # "Stop"
  /\ conns' = [conns EXCEPT ![h].pc = "failed"]
  /\ IF conns[h].pc = "open" THEN Ask(Message("CloseSession", conns[h].client))
                             ELSE UNCHANGED messages
  /\ UNCHANGED <<sessions, retained, outgoing, wills, allowed, saved, running, requests,
                 updates, starts>>

(* The channel is closed: outgoing_task, or the loop that empties it, ends. *)
Finish(h) ==
  /\ conns[h].pc \in {"open", "draining", "failed"}
  /\ ~Held(h)
  /\ conns[h].pc = "failed" \/ outgoing[h] = << >>
  /\ conns' = [conns EXCEPT ![h].pc = "closed"]
  /\ outgoing' = [outgoing EXCEPT ![h] = << >>]
  /\ UNCHANGED <<sessions, retained, messages, wills, allowed, saved, running, requests,
                 updates, starts>>
-----------------------------------------------------------------------------
(* The broker (broker.rs).                                                 *)

Take(t) ==
  /\ running
  /\ messages # << >>
  /\ Head(messages).type = t
  /\ messages' = Tail(messages)

Send(q, h, es) == [q EXCEPT ![h] = @ \o es]

(* close_session: a transient session is gone, a persistent one offline.   *)
Closed(s) ==
  IF s.kind = "transient" THEN NoSession ELSE [s EXCEPT !.kind = "offline", !.handle = 0]

(* What closing the online sessions of cs, which leaves ss, publishes:     *)
(* always who is connected, and for transient sessions the other topics.   *)
RetainedAfter(ss, cs) ==
  LET gone == {c \in cs : ss[c].kind = "none"}
  IN  [connected |-> Connected(ss),
       sessions  |-> IF gone = {} THEN retained.sessions ELSE Known(ss),
       subs      |-> [c \in Clients |-> IF c \in gone THEN {} ELSE retained.subs[c]]]

(* Mutant: the topics are left as they are.                                *)
MutCloseSession(c) ==
  /\ sessions' = [sessions EXCEPT ![c] = Closed(@)]
  /\ UNCHANGED retained

(* Mutant: the session stays.                                              *)
MutCloseSessionKept(c) == UNCHANGED <<sessions, retained>>

CloseSession(c) ==
  /\ sessions' = [sessions EXCEPT ![c] = Closed(@)]
  /\ retained' = RetainedAfter(sessions', {c})

PublishWill(h) == wills' = [wills EXCEPT ![h] = @ + 1]

(* drop_connection.                                                        *)
DropConnection(c) ==
  IF Online(sessions[c])
    THEN /\ CloseSession(c)
         /\ outgoing' = Send(outgoing, sessions[c].handle, << "Stop" >>)
         /\ PublishWill(sessions[c].handle)
    ELSE UNCHANGED <<sessions, retained, outgoing, wills>>

(* process_connect, which refuses a client without permission and lets     *)
(* open_session find the session of the others.                            *)
ProcessConnect ==
  /\ Take("ConnReq")
  /\ LET m == Head(messages)
         c == m.client
         s == sessions[c]
         new == [kind |-> IF m.clean THEN "transient" ELSE "persistent",
                 handle |-> m.handle,
                 subs |-> IF m.clean THEN {} ELSE s.subs]
         ss == [sessions EXCEPT ![c] = new]
     IN  IF c \notin allowed
           THEN /\ outgoing' = Send(outgoing, m.handle, << "ConnAck", "Stop" >>)
                /\ UNCHANGED <<sessions, retained>>
           ELSE /\ sessions' = ss
                /\ IF Online(s)
                     THEN /\ outgoing' = Send(Send(outgoing, s.handle, << "Stop" >>),
                                              m.handle, << "ConnAck" >>)
                          /\ UNCHANGED retained
                     ELSE /\ outgoing' = Send(outgoing, m.handle, << "ConnAck" >>)
                          /\ retained' =
                               [connected |-> Connected(ss),
                                sessions |-> IF s.kind = "none" THEN Known(ss)
                                                                ELSE retained.sessions,
                                subs |-> [retained.subs EXCEPT ![c] = new.subs]]
  /\ UNCHANGED <<conns, wills, allowed, saved, running, requests, updates, starts>>

ProcessDisconnect ==
  /\ Take("Disconnect")
  /\ LET c == Head(messages).client
     IN  IF Online(sessions[c])
           THEN /\ CloseSession(c)
                /\ outgoing' = Send(outgoing, sessions[c].handle, << "Stop" >>)
           ELSE UNCHANGED <<sessions, retained, outgoing>>
  /\ UNCHANGED <<conns, wills, allowed, saved, running, requests, updates, starts>>

ProcessDropConnection ==
  /\ Take("DropConnection")
  /\ DropConnection(Head(messages).client)
  /\ UNCHANGED <<conns, allowed, saved, running, requests, updates, starts>>

ProcessCloseSession ==
  /\ Take("CloseSession")
  /\ LET c == Head(messages).client
     IN  IF Online(sessions[c])
           THEN CloseSession(c) /\ PublishWill(sessions[c].handle)
           ELSE UNCHANGED <<sessions, retained, wills>>
  /\ UNCHANGED <<conns, outgoing, allowed, saved, running, requests, updates, starts>>

(* process_subscribe and process_unsubscribe; an offline session refuses.  *)
ProcessSubscription(t) ==
  /\ Take(t)
  /\ LET m == Head(messages)
         s == sessions[m.client]
         subs == IF t = "Subscribe" THEN s.subs \cup {m.filter} ELSE s.subs \ {m.filter}
     IN  IF Online(s)
           THEN /\ sessions' = [sessions EXCEPT ![m.client].subs = subs]
                /\ retained' = [retained EXCEPT !.subs[m.client] = subs]
                /\ outgoing' = Send(outgoing, s.handle, << "Ack" >>)
           ELSE UNCHANGED <<sessions, retained, outgoing>>
  /\ UNCHANGED <<conns, wills, allowed, saved, running, requests, updates, starts>>

(* Mutant: nobody is dropped.                                              *)
MutUpdateAuthorization(cs) ==
  /\ running
  /\ updates < MaxUpdates
  /\ updates' = updates + 1
  /\ allowed' = cs
  /\ UNCHANGED <<sessions, retained, messages, conns, outgoing, wills, saved, running, requests,
                 starts>>

(* AuthorizationUpdate, and reauthorize: the connections of clients that   *)
(* lost the permission are dropped one after the other.  Subscriptions are *)
(* always allowed, so that none is taken from a session.                   *)
UpdateAuthorization(cs) ==
  LET dropped == Connected(sessions) \ cs
      ss == [c \in Clients |-> IF c \in dropped THEN Closed(sessions[c]) ELSE sessions[c]]
      hs == {sessions[c].handle : c \in dropped}
  IN  /\ running
      /\ updates < MaxUpdates
      /\ updates' = updates + 1
      /\ allowed' = cs
      /\ sessions' = ss
      /\ retained' = IF dropped = {} THEN retained ELSE RetainedAfter(ss, dropped)
      /\ outgoing' = [h \in Handles |-> IF h \in hs THEN Append(outgoing[h], "Stop")
                                                    ELSE outgoing[h]]
      /\ wills' = [h \in Handles |-> IF h \in hs THEN wills[h] + 1 ELSE wills[h]]
      /\ UNCHANGED <<messages, conns, saved, running, requests, starts>>

(* snapshot: transient sessions are left out.                              *)
Snapshot(ss, r) ==
  [retained |-> r,
   sessions |-> [c \in Clients |-> IF ss[c].kind \in {"persistent", "offline"}
                                     THEN Closed(ss[c]) ELSE NoSession]]

(* The snapshots saved now and then; one is read back only after a failure. *)
StateSnapshot ==
  /\ Failures
  /\ running
  /\ saved' = Snapshot(sessions, retained)
  /\ UNCHANGED <<sessions, retained, messages, conns, outgoing, wills, allowed, running,
                 requests, updates, starts>>

(* process_shutdown closes every session, without wills.                   *)
Shutdown ==
  LET online == Connected(sessions)
      ss == [c \in Clients |-> IF c \in online THEN Closed(sessions[c]) ELSE sessions[c]]
      r == IF online = {} THEN retained ELSE RetainedAfter(ss, online)
      hs == {sessions[c].handle : c \in online}
  IN  /\ running
      /\ starts < MaxStarts
      /\ running' = FALSE
      /\ sessions' = ss
      /\ retained' = r
      /\ saved' = Snapshot(ss, r)
      /\ messages' = << >>
      /\ outgoing' = [h \in Handles |-> IF h \in hs THEN Append(outgoing[h], "Stop")
                                                    ELSE outgoing[h]]
      /\ UNCHANGED <<conns, wills, allowed, requests, updates, starts>>

(* The broker stops where it is: its process dies, or it leaves its loop   *)
(* at an error of the authorizer and its state is saved as it is.          *)
Fail ==
  /\ Failures
  /\ running
  /\ starts < MaxStarts
  /\ running' = FALSE
  /\ messages' = << >>
  /\ saved' \in {saved, Snapshot(sessions, retained)}
  /\ UNCHANGED <<sessions, retained, conns, outgoing, wills, allowed, requests, updates, starts>>

(* BrokerBuilder::build from the snapshot, in a new process.               *)
Start ==
  /\ ~running
  /\ running' = TRUE
  /\ starts' = starts + 1
  /\ sessions' = saved.sessions
  /\ retained' = saved.retained
  /\ conns' = [h \in Handles |-> IF conns[h].pc = "unused" THEN conns[h]
                                                           ELSE [conns[h] EXCEPT !.pc = "closed"]]
  /\ outgoing' = [h \in Handles |-> << >>]
  /\ UNCHANGED <<messages, wills, allowed, saved, requests, updates>>

Init ==
  /\ sessions = [c \in Clients |-> NoSession]
  /\ retained = [connected |-> {}, sessions |-> {}, subs |-> [c \in Clients |-> {}]]
  /\ messages = << >>
  /\ conns = [h \in Handles |-> [pc |-> "unused", client |-> CHOOSE c \in Clients : TRUE]]
  /\ outgoing = [h \in Handles |-> << >>]
  /\ wills = [h \in Handles |-> 0]
  /\ allowed = Clients
  /\ saved = [retained |-> retained, sessions |-> sessions]
  /\ running = TRUE
  /\ requests = 0 /\ updates = 0 /\ starts = 0

Handle ==
  \/ ProcessConnect \/ ProcessDisconnect \/ ProcessDropConnection \/ ProcessCloseSession
  \/ \E t \in {"Subscribe", "Unsubscribe"} : ProcessSubscription(t)

Next ==
  \/ \E c \in Clients, clean \in Cleans : Open(c, clean)
  \/ \E h \in Handles, t \in {"Subscribe", "Unsubscribe"}, f \in TopicFilters : Read(h, t, f)
  \/ \E h \in Handles, t \in {"Disconnect", "DropConnection"} : EndIncoming(h, t)
  \/ \E h \in Handles : Write(h) \/ WriteFails(h) \/ Finish(h)
  \/ Handle
  \/ \E cs \in SUBSET Clients : UpdateAuthorization(cs)
  \/ StateSnapshot \/ Shutdown \/ Fail \/ Start

Spec == Init /\ [][Next]_vars

(* The broker takes its messages, and connections write what they are      *)
(* sent; nothing obliges a client to do anything.                          *)
FairSpec ==
  /\ Spec
  /\ WF_vars(Handle)
  /\ \A h \in Handles : WF_vars(Write(h)) /\ WF_vars(Finish(h))
-----------------------------------------------------------------------------
(* The broker's state has its type; a session has a handle, which          *)
(* ConnectedSession does and OfflineSession does not, while it is online.  *)
TypeOK ==
  /\ sessions \in [Clients -> [kind : {"none", "transient", "persistent", "offline"},
                               handle : 0 .. MaxConnections, subs : SUBSET TopicFilters]]
  /\ retained \in [connected : SUBSET Clients, sessions : SUBSET Clients,
                   subs : [Clients -> SUBSET TopicFilters]]
  /\ conns \in [Handles -> [pc : {"unused", "open", "draining", "failed", "closed"},
                            client : Clients]]
  /\ wills \in [Handles -> Nat]
  /\ allowed \subseteq Clients
  /\ \A c \in Clients : Online(sessions[c]) <=> sessions[c].handle # 0

(* No session is left with a connection that is gone: the tasks of its     *)
(* connection run, or a message that closes the client's session is on its *)
(* way, whatever messages of the client's other connections came between.  *)
NoZombie ==
  running =>
    \A c \in Connected(sessions) :
      \/ conns[sessions[c].handle].pc = "open"
      \/ \E i \in DOMAIN messages : messages[i].client = c /\ messages[i].type \in Ends

(* What the broker sends to a session's connection is received: the        *)
(* channel of a handle that a session or a request holds is open, and the  *)
(* connection has not been told to stop.  An error of send would leave the *)
(* rest of a handler undone, such as the CONNACK of a takeover.            *)
SendsSucceed ==
  running =>
    \A h \in Handles :
      Held(h) => conns[h].pc # "closed" /\ \A i \in DOMAIN outgoing[h] : outgoing[h][i] # "Stop"

(* The retained topic $edgehub/connected lists the clients that are        *)
(* connected, and $edgehub/sessions those that have a session, whenever    *)
(* the broker is between two messages.                                     *)
ConnectedTopicExact ==
  running => retained.connected = Connected(sessions) /\ retained.sessions = Known(sessions)

(* The retained topic $edgehub/{client}/subscriptions misses none of the    *)
(* subscriptions of the client's session.  It may list more: a takeover by *)
(* a clean session leaves it as it is.                                     *)
SubscriptionsListed == running => \A c \in Clients : sessions[c].subs \subseteq retained.subs[c]

(* ConnectedTopicExact and SubscriptionsListed: what the retained topics   *)
(* tell EdgeHub of connections, sessions and subscriptions.                *)
StateTopicsExact == ConnectedTopicExact /\ SubscriptionsListed

(* The will of a connection is published at most once, though its session  *)
(* may be dropped by several messages, an update and a shutdown.           *)
WillOnce == \A h \in Handles : wills[h] <= 1

(* A client that may not connect is not connected once the broker has      *)
(* handled the update, whatever it had asked for before.                   *)
OnlyAllowedConnected == running => Connected(sessions) \subseteq allowed

(* A connection whose client is gone ends: neither the wait for            *)
(* outgoing_task nor the loop that empties its channel lasts forever, so a *)
(* time comes when no connection is in either.                             *)
ConnectionsEnd == []<>(\A h \in Handles : conns[h].pc \notin {"draining", "failed"})
=============================================================================
