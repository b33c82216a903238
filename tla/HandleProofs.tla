---------------------------- MODULE HandleProofs ----------------------------
(***************************************************************************)
(* Who holds the handle of a connection, for every number of clients and   *)
(* connections: what the broker sends to a session is received, no session *)
(* outlives its connection unnoticed, and no will is published twice.      *)
(***************************************************************************)
EXTENDS BrokerProofs

IsReq(ms, i) == i \in DOMAIN ms /\ ms[i].type = "ConnReq"
IsEnd(ms, i, c) == i \in DOMAIN ms /\ ms[i].type \in Ends /\ ms[i].client = c

(* A handle has one holder, a session or a request of the connection's     *)
(* client.                                                                 *)
OneHolder ==
  /\ \A c, d \in Connected(sessions) : sessions[c].handle = sessions[d].handle => c = d
  /\ \A i, j \in Nat :
       IsReq(messages, i) /\ IsReq(messages, j) /\ messages[i].handle = messages[j].handle
         => i = j
  /\ \A i \in Nat, c \in Connected(sessions) :
       IsReq(messages, i) => messages[i].handle # sessions[c].handle
  /\ \A c \in Connected(sessions) : conns[sessions[c].handle].client = c
  /\ \A i \in Nat : IsReq(messages, i) => conns[messages[i].handle].client = messages[i].client

NotStopped(q) == \A i \in DOMAIN q : q[i] # "Stop"

(* Its connection listens, and the will has not been published.            *)
HeldLive ==
  \A h \in Handles : Held(h) => /\ conns[h].pc \in {"open", "draining", "failed"}
                                /\ NotStopped(outgoing[h])
                                /\ wills[h] = 0

(* A connection not made yet was sent nothing.                             *)
UnusedQuiet ==
  \A h \in Handles : conns[h].pc = "unused" => outgoing[h] = << >> /\ wills[h] = 0

(* While the broker runs, a holder whose connection has stopped reading is *)
(* followed by a message that closes the session.                          *)
EndFollows ==
  running =>
    /\ \A c \in Connected(sessions) :
         conns[sessions[c].handle].pc = "open" \/ \E j \in Nat : IsEnd(messages, j, c)
    /\ \A i \in Nat : IsReq(messages, i) =>
         \/ conns[messages[i].handle].pc = "open"
         \/ \E j \in Nat : j > i /\ IsEnd(messages, j, messages[i].client)

HInv ==
  /\ Typed
  /\ OneHolder
  /\ HeldLive
  /\ UnusedQuiet
  /\ EndFollows
  /\ WillOnce
  /\ ~running => messages = << >>
-----------------------------------------------------------------------------
(* The handles of sessions and of requests are handles of connections.     *)
LEMMA HolderTypes ==
  ASSUME Typed
  PROVE  /\ \A c \in Connected(sessions) : c \in Clients /\ sessions[c].handle \in Handles
         /\ \A i \in Nat : IsReq(messages, i) => /\ messages[i] \in ConnReqs
                                       /\ messages[i].handle \in Handles
                                       /\ messages[i].client \in Clients
<1>1. \A c \in Connected(sessions) : c \in Clients /\ sessions[c].handle \in Handles
  BY OnlineHandle, Zenon DEF Connected
<1>2. ASSUME NEW i \in Nat, IsReq(messages, i)
      PROVE  messages[i] \in ConnReqs
  <2>1. messages[i] \in ConnReqs \cup EndMessages \cup SubMessages
    BY <1>2 DEF Typed, Messages, IsReq
  <2> QED BY <1>2, <2>1, Zenon DEF IsReq, EndMessages, SubMessages, Ends
<1> QED BY <1>1, <1>2, Zenon DEF ConnReqs

(* Held in terms of the holders.                                           *)
LEMMA HeldBy ==
  ASSUME Typed, NEW h
  PROVE  Held(h) <=> \/ \E c \in Connected(sessions) : sessions[c].handle = h
                     \/ \E i \in Nat : IsReq(messages, i) /\ messages[i].handle = h
  BY DEF Held, IsReq, Typed, Messages

(* A message appended to the channel.                                      *)
LEMMA Appended ==
  ASSUME Typed, NEW m, Ask(m)
  PROVE  /\ \A i \in Nat : IsReq(messages, i) => IsReq(messages', i) /\ messages'[i] = messages[i]
         /\ \A i \in Nat : IsReq(messages', i) =>
              \/ IsReq(messages, i) /\ messages'[i] = messages[i]
              \/ i = Len(messages) + 1 /\ messages'[i] = m /\ m.type = "ConnReq"
         /\ \A i \in Nat, c \in Clients : IsEnd(messages, i, c) => IsEnd(messages', i, c)
         /\ m.type \in Ends => IsEnd(messages', Len(messages) + 1, m.client)
         /\ Len(messages) \in Nat
         /\ \A i \in Nat : IsReq(messages, i) => i <= Len(messages)
<1>1. messages \in Seq(ConnReqs \cup EndMessages \cup SubMessages)
  BY Zenon DEF Typed, Messages
<1>2. /\ Len(messages) \in Nat
      /\ DOMAIN messages = 1 .. Len(messages)
      /\ DOMAIN messages' = 1 .. Len(messages) + 1
      /\ \A i \in 1 .. Len(messages) : messages'[i] = messages[i]
      /\ messages'[Len(messages) + 1] = m
  BY <1>1 DEF Ask
<1> QED BY <1>2 DEF IsReq, IsEnd

(* A message taken from the channel.                                       *)
LEMMA Taken ==
  ASSUME Typed, NEW t, Take(t)
  PROVE  /\ messages[1] = Head(messages) /\ 1 \in DOMAIN messages /\ messages[1].type = t
         /\ \A i \in Nat : IsReq(messages', i) =>
              i > 0 /\ IsReq(messages, i + 1) /\ messages'[i] = messages[i + 1]
         /\ \A i \in Nat : IsReq(messages, i) => i > 0
         /\ \A i \in Nat, c \in Clients :
              i > 1 /\ IsEnd(messages, i, c) => IsEnd(messages', i - 1, c)
         /\ \A i \in Nat, c \in Clients : IsEnd(messages, i, c) => i > 0
<1>1. messages \in Seq(ConnReqs \cup EndMessages \cup SubMessages) /\ messages # << >>
  BY Zenon DEF Typed, Messages, Take
<1>2. /\ Len(messages) \in Nat /\ Len(messages) > 0
      /\ DOMAIN messages = 1 .. Len(messages)
      /\ DOMAIN messages' = 1 .. Len(messages) - 1
      /\ \A i \in 1 .. Len(messages) - 1 : messages'[i] = messages[i + 1]
      /\ messages[1] = Head(messages)
  BY <1>1 DEF Take
<1>3. messages[1].type = t
  BY <1>2, Zenon DEF Take
<1> QED BY <1>2, <1>3 DEF IsReq, IsEnd

(* A step that gives no handle to anyone, apart from messages that move up *)
(* in the channel, leaves every handle with at most its holder.            *)
LEMMA Shrink ==
  ASSUME HInv, Typed', NEW k \in {0, 1},
         \A c \in Connected(sessions') :
           c \in Connected(sessions) /\ sessions'[c].handle = sessions[c].handle,
         \A i \in Nat : IsReq(messages', i) =>
           IsReq(messages, i + k) /\ messages'[i] = messages[i + k],
         \A h \in Handles : conns'[h].client = conns[h].client
  PROVE  OneHolder' /\ \A h \in Handles : Held(h)' => Held(h)
<1>1. Typed /\ OneHolder
  BY Zenon DEF HInv
<1>2. /\ \A c \in Connected(sessions) : c \in Clients /\ sessions[c].handle \in Handles
      /\ \A i \in Nat : IsReq(messages, i) => messages[i].handle \in Handles
  BY <1>1, HolderTypes, Zenon
<1>3. \A i \in Nat : i + k \in Nat
  OBVIOUS
<1>4. \A c, d \in Connected(sessions') : sessions'[c].handle = sessions'[d].handle => c = d
  BY <1>1 DEF OneHolder
<1>5. \A i, j \in Nat :
        IsReq(messages', i) /\ IsReq(messages', j) /\ messages'[i].handle = messages'[j].handle
          => i = j
  BY <1>1, <1>3 DEF OneHolder
<1>6. \A i \in Nat, c \in Connected(sessions') :
        IsReq(messages', i) => messages'[i].handle # sessions'[c].handle
  BY <1>1, <1>3 DEF OneHolder
<1>7. \A c \in Connected(sessions') : conns'[sessions'[c].handle].client = c
  BY <1>1, <1>2 DEF OneHolder
<1>8. \A i \in Nat : IsReq(messages', i) =>
        conns'[messages'[i].handle].client = messages'[i].client
  BY <1>1, <1>2, <1>3 DEF OneHolder
<1>9. OneHolder'
  BY <1>4, <1>5, <1>6, <1>7, <1>8, Zenon DEF OneHolder, IsReq, Connected
<1>10. ASSUME NEW h \in Handles, Held(h)' PROVE Held(h)
  <2>1. \/ \E c \in Connected(sessions') : sessions'[c].handle = h
        \/ \E i \in DOMAIN messages' : IsReq(messages', i) /\ messages'[i].handle = h
    BY <1>10, Zenon DEF Held, Connected, IsReq
  <2>2. DOMAIN messages' \subseteq Nat
    BY DEF Typed, Messages
  <2>3. \/ \E c \in Connected(sessions) : sessions[c].handle = h
        \/ \E i \in Nat : IsReq(messages, i) /\ messages[i].handle = h
    BY <1>3, <2>1, <2>2
  <2> QED BY <1>1, <2>3, HeldBy, Zenon
<1> QED BY <1>9, <1>10, Zenon
-----------------------------------------------------------------------------
(* A step of a connection that asks for nothing but, when it ends, to have *)
(* its session closed preserves the invariant.                             *)
LEMMA ConnectionKeeps ==
  ASSUME HInv, Typed', UNCHANGED <<sessions, wills, running>>,
         ~running => messages' = messages,
         \A i \in Nat : IsReq(messages', i) => IsReq(messages, i) /\ messages'[i] = messages[i],
         \A i \in Nat, c \in Clients : IsEnd(messages, i, c) => IsEnd(messages', i, c),
         \A h \in Handles : conns'[h].client = conns[h].client,
         \A h \in Handles : conns'[h].pc = "unused" =>
           conns[h].pc = "unused" /\ outgoing'[h] = outgoing[h],
         \A h \in Handles : Held(h) =>
           conns'[h].pc \in {"open", "draining", "failed"} /\ NotStopped(outgoing'[h]),
         \A h \in Handles : Held(h) =>
           \/ conns[h].pc = "open" => conns'[h].pc = "open"
           \/ \E j \in Nat : j > Len(messages) /\ IsEnd(messages', j, conns[h].client)
  PROVE  HInv'
<1>1. Typed /\ OneHolder /\ HeldLive /\ UnusedQuiet /\ EndFollows /\ WillOnce
  BY Zenon DEF HInv
<1>2. Connected(sessions') = Connected(sessions)
  BY Zenon DEF Connected
<1>3. OneHolder' /\ \A h \in Handles : Held(h)' => Held(h)
  <2>1. \A i \in Nat : IsReq(messages', i) =>
          IsReq(messages, i + 0) /\ messages'[i] = messages[i + 0]
    OBVIOUS
  <2>2. \A c \in Connected(sessions') :
          c \in Connected(sessions) /\ sessions'[c].handle = sessions[c].handle
    BY <1>2, Zenon
  <2> QED BY <2>1, <2>2, Shrink, Zenon
<1>4. HeldLive'
  BY <1>1, <1>3, Zenon DEF HeldLive
<1>5. UnusedQuiet'
  BY <1>1, Zenon DEF UnusedQuiet
<1>6. WillOnce'
  BY <1>1, Zenon DEF WillOnce
<1>7. ASSUME running,
             NEW c \in Connected(sessions), conns'[sessions[c].handle].pc # "open"
      PROVE  \E j \in Nat : IsEnd(messages', j, c)
  <2> DEFINE h == sessions[c].handle
  <2>1. c \in Clients /\ h \in Handles /\ Held(h) /\ conns[h].client = c
    BY <1>1, HolderTypes, HeldBy, Zenon DEF OneHolder
  <2>2. CASE conns[h].pc = "open"
    BY <1>7, <2>1, <2>2
  <2>3. CASE conns[h].pc # "open"
    <3>1. PICK j \in Nat : IsEnd(messages, j, c)
      BY <1>1, <1>7, <2>3, Zenon DEF EndFollows
    <3> QED BY <2>1, <3>1, Zenon
  <2> QED BY <2>2, <2>3, Zenon
<1>8. ASSUME running,
             NEW i \in Nat, IsReq(messages', i), conns'[messages'[i].handle].pc # "open"
      PROVE  \E j \in Nat : j > i /\ IsEnd(messages', j, messages'[i].client)
  <2> DEFINE h == messages[i].handle
             c == messages[i].client
  <2>1. IsReq(messages, i) /\ messages'[i] = messages[i]
    BY <1>8, Zenon
  <2>2. c \in Clients /\ h \in Handles /\ Held(h) /\ conns[h].client = c
    BY <1>1, <2>1, HolderTypes, HeldBy, Zenon DEF OneHolder
  <2>3. i <= Len(messages) /\ Len(messages) \in Nat
    BY <1>1, <2>1 DEF IsReq, Typed, Messages
  <2>4. CASE conns[h].pc = "open"
    <3>1. PICK j \in Nat : j > Len(messages) /\ IsEnd(messages', j, c)
      BY <1>8, <2>1, <2>2, <2>4
    <3> QED BY <2>1, <2>3, <3>1
  <2>5. CASE conns[h].pc # "open"
    <3>1. PICK j \in Nat : j > i /\ IsEnd(messages, j, c)
      BY <1>1, <1>8, <2>1, <2>5, Zenon DEF EndFollows
    <3> QED BY <2>1, <2>2, <3>1, Zenon
  <2> QED BY <2>4, <2>5, Zenon
<1>9. EndFollows'
  BY <1>2, <1>7, <1>8, Zenon DEF EndFollows, Connected, IsReq, IsEnd
<1>10. ~running' => messages' = << >>
  BY Zenon DEF HInv
<1> QED BY <1>3, <1>4, <1>5, <1>6, <1>9, <1>10, Zenon DEF HInv

(* Reading a packet asks the broker for something else.                    *)
LEMMA ReadHandles ==
  ASSUME HInv, Typed', NEW h \in Handles, NEW t \in {"Subscribe", "Unsubscribe"},
         NEW f \in TopicFilters, Read(h, t, f)
  PROVE  HInv'
<1> DEFINE m == [type |-> t, client |-> conns[h].client, filter |-> f]
<1>1. Typed /\ HeldLive /\ running
  BY Zenon DEF HInv, Read
<1>2. Ask(m) /\ m.type # "ConnReq" /\ UNCHANGED <<sessions, wills, running, conns, outgoing>>
  BY Zenon DEF Read
<1> HIDE DEF m
<1>3. /\ \A i \in Nat : IsReq(messages', i) => IsReq(messages, i) /\ messages'[i] = messages[i]
      /\ \A i \in Nat, c \in Clients : IsEnd(messages, i, c) => IsEnd(messages', i, c)
  BY <1>1, <1>2, Appended, Zenon
<1> QED BY <1>1, <1>2, <1>3, ConnectionKeeps, Zenon DEF HeldLive

(* incoming_task ends with a message that closes the session.              *)
LEMMA EndIncomingHandles ==
  ASSUME HInv, Typed', NEW h \in Handles, NEW t \in {"Disconnect", "DropConnection"},
         EndIncoming(h, t)
  PROVE  HInv'
<1> DEFINE m == Message(t, conns[h].client)
<1>1. Typed /\ HeldLive /\ running
  BY Zenon DEF HInv, EndIncoming
<1>2. /\ Ask(m) /\ m.type \in Ends /\ m.type # "ConnReq" /\ m.client = conns[h].client
      /\ UNCHANGED <<sessions, wills, running, outgoing>>
      /\ conns' = [conns EXCEPT ![h].pc = "draining"] /\ conns[h].pc = "open"
  BY Zenon DEF EndIncoming, Message, Ends
<1> HIDE DEF m
<1>3. /\ \A i \in Nat : IsReq(messages', i) => IsReq(messages, i) /\ messages'[i] = messages[i]
      /\ \A i \in Nat, c \in Clients : IsEnd(messages, i, c) => IsEnd(messages', i, c)
      /\ IsEnd(messages', Len(messages) + 1, conns[h].client) /\ Len(messages) \in Nat
  BY <1>1, <1>2, Appended, Zenon
<1>4. \A g \in Handles : /\ conns'[g].client = conns[g].client
                         /\ conns'[g].pc = IF g = h THEN "draining" ELSE conns[g].pc
  BY <1>1, <1>2, Zenon DEF Typed, Connections
<1>5. \A g \in Handles : Held(g) =>
        \/ conns[g].pc = "open" => conns'[g].pc = "open"
        \/ \E j \in Nat : j > Len(messages) /\ IsEnd(messages', j, conns[g].client)
  BY <1>3, <1>4
<1>6. \A g \in Handles : conns'[g].pc = "unused" =>
        conns[g].pc = "unused" /\ outgoing'[g] = outgoing[g]
  BY <1>2, <1>4
<1>7. \A g \in Handles : Held(g) =>
        conns'[g].pc \in {"open", "draining", "failed"} /\ NotStopped(outgoing'[g])
  BY <1>1, <1>2, <1>4, Zenon DEF HeldLive
<1> QED BY <1>1, <1>2, <1>3, <1>4, <1>5, <1>6, <1>7, ConnectionKeeps, Zenon

(* A step of one connection that asks for nothing.                         *)
LEMMA QuietConnection ==
  ASSUME HInv, Typed', NEW h \in Handles, NEW p \in Pcs, conns[h].pc # "unused", p # "unused",
         UNCHANGED <<sessions, wills, running, messages>>,
         conns' = [conns EXCEPT ![h].pc = p],
         \A g \in Handles : g # h => outgoing'[g] = outgoing[g],
         Held(h) => /\ p \in {"open", "draining", "failed"} /\ NotStopped(outgoing'[h])
                    /\ conns[h].pc = "open" => p = "open"
  PROVE  HInv'
<1>1. Typed /\ HeldLive
  BY Zenon DEF HInv
<1>2. \A g \in Handles : /\ conns'[g].client = conns[g].client
                         /\ conns'[g].pc = IF g = h THEN p ELSE conns[g].pc
  BY <1>1, Zenon DEF Typed, Connections
<1>3. \A g \in Handles : Held(g) =>
        \/ conns[g].pc = "open" => conns'[g].pc = "open"
        \/ \E j \in Nat : j > Len(messages) /\ IsEnd(messages', j, conns[g].client)
  BY <1>2, Zenon
<1>4. \A g \in Handles : conns'[g].pc = "unused" =>
        conns[g].pc = "unused" /\ outgoing'[g] = outgoing[g]
  BY <1>2, Zenon
<1>5. \A g \in Handles : Held(g) =>
        conns'[g].pc \in {"open", "draining", "failed"} /\ NotStopped(outgoing'[g])
  BY <1>1, <1>2, Zenon DEF HeldLive
<1> QED BY <1>2, <1>3, <1>4, <1>5, ConnectionKeeps, Zenon

(* outgoing_task stops at "Stop" only, which a handle that is held was not *)
(* sent.                                                                   *)
LEMMA WriteHandles ==
  ASSUME HInv, Typed', NEW h \in Handles, Write(h)
  PROVE  HInv'
<1>1. Typed /\ HeldLive
  BY Zenon DEF HInv
<1>2. /\ conns[h].pc \in {"open", "draining"}
      /\ outgoing[h] # << >> /\ outgoing[h] \in Seq({"ConnAck", "Stop", "Ack"})
      /\ UNCHANGED <<sessions, wills, running, messages>>
  BY <1>1, Zenon DEF Write, Typed, Outgoing
<1>3. Head(outgoing[h]) = outgoing[h][1] /\ 1 \in DOMAIN outgoing[h]
  BY <1>2
<1>4. CASE Head(outgoing[h]) = "Stop"
  <2>1. ~Held(h)
    BY <1>1, <1>3, <1>4, Zenon DEF HeldLive, NotStopped
  <2>2. /\ conns' = [conns EXCEPT ![h].pc = "closed"]
        /\ outgoing' = [outgoing EXCEPT ![h] = << >>]
    BY <1>4, Zenon DEF Write
  <2>3. \A g \in Handles : g # h => outgoing'[g] = outgoing[g]
    BY <1>1, <2>2, Zenon DEF Typed, Outgoing
  <2>4. "closed" \in Pcs
    BY Zenon DEF Pcs
  <2> QED BY <1>2, <2>1, <2>2, <2>3, <2>4, QuietConnection, Zenon
<1>5. CASE Head(outgoing[h]) # "Stop"
  <2>1. outgoing' = [outgoing EXCEPT ![h] = Tail(@)] /\ conns' = conns
    BY <1>5, Zenon DEF Write
  <2>2. (\A g \in Handles : g # h => outgoing'[g] = outgoing[g]) /\ outgoing'[h] = Tail(outgoing[h])
    BY <1>1, <2>1, Zenon DEF Typed, Outgoing
  <2>3. NotStopped(outgoing[h]) => NotStopped(Tail(outgoing[h]))
    BY <1>2 DEF NotStopped
  <2>4. Held(h) => /\ conns[h].pc \in {"open", "draining", "failed"}
                   /\ NotStopped(outgoing'[h])
    BY <1>1, <2>2, <2>3, Zenon DEF HeldLive
  <2>5. conns' = [conns EXCEPT ![h].pc = conns[h].pc] /\ conns[h].pc \in Pcs
    BY <1>1, <2>1, Zenon DEF Typed, Connections
  <2> QED BY <1>2, <2>2, <2>4, <2>5, QuietConnection, Zenon
<1> QED BY <1>4, <1>5, Zenon

(* outgoing_task fails: unless the broker has been told before, it is      *)
(* asked to close the session.                                             *)
LEMMA WriteFailsHandles ==
  ASSUME HInv, Typed', NEW h \in Handles, WriteFails(h)
  PROVE  HInv'
<1> DEFINE m == Message("CloseSession", conns[h].client)
<1>1. Typed /\ HeldLive /\ running
  BY Zenon DEF HInv, WriteFails
<1>2. /\ UNCHANGED <<sessions, wills, running, outgoing>>
      /\ conns' = [conns EXCEPT ![h].pc = "failed"]
  BY Zenon DEF WriteFails
<1>3. \A g \in Handles : /\ conns'[g].client = conns[g].client
                         /\ conns'[g].pc = IF g = h THEN "failed" ELSE conns[g].pc
  BY <1>1, <1>2, Zenon DEF Typed, Connections
<1>4. CASE conns[h].pc = "open"
  <2>1. /\ Ask(m) /\ m.type \in Ends /\ m.type # "ConnReq" /\ m.client = conns[h].client
    BY <1>4, Zenon DEF WriteFails, Message, Ends
  <2> HIDE DEF m
  <2>2. /\ \A i \in Nat : IsReq(messages', i) => IsReq(messages, i) /\ messages'[i] = messages[i]
        /\ \A i \in Nat, c \in Clients : IsEnd(messages, i, c) => IsEnd(messages', i, c)
        /\ IsEnd(messages', Len(messages) + 1, conns[h].client) /\ Len(messages) \in Nat
    BY <1>1, <2>1, Appended, Zenon
  <2>3. \A g \in Handles : Held(g) =>
          \/ conns[g].pc = "open" => conns'[g].pc = "open"
          \/ \E j \in Nat : j > Len(messages) /\ IsEnd(messages', j, conns[g].client)
    BY <1>3, <2>2
  <2>4. \A g \in Handles : conns'[g].pc = "unused" =>
          conns[g].pc = "unused" /\ outgoing'[g] = outgoing[g]
    BY <1>2, <1>3
  <2>5. \A g \in Handles : Held(g) =>
          conns'[g].pc \in {"open", "draining", "failed"} /\ NotStopped(outgoing'[g])
    BY <1>1, <1>2, <1>3, Zenon DEF HeldLive
  <2> QED BY <1>1, <1>2, <1>3, <2>2, <2>3, <2>4, <2>5, ConnectionKeeps, Zenon
<1>5. CASE conns[h].pc # "open"
  <2>1. messages' = messages /\ conns[h].pc = "draining" /\ "failed" \in Pcs
    BY <1>5, Zenon DEF WriteFails, Pcs
  <2>2. Held(h) => NotStopped(outgoing'[h])
    BY <1>1, <1>2, Zenon DEF HeldLive
  <2> QED BY <1>2, <1>5, <2>1, <2>2, QuietConnection, Zenon
<1> QED BY <1>4, <1>5, Zenon

(* A connection ends by itself once nobody holds its handle.               *)
LEMMA FinishHandles ==
  ASSUME HInv, Typed', NEW h \in Handles, Finish(h)
  PROVE  HInv'
<1>1. /\ conns[h].pc # "unused" /\ ~Held(h)
      /\ UNCHANGED <<sessions, wills, running, messages>>
      /\ conns' = [conns EXCEPT ![h].pc = "closed"]
      /\ outgoing' = [outgoing EXCEPT ![h] = << >>]
  BY Zenon DEF Finish
<1>2. \A g \in Handles : g # h => outgoing'[g] = outgoing[g]
  BY <1>1, Zenon DEF HInv, Typed, Outgoing
<1>3. "closed" \in Pcs
  BY Zenon DEF Pcs
<1> QED BY <1>1, <1>2, <1>3, QuietConnection, Zenon

(* A new connection takes a handle that nobody has.                        *)
LEMMA OpenHandles ==
  ASSUME HInv, Typed', NEW c \in Clients, NEW clean \in Cleans, Open(c, clean)
  PROVE  HInv'
<1>1. Typed /\ OneHolder /\ HeldLive /\ UnusedQuiet /\ EndFollows /\ WillOnce
  BY Zenon DEF HInv
<1>2. PICK h \in Handles :
        /\ running /\ conns[h].pc = "unused"
        /\ conns' = [conns EXCEPT ![h] = [pc |-> "open", client |-> c]]
        /\ Ask([type |-> "ConnReq", client |-> c, handle |-> h, clean |-> clean])
        /\ UNCHANGED <<sessions, outgoing, wills, running>>
  BY Zenon DEF Open
<1> DEFINE m == [type |-> "ConnReq", client |-> c, handle |-> h, clean |-> clean]
           n == Len(messages) + 1
<1>3. m.type = "ConnReq" /\ m.client = c /\ m.handle = h
  BY Zenon
<1> HIDE DEF m
<1>4. /\ \A i \in Nat : IsReq(messages, i) => IsReq(messages', i) /\ messages'[i] = messages[i]
      /\ \A i \in Nat : IsReq(messages', i) =>
           \/ IsReq(messages, i) /\ messages'[i] = messages[i]
           \/ i = n /\ messages'[i] = m
      /\ \A i \in Nat, d \in Clients : IsEnd(messages, i, d) => IsEnd(messages', i, d)
  BY <1>1, <1>2, Appended, Zenon DEF m
<1> HIDE DEF n
<1>5. /\ conns'[h].pc = "open" /\ conns'[h].client = c
      /\ \A g \in Handles : g # h => conns'[g] = conns[g]
  BY <1>1, <1>2, Zenon DEF Typed, Connections
<1>6. ~Held(h)
  BY <1>1, <1>2, Zenon DEF HeldLive
<1>7. /\ \A d \in Connected(sessions) : d \in Clients /\ sessions[d].handle \in Handles \ {h}
      /\ \A i \in Nat : IsReq(messages, i) => /\ messages[i].handle \in Handles \ {h}
                                              /\ messages[i].client \in Clients
  BY <1>1, <1>6, HolderTypes, HeldBy, Zenon
<1>8. Connected(sessions') = Connected(sessions) /\ sessions' = sessions
  BY <1>2, Zenon DEF Connected
<1>9. OneHolder'
  <2>1. \A d, e \in Connected(sessions') : sessions'[d].handle = sessions'[e].handle => d = e
    BY <1>1, <1>8, Zenon DEF OneHolder
  <2>2. \A i, j \in Nat :
          IsReq(messages', i) /\ IsReq(messages', j) /\ messages'[i].handle = messages'[j].handle
            => i = j
    BY <1>1, <1>3, <1>4, <1>7 DEF OneHolder
  <2>3. \A i \in Nat, d \in Connected(sessions') :
          IsReq(messages', i) => messages'[i].handle # sessions'[d].handle
    BY <1>1, <1>3, <1>4, <1>7, <1>8 DEF OneHolder
  <2>4. \A d \in Connected(sessions') : conns'[sessions'[d].handle].client = d
    BY <1>1, <1>5, <1>7, <1>8, Zenon DEF OneHolder
  <2>5. \A i \in Nat : IsReq(messages', i) =>
          conns'[messages'[i].handle].client = messages'[i].client
    BY <1>1, <1>3, <1>4, <1>5, <1>7 DEF OneHolder
  <2> QED BY <2>1, <2>2, <2>3, <2>4, <2>5, Zenon DEF OneHolder, IsReq, Connected
<1>10. HeldLive'
  <2>1. ASSUME NEW g \in Handles, Held(g)' PROVE g = h \/ Held(g)
    <3>1. \/ \E d \in Connected(sessions') : sessions'[d].handle = g
          \/ \E i \in DOMAIN messages' : IsReq(messages', i) /\ messages'[i].handle = g
      BY <2>1, Zenon DEF Held, Connected, IsReq
    <3>2. DOMAIN messages' \subseteq Nat
      BY DEF Typed, Messages
    <3> QED BY <1>1, <1>3, <1>4, <1>8, <3>1, <3>2, HeldBy, Zenon
  <2>2. NotStopped(outgoing'[h]) /\ wills'[h] = 0
    BY <1>1, <1>2 DEF UnusedQuiet, NotStopped
  <2> QED BY <1>1, <1>2, <1>5, <2>1, <2>2, Zenon DEF HeldLive
<1>11. UnusedQuiet'
  BY <1>1, <1>2, <1>5, Zenon DEF UnusedQuiet
<1>12. EndFollows'
  <2>1. \A d \in Connected(sessions') :
          conns'[sessions'[d].handle].pc = "open" \/ \E j \in Nat : IsEnd(messages', j, d)
    BY <1>1, <1>2, <1>4, <1>5, <1>7, <1>8 DEF EndFollows
  <2>2. \A i \in Nat : IsReq(messages', i) =>
          \/ conns'[messages'[i].handle].pc = "open"
          \/ \E j \in Nat : j > i /\ IsEnd(messages', j, messages'[i].client)
    BY <1>1, <1>2, <1>3, <1>4, <1>5, <1>7 DEF EndFollows
  <2> QED BY <2>1, <2>2, Zenon DEF EndFollows, Connected, IsReq, IsEnd
<1>13. WillOnce' /\ running'
  BY <1>1, <1>2, Zenon DEF WillOnce
<1> QED BY <1>9, <1>10, <1>11, <1>12, <1>13, Zenon DEF HInv
-----------------------------------------------------------------------------
(* A handler that gives no handle to anyone preserves the invariant, if it *)
(* sends "Stop" and publishes wills only to connections whose handle is no *)
(* longer held, and if the message it took was not the one that still had  *)
(* to close a session.                                                     *)
LEMMA HandlerKeeps ==
  ASSUME HInv, Typed', running, UNCHANGED <<conns, running>>, NEW k \in {0, 1},
         \A c \in Connected(sessions') :
           c \in Connected(sessions) /\ sessions'[c].handle = sessions[c].handle,
         \A i \in Nat : IsReq(messages', i) =>
           IsReq(messages, i + k) /\ messages'[i] = messages[i + k],
         \A i \in Nat, c \in Clients : i > k /\ IsEnd(messages, i, c) => IsEnd(messages', i - k, c),
         \A i \in Nat, c \in Connected(sessions') : IsEnd(messages, i, c) => i > k,
         \A i \in Nat : IsReq(messages', i) => i > 0,
         \A h \in Handles : Held(h)' => NotStopped(outgoing'[h]) /\ wills'[h] = wills[h],
         \A h \in Handles : conns[h].pc = "unused" =>
           outgoing'[h] = outgoing[h] /\ wills'[h] = wills[h],
         \A h \in Handles : wills'[h] \in {wills[h], 1}
  PROVE  HInv'
<1>1. Typed /\ OneHolder /\ HeldLive /\ UnusedQuiet /\ EndFollows /\ WillOnce
  BY Zenon DEF HInv
<1>2. OneHolder' /\ \A h \in Handles : Held(h)' => Held(h)
  BY Shrink, Zenon
<1>3. HeldLive'
  BY <1>1, <1>2, Zenon DEF HeldLive
<1>4. UnusedQuiet'
  BY <1>1, Zenon DEF UnusedQuiet
<1>5. WillOnce'
  <2>1. \A h \in Handles : wills[h] <= 1
    BY <1>1, Zenon DEF WillOnce
  <2> QED BY <2>1 DEF WillOnce
<1>6. ASSUME NEW c \in Connected(sessions'), conns'[sessions'[c].handle].pc # "open"
      PROVE  \E j \in Nat : IsEnd(messages', j, c)
  <2>1. PICK j \in Nat : IsEnd(messages, j, c)
    BY <1>1, <1>6, Zenon DEF EndFollows
  <2>2. c \in Clients /\ j > k
    BY <2>1, Zenon DEF Connected
  <2>3. IsEnd(messages', j - k, c) /\ j - k \in Nat
    BY <2>1, <2>2
  <2> QED BY <2>3, Zenon
<1>7. ASSUME NEW i \in Nat, IsReq(messages', i), conns'[messages'[i].handle].pc # "open"
      PROVE  \E j \in Nat : j > i /\ IsEnd(messages', j, messages'[i].client)
  <2>1. IsReq(messages, i + k) /\ messages'[i] = messages[i + k] /\ i + k \in Nat /\ i > 0
    BY <1>7
  <2>2. PICK j \in Nat : j > i + k /\ IsEnd(messages, j, messages[i + k].client)
    BY <1>1, <1>7, <2>1, Zenon DEF EndFollows
  <2>3. messages[i + k].client \in Clients
    BY <1>1, <2>1, HolderTypes, Zenon
  <2>4. IsEnd(messages', j - k, messages[i + k].client) /\ j - k \in Nat /\ j - k > i
    BY <2>1, <2>2, <2>3
  <2> QED BY <2>1, <2>4, Zenon
<1>8. EndFollows'
  BY <1>6, <1>7, Zenon DEF EndFollows, Connected, IsReq, IsEnd
<1> QED BY <1>2, <1>3, <1>4, <1>5, <1>8, Zenon DEF HInv

(* The handle of a session that is closed is held by nobody.               *)
LEMMA Released ==
  ASSUME HInv, Typed', NEW k \in {0, 1},
         \A c \in Connected(sessions') :
           c \in Connected(sessions) /\ sessions'[c].handle = sessions[c].handle,
         \A i \in Nat : IsReq(messages', i) =>
           IsReq(messages, i + k) /\ messages'[i] = messages[i + k],
         NEW c \in Connected(sessions), c \notin Connected(sessions'),
         NEW h, h = sessions[c].handle
  PROVE  ~Held(h)'
<1>1. OneHolder
  BY Zenon DEF HInv
<1>2. \A d \in Connected(sessions') : sessions'[d].handle # h
  BY <1>1, Zenon DEF OneHolder
<1>3. \A i \in Nat : i + k \in Nat
  OBVIOUS
<1>4. \A i \in Nat : IsReq(messages', i) => messages'[i].handle # h
  BY <1>1, <1>3 DEF OneHolder
<1>5. DOMAIN messages' \subseteq Nat
  BY DEF Typed, Messages
<1> QED BY <1>2, <1>4, <1>5, Zenon DEF Held, Connected, IsReq

(* The messages that end a connection.                                     *)
LEMMA EndHandles ==
  ASSUME HInv, Typed', ProcessDisconnect \/ ProcessDropConnection \/ ProcessCloseSession
  PROVE  HInv'
<1>1. Typed /\ HeldLive /\ WillOnce
  BY Zenon DEF HInv
<1>2. PICK t \in Ends : Take(t)
  BY Zenon DEF ProcessDisconnect, ProcessDropConnection, ProcessCloseSession, Ends
<1>3. PICK c \in Clients : c = Head(messages).client
  BY <1>1, <1>2, TakeType, Zenon
<1>4. running /\ UNCHANGED <<conns, running>>
  BY Zenon DEF ProcessDisconnect, ProcessDropConnection, ProcessCloseSession, Take
<1>5. /\ messages[1].client = c /\ messages[1].type # "ConnReq"
      /\ \A i \in Nat : IsReq(messages', i) =>
           i > 0 /\ IsReq(messages, i + 1) /\ messages'[i] = messages[i + 1]
      /\ \A i \in Nat, d \in Clients : i > 1 /\ IsEnd(messages, i, d) => IsEnd(messages', i - 1, d)
      /\ \A i \in Nat, d \in Clients : IsEnd(messages, i, d) => i > 0
  BY <1>1, <1>2, <1>3, Taken, Zenon DEF Ends
<1>6. ASSUME c \notin Connected(sessions')
      PROVE  \A i \in Nat, d \in Connected(sessions') : IsEnd(messages, i, d) => i > 1
  <2> SUFFICES ASSUME NEW i \in Nat, NEW d \in Connected(sessions'), IsEnd(messages, i, d)
               PROVE  i > 1
    BY Zenon
  <2>1. d \in Clients /\ d # c
    BY <1>6, Zenon DEF Connected
  <2>2. i # 1 /\ i > 0
    BY <1>5, <2>1, Zenon DEF IsEnd
  <2> QED BY <2>2
<1>7. CASE ~Online(sessions[c])
  <2>1. UNCHANGED <<sessions, outgoing, wills>>
    BY <1>3, <1>7, Zenon DEF ProcessDisconnect, ProcessDropConnection, ProcessCloseSession, DropConnection
  <2>2. Connected(sessions') = Connected(sessions) /\ c \notin Connected(sessions')
    BY <1>7, <2>1, Zenon DEF Connected
  <2>3. \A h \in Handles : Held(h)' => Held(h)
    BY <1>5, <2>1, <2>2, Shrink, <1>4, Zenon
  <2>4. \A h \in Handles : Held(h)' => NotStopped(outgoing'[h]) /\ wills'[h] = wills[h]
    BY <1>1, <2>1, <2>3, Zenon DEF HeldLive
  <2> QED BY <1>4, <1>5, <1>6, <2>1, <2>2, <2>4, HandlerKeeps, Zenon
<1>8. CASE Online(sessions[c])
  <2>1. PICK h \in Handles : h = sessions[c].handle
    BY <1>1, <1>3, <1>8, OnlineHandle, Zenon
  <2>2. /\ sessions' = [sessions EXCEPT ![c] = Closed(@)]
        /\ outgoing' = outgoing \/ outgoing' = Send(outgoing, h, << "Stop" >>)
        /\ wills' = wills \/ wills' = [wills EXCEPT ![h] = @ + 1]
    BY <1>3, <1>8, <2>1, Zenon DEF ProcessDisconnect, ProcessDropConnection, ProcessCloseSession,
       DropConnection, CloseSession, PublishWill
  <2>3. ~Online(Closed(sessions[c]))
    BY <1>1, <1>8, ClosedType, Zenon DEF Typed, Online
  <2>4. /\ c \in Connected(sessions) /\ c \notin Connected(sessions')
        /\ \A d \in Connected(sessions') :
             d \in Connected(sessions) /\ sessions'[d].handle = sessions[d].handle
    BY <1>1, <1>8, <2>2, <2>3, Zenon DEF Connected, Typed
  <2>5. Held(h) /\ wills[h] = 0 /\ conns[h].pc # "unused"
    BY <1>1, <2>1, <2>4, HeldBy, Zenon DEF HeldLive
  <2>6. \A g \in Handles : g # h => outgoing'[g] = outgoing[g] /\ wills'[g] = wills[g]
    BY <1>1, <2>2, Zenon DEF Typed, Send, Outgoing
  <2>7. wills'[h] \in {wills[h], 1}
    BY <1>1, <2>2, <2>5 DEF Typed
  <2>8. ~Held(h)'
    BY <1>5, <2>1, <2>4, Released, Zenon
  <2>9. \A g \in Handles : Held(g)' => Held(g)
    BY <1>4, <1>5, <2>4, Shrink, Zenon
  <2>10. \A g \in Handles : Held(g)' => NotStopped(outgoing'[g]) /\ wills'[g] = wills[g]
    BY <1>1, <2>6, <2>8, <2>9, Zenon DEF HeldLive
  <2>11. \A g \in Handles : wills'[g] \in {wills[g], 1}
    BY <2>6, <2>7, Zenon
  <2> QED BY <1>4, <1>5, <1>6, <2>4, <2>5, <2>6, <2>10, <2>11, HandlerKeeps, Zenon
<1> QED BY <1>7, <1>8, Zenon

(* An update closes sessions of several clients.                           *)
LEMMA UpdateHandles ==
  ASSUME HInv, Typed', NEW cs \in SUBSET Clients, UpdateAuthorization(cs)
  PROVE  HInv'
<1> DEFINE dropped == Connected(sessions) \ cs
           hs == {sessions[c].handle : c \in dropped}
<1>1. Typed /\ HeldLive
  BY Zenon DEF HInv
<1>2. /\ running /\ UNCHANGED <<messages, conns, running>>
      /\ sessions' = [c \in Clients |-> IF c \in dropped THEN Closed(sessions[c]) ELSE sessions[c]]
      /\ outgoing' = [h \in Handles |-> IF h \in hs THEN Append(outgoing[h], "Stop")
                                                    ELSE outgoing[h]]
      /\ wills' = [h \in Handles |-> IF h \in hs THEN wills[h] + 1 ELSE wills[h]]
  BY Zenon DEF UpdateAuthorization
<1>3. Connected(sessions') = Connected(sessions) \ dropped
  BY <1>1, <1>2, CloseSome, Zenon
<1>4. /\ \A c \in Connected(sessions') :
           c \in Connected(sessions) /\ sessions'[c].handle = sessions[c].handle
      /\ \A c \in dropped : c \in Connected(sessions) /\ c \notin Connected(sessions')
  BY <1>2, <1>3, Zenon DEF Connected
<1>5. \A i \in Nat : IsReq(messages', i) => /\ i > 0
                                            /\ IsReq(messages, i + 0)
                                            /\ messages'[i] = messages[i + 0]
  <2>1. \A i \in DOMAIN messages : i > 0 /\ i \in Nat
    BY <1>1 DEF Typed, Messages
  <2>2. messages' = messages /\ \A i \in Nat : i + 0 = i
    BY <1>2
  <2> QED BY <2>1, <2>2, Zenon DEF IsReq
<1>6. \A g \in Handles : Held(g)' => Held(g)
  BY <1>2, <1>4, <1>5, Shrink, Zenon
<1>7. \A g \in hs : g \in Handles /\ Held(g) /\ ~Held(g)'
  <2> SUFFICES ASSUME NEW c \in dropped, NEW g, g = sessions[c].handle
               PROVE  g \in Handles /\ Held(g) /\ ~Held(g)'
    BY Zenon
  <2>1. g \in Handles /\ Held(g)
    BY <1>1, HolderTypes, HeldBy, Zenon
  <2>2. ~Held(g)'
    BY <1>4, <1>5, Released, Zenon
  <2> QED BY <2>1, <2>2, Zenon
<1> HIDE DEF hs, dropped
<1>8. \A g \in Handles : Held(g)' => NotStopped(outgoing'[g]) /\ wills'[g] = wills[g]
  BY <1>1, <1>2, <1>6, <1>7, Zenon DEF HeldLive
<1>9. \A g \in Handles : conns[g].pc = "unused" =>
        outgoing'[g] = outgoing[g] /\ wills'[g] = wills[g]
  BY <1>1, <1>2, <1>7, Zenon DEF HeldLive
<1>10. \A g \in Handles : wills'[g] \in {wills[g], 1}
  BY <1>1, <1>2, <1>7 DEF HeldLive
<1>11. /\ \A i \in Nat, c \in Clients :
            i > 0 /\ IsEnd(messages, i, c) => IsEnd(messages', i - 0, c)
       /\ \A i \in Nat, c \in Connected(sessions') : IsEnd(messages, i, c) => i > 0
  BY <1>1, <1>2 DEF IsEnd, Typed, Messages
<1> QED BY <1>2, <1>4, <1>5, <1>8, <1>9, <1>10, <1>11, HandlerKeeps, Zenon

(* An event other than "Stop" sent to a connection that was not stopped.   *)
LEMMA SendKeeps ==
  ASSUME NEW q \in Outgoing, NEW h \in Handles, NEW e \in {"Ack", "ConnAck"}
  PROVE  /\ \A g \in Handles : g # h => Send(q, h, << e >>)[g] = q[g]
         /\ NotStopped(q[h]) => NotStopped(Send(q, h, << e >>)[h])
<1>1. Send(q, h, << e >>)[h] = q[h] \o << e >> /\ q[h] \in Seq({"ConnAck", "Stop", "Ack"})
  BY Zenon DEF Send, Outgoing
<1>2. NotStopped(q[h]) => NotStopped(q[h] \o << e >>)
  BY <1>1 DEF NotStopped
<1> QED BY <1>1, <1>2, Zenon DEF Send, Outgoing

(* A SUBSCRIBE or UNSUBSCRIBE is acknowledged, and nothing else is sent.   *)
LEMMA SubscriptionHandles ==
  ASSUME HInv, Typed', NEW t \in {"Subscribe", "Unsubscribe"}, ProcessSubscription(t)
  PROVE  HInv'
<1>1. Typed /\ HeldLive /\ Take(t)
  BY Zenon DEF HInv, ProcessSubscription
<1>2. PICK c \in Clients : c = Head(messages).client
  BY <1>1, TakeType, Zenon
<1>3. running /\ UNCHANGED <<conns, running, wills>>
  BY Zenon DEF ProcessSubscription, Take
<1>4. /\ messages[1].type \notin Ends
      /\ \A i \in Nat : IsReq(messages', i) =>
           i > 0 /\ IsReq(messages, i + 1) /\ messages'[i] = messages[i + 1]
      /\ \A i \in Nat, d \in Clients : i > 1 /\ IsEnd(messages, i, d) => IsEnd(messages', i - 1, d)
      /\ \A i \in Nat, d \in Clients : IsEnd(messages, i, d) => i > 0
  BY <1>1, Taken, Zenon DEF Ends
<1>5. \A i \in Nat, d \in Clients : IsEnd(messages, i, d) => i > 1
  <2> SUFFICES ASSUME NEW i \in Nat, NEW d \in Clients, IsEnd(messages, i, d) PROVE i > 1
    BY Zenon
  <2>1. i # 1 /\ i > 0
    BY <1>4, Zenon DEF IsEnd
  <2> QED BY <2>1
<1>6. /\ \A d \in Clients : /\ sessions'[d].kind = sessions[d].kind
                            /\ sessions'[d].handle = sessions[d].handle
      /\ \/ outgoing' = outgoing
         \/ Online(sessions[c]) /\ outgoing' = Send(outgoing, sessions[c].handle, << "Ack" >>)
  BY <1>1, <1>2 DEF ProcessSubscription, Typed, Session
<1>7. \A d \in Connected(sessions') :
        /\ d \in Clients /\ d \in Connected(sessions)
        /\ sessions'[d].handle = sessions[d].handle
  BY <1>6, Zenon DEF Connected, Online
<1>8. \A g \in Handles : Held(g)' => Held(g)
  BY <1>3, <1>4, <1>7, Shrink, Zenon
<1>9. /\ \A g \in Handles : Held(g) => NotStopped(outgoing'[g])
      /\ \A g \in Handles : ~Held(g) => outgoing'[g] = outgoing[g]
  <2>1. CASE outgoing' = outgoing
    BY <1>1, <2>1, Zenon DEF HeldLive
  <2>2. CASE Online(sessions[c]) /\ outgoing' = Send(outgoing, sessions[c].handle, << "Ack" >>)
    <3>1. PICK h \in Handles : h = sessions[c].handle
      BY <1>1, <2>2, OnlineHandle, Zenon
    <3>2. Held(h)
      BY <1>1, <2>2, <3>1, HeldBy, Zenon DEF Connected
    <3>3. /\ \A g \in Handles : g # h => outgoing'[g] = outgoing[g]
          /\ NotStopped(outgoing[h]) => NotStopped(outgoing'[h])
      BY <1>1, <2>2, <3>1, SendKeeps DEF Typed
    <3> QED BY <1>1, <3>2, <3>3, Zenon DEF HeldLive
  <2> QED BY <1>6, <2>1, <2>2, Zenon
<1>10. \A g \in Handles : Held(g)' => NotStopped(outgoing'[g]) /\ wills'[g] = wills[g]
  BY <1>3, <1>8, <1>9, Zenon
<1>11. \A g \in Handles : conns[g].pc = "unused" =>
         outgoing'[g] = outgoing[g] /\ wills'[g] = wills[g]
  BY <1>1, <1>3, <1>9, Zenon DEF HeldLive
<1> QED BY <1>3, <1>4, <1>5, <1>7, <1>10, <1>11, HandlerKeeps, Zenon

(* A broker that stops or starts holds no handle of a request, and none of *)
(* a session but those it had.                                             *)
LEMMA StopHandles ==
  ASSUME HInv, Typed', ~running', messages' = << >>, UNCHANGED <<conns, wills>>,
         \A c \in Connected(sessions') :
           c \in Connected(sessions) /\ sessions'[c].handle = sessions[c].handle,
         \A h \in Handles : Held(h)' => outgoing'[h] = outgoing[h],
         \A h \in Handles : conns[h].pc = "unused" => outgoing'[h] = outgoing[h]
  PROVE  HInv'
<1>1. Typed /\ HeldLive /\ UnusedQuiet /\ WillOnce
  BY Zenon DEF HInv
<1>2. \A i \in Nat : IsReq(messages', i) =>
        IsReq(messages, i + 0) /\ messages'[i] = messages[i + 0]
  BY DEF IsReq
<1>3. OneHolder' /\ \A h \in Handles : Held(h)' => Held(h)
  BY <1>2, Shrink, Zenon
<1>4. HeldLive'
  BY <1>1, <1>3, Zenon DEF HeldLive
<1>5. UnusedQuiet' /\ WillOnce' /\ EndFollows'
  BY <1>1, Zenon DEF UnusedQuiet, WillOnce, EndFollows
<1> QED BY <1>3, <1>4, <1>5, Zenon DEF HInv

(* A shutdown closes every session.                                        *)
LEMMA ShutdownHandles ==
  ASSUME HInv, Typed', Shutdown
  PROVE  HInv'
<1> DEFINE online == Connected(sessions)
           hs == {sessions[c].handle : c \in online}
<1>1. Typed /\ HeldLive
  BY Zenon DEF HInv
<1>2. /\ ~running' /\ messages' = << >> /\ UNCHANGED <<conns, wills>>
      /\ sessions' = [c \in Clients |-> IF c \in online THEN Closed(sessions[c]) ELSE sessions[c]]
      /\ outgoing' = [h \in Handles |-> IF h \in hs THEN Append(outgoing[h], "Stop")
                                                    ELSE outgoing[h]]
  BY Zenon DEF Shutdown
<1>3. Connected(sessions') = {}
  <2>1. Connected(sessions') = Connected(sessions) \ online
    BY <1>1, <1>2, CloseSome, Zenon
  <2> QED BY <2>1, Zenon
<1>4. \A h \in Handles : ~Held(h)'
  <2>1. {c \in Clients : Online(sessions'[c])} = {}
    BY <1>3, Zenon DEF Connected
  <2>2. messages' = << >>
    BY <1>2, Zenon
  <2>3. DOMAIN messages' = {}
    BY <2>2
  <2> QED BY <2>1, <2>3, Zenon DEF Held, Connected
<1>5. \A h \in hs : Held(h)
  BY <1>1, HeldBy, Zenon
<1> HIDE DEF hs, online
<1>6. \A h \in Handles : conns[h].pc = "unused" => outgoing'[h] = outgoing[h]
  BY <1>1, <1>2, <1>5, Zenon DEF HeldLive
<1> QED BY <1>2, <1>3, <1>4, <1>6, StopHandles, Zenon

(* A broker that fails leaves its sessions as they are.                    *)
LEMMA FailHandles ==
  ASSUME HInv, Typed', Fail
  PROVE  HInv'
<1>1. ~running' /\ messages' = << >> /\ UNCHANGED <<sessions, conns, outgoing, wills>>
  BY Zenon DEF Fail
<1>2. \A c \in Connected(sessions') :
        c \in Connected(sessions) /\ sessions'[c].handle = sessions[c].handle
  BY <1>1, Zenon DEF Connected
<1> QED BY <1>1, <1>2, StopHandles, Zenon

(* A broker that starts has no session online.                             *)
LEMMA StartHandles ==
  ASSUME HInv, Typed', Start
  PROVE  HInv'
<1>1. Typed /\ UnusedQuiet /\ WillOnce /\ messages = << >>
  BY Zenon DEF HInv, Start
<1>2. /\ messages' = << >> /\ running' /\ UNCHANGED wills
      /\ sessions' = saved.sessions
      /\ outgoing' = [h \in Handles |-> << >>]
      /\ conns' = [h \in Handles |-> IF conns[h].pc = "unused" THEN conns[h]
                                       ELSE [conns[h] EXCEPT !.pc = "closed"]]
  BY <1>1, Zenon DEF Start
<1>3. Connected(sessions') = {}
  BY <1>1, <1>2, Zenon DEF Typed, Connected
<1>4. (\A h \in Handles : ~Held(h)') /\ \A i \in Nat : ~IsReq(messages', i)
  BY <1>2, <1>3 DEF Held, Connected, IsReq
<1>5. OneHolder' /\ EndFollows'
  BY <1>3, <1>4, Zenon DEF OneHolder, EndFollows, Connected, IsReq
<1>6. \A h \in Handles : conns'[h].pc = "unused" => conns[h].pc = "unused"
  BY <1>1, <1>2 DEF Typed, Connections
<1>7. UnusedQuiet' /\ WillOnce' /\ HeldLive'
  BY <1>1, <1>2, <1>4, <1>6, Zenon DEF UnusedQuiet, WillOnce, HeldLive
<1> QED BY <1>2, <1>5, <1>7, Zenon DEF HInv

(* A request is taken from the channel: no other holder has its handle,    *)
(* and every end of a connection stays in the channel.                     *)
LEMMA RequestTaken ==
  ASSUME HInv, Take("ConnReq")
  PROVE  /\ messages[1] = Head(messages) /\ messages[1] \in ConnReqs
         /\ messages[1].handle \in Handles /\ messages[1].client \in Clients
         /\ Held(messages[1].handle)
         /\ conns[messages[1].handle].client = messages[1].client
         /\ \A c \in Connected(sessions) : sessions[c].handle # messages[1].handle
         /\ \A i \in Nat : IsReq(messages', i) =>
              /\ i > 0 /\ IsReq(messages, i + 1) /\ messages'[i] = messages[i + 1]
              /\ messages[i + 1].handle # messages[1].handle
         /\ \A i \in Nat, d \in Clients : IsEnd(messages, i, d) =>
              i > 1 /\ i - 1 \in Nat /\ IsEnd(messages', i - 1, d)
         /\ \/ conns[messages[1].handle].pc = "open"
            \/ \E j \in Nat : IsEnd(messages', j, messages[1].client)
<1>1. Typed /\ OneHolder /\ EndFollows /\ running
  BY Zenon DEF HInv, Take
<1>2. /\ messages[1] = Head(messages) /\ 1 \in DOMAIN messages /\ messages[1].type = "ConnReq"
      /\ \A i \in Nat : IsReq(messages', i) =>
           i > 0 /\ IsReq(messages, i + 1) /\ messages'[i] = messages[i + 1]
      /\ \A i \in Nat, d \in Clients : i > 1 /\ IsEnd(messages, i, d) => IsEnd(messages', i - 1, d)
      /\ \A i \in Nat, d \in Clients : IsEnd(messages, i, d) => i > 0
  BY <1>1, Taken, Zenon
<1>3. IsReq(messages, 1)
  BY <1>2, Zenon DEF IsReq
<1>4. /\ messages[1] \in ConnReqs /\ messages[1].handle \in Handles
      /\ messages[1].client \in Clients
  BY <1>1, <1>3, HolderTypes, Zenon
<1>5. Held(messages[1].handle) /\ conns[messages[1].handle].client = messages[1].client
  BY <1>1, <1>3, HeldBy, Zenon DEF OneHolder
<1>6. \A c \in Connected(sessions) : sessions[c].handle # messages[1].handle
  BY <1>1, <1>3, Zenon DEF OneHolder
<1>7. \A i \in Nat : IsReq(messages', i) => messages[i + 1].handle # messages[1].handle
  <2> SUFFICES ASSUME NEW i \in Nat, IsReq(messages', i)
               PROVE  messages[i + 1].handle # messages[1].handle
    BY Zenon
  <2>1. IsReq(messages, i + 1) /\ i + 1 # 1 /\ i + 1 \in Nat
    BY <1>2
  <2> QED BY <1>1, <1>3, <2>1, Zenon DEF OneHolder
<1>8. \A i \in Nat, d \in Clients : IsEnd(messages, i, d) =>
        i > 1 /\ i - 1 \in Nat /\ IsEnd(messages', i - 1, d)
  <2> SUFFICES ASSUME NEW i \in Nat, NEW d \in Clients, IsEnd(messages, i, d)
               PROVE  i > 1 /\ i - 1 \in Nat /\ IsEnd(messages', i - 1, d)
    BY Zenon
  <2>1. i # 1
    BY <1>2, Zenon DEF IsEnd, Ends
  <2>2. i > 1 /\ i - 1 \in Nat
    BY <1>2, <2>1
  <2> QED BY <1>2, <2>2, Zenon
<1>9. \/ conns[messages[1].handle].pc = "open"
      \/ \E j \in Nat : IsEnd(messages', j, messages[1].client)
  <2>1. ASSUME conns[messages[1].handle].pc # "open"
        PROVE  \E j \in Nat : IsEnd(messages', j, messages[1].client)
    <3>1. PICK j \in Nat : IsEnd(messages, j, messages[1].client)
      BY <1>1, <1>3, <2>1, Zenon DEF EndFollows
    <3> QED BY <1>4, <1>8, <3>1, Zenon
  <2> QED BY <2>1, Zenon
<1> QED BY <1>2, <1>4, <1>5, <1>6, <1>7, <1>8, <1>9, Zenon

(* A client without the permission: its connection is told to stop, and    *)
(* nobody holds its handle any more.                                       *)
LEMMA RefuseHandles ==
  ASSUME HInv, Typed', ProcessConnect, Head(messages).client \notin allowed
  PROVE  HInv'
<1>1. Typed /\ HeldLive /\ Take("ConnReq") /\ running
  BY Zenon DEF HInv, ProcessConnect, Take
<1>2. PICK h \in Handles : h = messages[1].handle
  BY <1>1, RequestTaken, Zenon
<1>3. /\ messages[1] = Head(messages) /\ Held(h)
      /\ \A c \in Connected(sessions) : sessions[c].handle # h
      /\ \A i \in Nat : IsReq(messages', i) =>
           /\ i > 0 /\ IsReq(messages, i + 1) /\ messages'[i] = messages[i + 1]
           /\ messages[i + 1].handle # h
      /\ \A i \in Nat, d \in Clients : IsEnd(messages, i, d) =>
           i > 1 /\ IsEnd(messages', i - 1, d)
  BY <1>1, <1>2, RequestTaken, Zenon
<1>4. /\ outgoing' = Send(outgoing, h, << "ConnAck", "Stop" >>)
      /\ UNCHANGED <<sessions, conns, running, wills>>
  BY <1>2, <1>3, Zenon DEF ProcessConnect
<1>5. \A d \in Connected(sessions') :
        /\ d \in Clients /\ d \in Connected(sessions)
        /\ sessions'[d].handle = sessions[d].handle
  BY <1>4, Zenon DEF Connected
<1>6. ~Held(h)'
  <2>1. DOMAIN messages' \subseteq Nat
    BY DEF Typed, Messages
  <2>2. \A d \in Connected(sessions') : sessions'[d].handle # h
    BY <1>3, <1>5, Zenon
  <2> QED BY <1>3, <2>1, <2>2, Zenon DEF Held, Connected, IsReq
<1>7. \A g \in Handles : Held(g)' => Held(g)
  BY <1>3, <1>4, <1>5, Shrink, Zenon
<1>8. \A g \in Handles : g # h => outgoing'[g] = outgoing[g]
  BY <1>1, <1>4, Zenon DEF Typed, Send, Outgoing
<1>9. \A g \in Handles : Held(g)' => NotStopped(outgoing'[g]) /\ wills'[g] = wills[g]
  BY <1>1, <1>4, <1>6, <1>7, <1>8, Zenon DEF HeldLive
<1>10. \A g \in Handles : conns[g].pc = "unused" =>
         outgoing'[g] = outgoing[g] /\ wills'[g] = wills[g]
  BY <1>1, <1>3, <1>4, <1>8, Zenon DEF HeldLive
<1> QED BY <1>1, <1>3, <1>4, <1>5, <1>9, <1>10, HandlerKeeps, Zenon

(* A client with the permission: the session takes the handle from the     *)
(* request, and the handle of a session that is taken over is held by      *)
(* nobody when its connection is told to stop.                             *)
LEMMA AcceptHandles ==
  ASSUME HInv, Typed', ProcessConnect, Head(messages).client \in allowed
  PROVE  HInv'
<1>1. /\ Typed /\ OneHolder /\ HeldLive /\ UnusedQuiet /\ EndFollows /\ WillOnce
      /\ Take("ConnReq") /\ running
  BY Zenon DEF HInv, ProcessConnect, Take
<1>2. PICK h \in Handles, c \in Clients : h = messages[1].handle /\ c = messages[1].client
  BY <1>1, RequestTaken, Zenon
<1>3. /\ messages[1] = Head(messages) /\ Held(h) /\ conns[h].client = c
      /\ \A d \in Connected(sessions) : sessions[d].handle # h
  BY <1>1, <1>2, RequestTaken, Zenon
<1>req. \A i \in Nat : IsReq(messages', i) =>
          /\ i > 0 /\ i + 1 \in Nat /\ IsReq(messages, i + 1) /\ messages'[i] = messages[i + 1]
          /\ messages[i + 1].handle # h
  BY <1>1, <1>2, RequestTaken
<1>end. /\ \A i \in Nat, d \in Clients : IsEnd(messages, i, d) =>
             i > 1 /\ i - 1 \in Nat /\ IsEnd(messages', i - 1, d)
        /\ conns[h].pc = "open" \/ \E j \in Nat : IsEnd(messages', j, c)
  BY <1>1, <1>2, RequestTaken, Zenon
<1>4. conns' = conns /\ running' = running /\ wills' = wills
  BY Zenon DEF ProcessConnect
<1>out. /\ Online(sessions[c]) =>
             outgoing' = Send(Send(outgoing, sessions[c].handle, << "Stop" >>), h,
                              << "ConnAck" >>)
        /\ ~Online(sessions[c]) => outgoing' = Send(outgoing, h, << "ConnAck" >>)
  BY <1>2, <1>3, Zenon DEF ProcessConnect
<1>5. /\ \A d \in Connected(sessions') : d \in Clients
      /\ \A d \in Connected(sessions') :
           d # c => d \in Connected(sessions) /\ sessions'[d].handle = sessions[d].handle
      /\ sessions'[c].handle = h
  <2>1. PICK s : sessions' = [sessions EXCEPT ![c] = s] /\ s.handle = h
    BY <1>2, <1>3 DEF ProcessConnect
  <2> QED BY <1>1, <2>1, Zenon DEF Connected, Typed
<1>7. /\ \A d \in Connected(sessions) : sessions[d].handle \in Handles
      /\ \A i \in Nat : IsReq(messages, i) => /\ messages[i].handle \in Handles
                                              /\ messages[i].client \in Clients
  BY <1>1, HolderTypes, Zenon
<1>8. OneHolder'
  <2>1. \A d, e \in Connected(sessions') : sessions'[d].handle = sessions'[e].handle => d = e
    <3>1. \A d, e \in Connected(sessions) : sessions[d].handle = sessions[e].handle => d = e
      BY <1>1, Zenon DEF OneHolder
    <3>2. \A d \in Connected(sessions') : d # c => d \in Connected(sessions) /\ sessions'[d].handle # h
      BY <1>3, <1>5, Zenon
    <3> QED BY <1>5, <3>1, <3>2, Zenon
  <2>2. \A i, j \in Nat :
          IsReq(messages', i) /\ IsReq(messages', j) /\ messages'[i].handle = messages'[j].handle
            => i = j
    <3> SUFFICES ASSUME NEW i \in Nat, NEW j \in Nat, IsReq(messages', i), IsReq(messages', j),
                        messages'[i].handle = messages'[j].handle
                 PROVE  i = j
      BY Zenon
    <3>1. /\ IsReq(messages, i + 1) /\ IsReq(messages, j + 1)
          /\ messages[i + 1].handle = messages[j + 1].handle
          /\ i + 1 \in Nat /\ j + 1 \in Nat
      BY <1>req, Zenon
    <3>2. i + 1 = j + 1
      BY <1>1, <3>1, Zenon DEF OneHolder
    <3> QED BY <3>2
  <2>3. \A i \in Nat, d \in Connected(sessions') :
          IsReq(messages', i) => messages'[i].handle # sessions'[d].handle
    <3> SUFFICES ASSUME NEW i \in Nat, NEW d \in Connected(sessions'), IsReq(messages', i)
                 PROVE  messages'[i].handle # sessions'[d].handle
      BY Zenon
    <3>1. /\ IsReq(messages, i + 1) /\ messages'[i] = messages[i + 1] /\ i + 1 \in Nat
          /\ messages[i + 1].handle # h
      BY <1>req, Zenon
    <3>2. CASE d = c
      BY <1>5, <3>1, <3>2, Zenon
    <3>3. CASE d # c
      <4>1. d \in Connected(sessions) /\ sessions'[d].handle = sessions[d].handle
        BY <1>5, <3>3, Zenon
      <4>2. messages[i + 1].handle # sessions[d].handle
        BY <1>1, <3>1, <4>1, Zenon DEF OneHolder
      <4> QED BY <3>1, <4>1, <4>2, Zenon
    <3> QED BY <3>2, <3>3, Zenon
  <2>4. \A d \in Connected(sessions') : conns'[sessions'[d].handle].client = d
    <3>1. conns' = conns
      BY <1>4, Zenon
    <3>2. \A d \in Connected(sessions) : conns[sessions[d].handle].client = d
      BY <1>1, Zenon DEF OneHolder
    <3>3. conns[h].client = c
      BY <1>3, Zenon
    <3> QED BY <1>5, <3>1, <3>2, <3>3, Zenon
  <2>5. \A i \in Nat : IsReq(messages', i) =>
          conns'[messages'[i].handle].client = messages'[i].client
    <3> SUFFICES ASSUME NEW i \in Nat, IsReq(messages', i)
                 PROVE  conns'[messages'[i].handle].client = messages'[i].client
      BY Zenon
    <3>1. IsReq(messages, i + 1) /\ messages'[i] = messages[i + 1] /\ i + 1 \in Nat
      BY <1>req, Zenon
    <3>2. conns' = conns
      BY <1>4, Zenon
    <3> QED BY <1>1, <3>1, <3>2, Zenon DEF OneHolder
  <2> QED BY <2>1, <2>2, <2>3, <2>4, <2>5, Zenon DEF OneHolder, IsReq, Connected
<1>9. ASSUME NEW g \in Handles, Held(g)', g # h
      PROVE  Held(g) /\ (Online(sessions[c]) => g # sessions[c].handle)
  <2>1. \/ \E d \in Connected(sessions') : sessions'[d].handle = g
        \/ \E i \in DOMAIN messages' : IsReq(messages', i) /\ messages'[i].handle = g
    BY <1>9, Zenon DEF Held, Connected, IsReq
  <2>2. DOMAIN messages' \subseteq Nat
    BY DEF Typed, Messages
  <2>3. \/ \E d \in Connected(sessions) : d # c /\ sessions[d].handle = g
        \/ \E i \in Nat : IsReq(messages, i) /\ messages[i].handle = g
    <3>1. ASSUME NEW d \in Connected(sessions'), sessions'[d].handle = g
          PROVE  d \in Connected(sessions) /\ d # c /\ sessions[d].handle = g
      BY <1>5, <1>9, <3>1, Zenon
    <3>2. ASSUME NEW i \in DOMAIN messages', IsReq(messages', i), messages'[i].handle = g
          PROVE  i + 1 \in Nat /\ IsReq(messages, i + 1) /\ messages[i + 1].handle = g
      BY <1>req, <2>2, <3>2, Zenon
    <3> QED BY <2>1, <3>1, <3>2, Zenon
  <2>4. Held(g)
    <3>1. \/ \E d \in Connected(sessions) : sessions[d].handle = g
          \/ \E i \in Nat : IsReq(messages, i) /\ messages[i].handle = g
      BY <2>3, Zenon
    <3> QED BY <1>1, <3>1, HeldBy, Zenon
  <2>5. Online(sessions[c]) => c \in Connected(sessions)
    BY Zenon DEF Connected
  <2> QED BY <1>1, <2>3, <2>4, <2>5, Zenon DEF OneHolder
<1>10. /\ \A g \in Handles : g # h /\ (Online(sessions[c]) => g # sessions[c].handle)
            => outgoing'[g] = outgoing[g]
       /\ NotStopped(outgoing'[h])
  <2>1. NotStopped(outgoing[h]) /\ outgoing \in Outgoing
    BY <1>1, <1>3, Zenon DEF HeldLive, Typed
  <2>2. CASE ~Online(sessions[c])
    BY <1>out, <2>1, <2>2, SendKeeps
  <2>3. CASE Online(sessions[c])
    <3> DEFINE q == Send(outgoing, sessions[c].handle, << "Stop" >>)
    <3>1. sessions[c].handle \in Handles \ {h}
      BY <1>3, <1>7, <2>3, Zenon DEF Connected
    <3>2. q \in Outgoing
      BY <2>1, <3>1, SendType, EventTypes, Zenon
    <3>3. \A g \in Handles : g # sessions[c].handle => q[g] = outgoing[g]
      BY <2>1, <3>1, Zenon DEF Send, Outgoing
    <3>4. outgoing' = Send(q, h, << "ConnAck" >>)
      BY <1>out, <2>3, Zenon
    <3> HIDE DEF q
    <3> QED BY <2>1, <2>3, <3>1, <3>2, <3>3, <3>4, SendKeeps, Zenon
  <2> QED BY <2>2, <2>3, Zenon
<1>11. HeldLive'
  BY <1>1, <1>3, <1>4, <1>9, <1>10, Zenon DEF HeldLive
<1>12. UnusedQuiet'
  <2>1. Online(sessions[c]) => Held(sessions[c].handle) /\ sessions[c].handle \in Handles
    BY <1>1, <1>7, HeldBy, Zenon DEF Connected
  <2>2. \A g \in Handles : conns[g].pc = "unused" => outgoing'[g] = outgoing[g]
    BY <1>1, <1>3, <1>10, <2>1, Zenon DEF HeldLive
  <2> QED BY <1>1, <1>4, <2>2, Zenon DEF UnusedQuiet
<1>13. EndFollows'
  <2>1. ASSUME NEW d \in Connected(sessions'), conns'[sessions'[d].handle].pc # "open"
        PROVE  \E j \in Nat : IsEnd(messages', j, d)
    <3>1. CASE d = c
      BY <1>end, <1>4, <1>5, <2>1, <3>1, Zenon
    <3>2. CASE d # c
      <4>1. PICK j \in Nat : IsEnd(messages, j, d)
        BY <1>1, <1>4, <1>5, <2>1, <3>2, Zenon DEF EndFollows
      <4> QED BY <1>end, <1>5, <4>1, Zenon
    <3> QED BY <3>1, <3>2, Zenon
  <2>2. ASSUME NEW i \in Nat, IsReq(messages', i), conns'[messages'[i].handle].pc # "open"
        PROVE  \E j \in Nat : j > i /\ IsEnd(messages', j, messages'[i].client)
    <3>1. IsReq(messages, i + 1) /\ messages'[i] = messages[i + 1] /\ i + 1 \in Nat
      BY <1>req, <2>2, Zenon
    <3>2. PICK j \in Nat : j > i + 1 /\ IsEnd(messages, j, messages[i + 1].client)
      BY <1>1, <1>4, <2>2, <3>1, Zenon DEF EndFollows
    <3>3. IsEnd(messages', j - 1, messages[i + 1].client) /\ j - 1 \in Nat /\ j - 1 > i
      <4>1. messages[i + 1].client \in Clients
        BY <1>7, <3>1, Zenon
      <4>2. IsEnd(messages', j - 1, messages[i + 1].client)
        BY <1>end, <3>2, <4>1, Zenon
      <4> QED BY <3>2, <4>2
    <3> QED BY <3>1, <3>3, Zenon
  <2> QED BY <2>1, <2>2, Zenon DEF EndFollows, Connected, IsReq, IsEnd
<1>14. WillOnce' /\ running'
  BY <1>1, <1>4, Zenon DEF WillOnce
<1> QED BY <1>8, <1>11, <1>12, <1>13, <1>14, Zenon DEF HInv
-----------------------------------------------------------------------------
(* Nobody holds a handle at first.                                         *)
LEMMA InitHInv == Init => HInv
<1> SUFFICES ASSUME Init PROVE HInv
  BY Zenon
<1>1. Typed
  BY InitInv, Zenon DEF Inv
<1>2. Connected(sessions) = {} /\ messages = << >> /\ running
  BY Zenon DEF Init, Connected, Online, NoSession
<1>3. (\A h \in Handles : ~Held(h)) /\ \A i \in Nat : ~IsReq(messages, i)
  BY <1>2 DEF Held, IsReq
<1>4. \A h \in Handles : wills[h] = 0 /\ outgoing[h] = << >>
  BY Zenon DEF Init
<1>5. OneHolder /\ EndFollows
  BY <1>2, <1>3, Zenon DEF OneHolder, EndFollows
<1>6. HeldLive /\ UnusedQuiet /\ WillOnce
  BY <1>3, <1>4 DEF HeldLive, UnusedQuiet, WillOnce
<1> QED BY <1>1, <1>2, <1>5, <1>6, Zenon DEF HInv

(* Every step of the broker and its connections preserves the invariant.   *)
LEMMA NextHInv == HInv /\ Inv' /\ [Next]_vars => HInv'
<1> SUFFICES ASSUME HInv, Typed', [Next]_vars PROVE HInv'
  BY Zenon DEF Inv
<1>1. CASE UNCHANGED vars \/ StateSnapshot
  <2>1. UNCHANGED <<sessions, messages, conns, outgoing, wills, running>>
    BY <1>1, Zenon DEF vars, StateSnapshot
  <2>2. \A h : Held(h)' <=> Held(h)
    BY <2>1, Zenon DEF Held, Connected
  <2>3. OneHolder' /\ EndFollows'
    BY <2>1, Zenon DEF HInv, OneHolder, EndFollows, Connected
  <2>4. HeldLive' /\ UnusedQuiet' /\ WillOnce'
    BY <2>1, <2>2, Zenon DEF HInv, HeldLive, UnusedQuiet, WillOnce
  <2> QED BY <2>1, <2>3, <2>4, Zenon DEF HInv
<1>2. ASSUME NEW c \in Clients, NEW clean \in Cleans, Open(c, clean) PROVE HInv'
  BY <1>2, OpenHandles, Zenon
<1>3. ASSUME NEW h \in Handles, NEW t \in {"Subscribe", "Unsubscribe"}, NEW f \in TopicFilters,
             Read(h, t, f)
      PROVE  HInv'
  BY <1>3, ReadHandles, Zenon
<1>4. ASSUME NEW h \in Handles, NEW t \in {"Disconnect", "DropConnection"}, EndIncoming(h, t)
      PROVE  HInv'
  BY <1>4, EndIncomingHandles, Zenon
<1>5. ASSUME NEW h \in Handles, Write(h) \/ WriteFails(h) \/ Finish(h) PROVE HInv'
  BY <1>5, WriteHandles, WriteFailsHandles, FinishHandles, Zenon
<1>6. CASE Handle
  BY <1>6, AcceptHandles, RefuseHandles, EndHandles, SubscriptionHandles, Zenon DEF Handle
<1>7. ASSUME NEW cs \in SUBSET Clients, UpdateAuthorization(cs) PROVE HInv'
  BY <1>7, UpdateHandles, Zenon
<1>8. CASE Shutdown \/ Fail \/ Start
  BY <1>8, ShutdownHandles, FailHandles, StartHandles, Zenon
<1> QED BY <1>1, <1>2, <1>3, <1>4, <1>5, <1>6, <1>7, <1>8, Zenon DEF Next

(* The inductive invariant holds throughout.                               *)
THEOREM HInvHolds == Spec => []HInv
  BY InitHInv, NextHInv, InvHolds, PTL DEF Spec

(* What the broker sends to a session's connection is received: a handle   *)
(* that a session or a request holds belongs to a connection that listens  *)
(* and was not told to stop, however takeovers, drops and failures meet.   *)
THEOREM SendsSucceedHolds == Spec => []SendsSucceed
<1>1. HInv => SendsSucceed
  BY Zenon DEF HInv, HeldLive, NotStopped, SendsSucceed
<1> QED BY <1>1, HInvHolds, PTL

(* The will of a connection is published at most once, though Disconnect,  *)
(* DropConnection, CloseSession and reauthorize may all close its session. *)
THEOREM WillOnceHolds == Spec => []WillOnce
<1>1. HInv => WillOnce
  BY Zenon DEF HInv
<1> QED BY <1>1, HInvHolds, PTL

(* No session outlives its connection unnoticed: the connection is open or *)
(* a message that closes the session is in the broker's channel.           *)
THEOREM NoZombieHolds == Spec => []NoZombie
<1>1. HInv => NoZombie
  BY Zenon DEF HInv, EndFollows, IsEnd, NoZombie
<1> QED BY <1>1, HInvHolds, PTL
=============================================================================
