------------------------------ MODULE Session ------------------------------
(***************************************************************************)
(* The broker's state for one client: SessionState and the life cycle that *)
(* the broker takes it through (mqtt-broker/src/session).  A client that   *)
(* may acknowledge anything at any time drives it; SessionDelivery puts a  *)
(* client that follows the protocol, and its connections, in its place.    *)
(*                                                                         *)
(* The broker handles one message at a time.  Where a handler loops over   *)
(* the state (OfflineSession::into_online, SessionState::from_snapshot),   *)
(* each turn of the loop is a step and `status' holds the place in it; no  *)
(* other handler is enabled until the loop is over.                        *)
(***************************************************************************)
EXTENDS BoundedQueue, FiniteSets, FiniteSetsExt

CONSTANTS
  MaxId,         \* the largest packet identifier (u16::max_value() in the code)
  MaxInflight,   \* SessionConfig::max_inflight_messages, 0 for None
  Topics,        \* topics publications are made to
  Grants,        \* the pairs <<filter, qos>> the client may subscribe to
  Matches,       \* the pairs <<filter, topic>> for which TopicFilter::matches
  Publications,  \* what other clients may publish
  Inbound,       \* what this client may publish
  InboundIds,    \* packet identifiers it uses for that
  MaxPublished,  \* bound: publications sent to the session
  MaxInserted    \* bound: insertions into one of its indexes by the client

QoS == 0 .. 2
Id == 1 .. MaxId
Filters == {g[1] : g \in Grants}
Publication == [topic : Topics, qos : QoS, len : Nat]

ASSUME SessionAssumption ==
  /\ MaxId \in Nat \ {0}
  /\ MaxInflight \in Nat
  /\ MaxPublished \in Nat
  /\ MaxInserted \in Nat
  /\ \A g \in Grants : g[2] \in QoS
  /\ InboundIds \subseteq Id
  /\ Publications \subseteq Publication
  /\ Inbound \subseteq Publication

VARIABLES
  state,      \* SessionState
  status,     \* "online", "offline", or the place in a loop over the state
  cursor,     \* insertion order of the last entry a redelivery loop has passed
  pending,    \* queued publications of a snapshot still to be put back
  events,     \* ClientEvents the last step sends to the client, or collects
  forwarded,  \* publications the last step hands to Broker::publish_all
  published   \* number of publications sent to the session so far

vars == <<state, status, cursor, pending, events, forwarded, published>>
-----------------------------------------------------------------------------
(* Packet identifiers (identifiers.rs).  Addition wraps past zero.         *)

NextId(id) == IF id = MaxId THEN 1 ELSE id + 1

DefaultIds == [in_use |-> {}, previous |-> MaxId]

(* Mutant: identifiers in use are handed out again.                        *)
MutCanReserve(ids) == TRUE

(* Only the identifier after the previous one is tried.                    *)
CanReserve(ids) == NextId(ids.previous) \notin ids.in_use

Reserve(ids) ==
  [in_use |-> ids.in_use \cup {NextId(ids.previous)},
   previous |-> NextId(ids.previous)]

Discard(ids, id) == [ids EXCEPT !.in_use = @ \ {id}]
-----------------------------------------------------------------------------
(* SmallIndexMap and SmallIndexSet (map.rs, set.rs): every entry carries   *)
(* the number of its insertion, by which the iterators sort.               *)

EmptyIndex == [last_inserted |-> 0, items |-> [k \in {} |-> k]]

Keys(m) == DOMAIN m.items

Insert(m, k, v) ==
  LET n == m.last_inserted + 1
  IN  [last_inserted |-> n,
       items |-> [x \in Keys(m) \cup {k} |->
                    IF x = k THEN [order |-> n, value |-> v] ELSE m.items[x]]]

Remove(m, k) == [m EXCEPT !.items = [x \in Keys(m) \ {k} |-> m.items[x]]]

(* Mutant: the iterator does not sort.                                     *)
MutIsNextKey(m, n, k) == k \in Keys(m) /\ m.items[k].order > n

(* The iterator's next key after the entry inserted as number n.           *)
IsNextKey(m, n, k) ==
  /\ k \in Keys(m)
  /\ m.items[k].order > n
  /\ \A x \in Keys(m) : m.items[x].order > n => m.items[k].order <= m.items[x].order

(* The iterator has no key after it.                                       *)
AtEnd(m, n) == \A k \in Keys(m) : m.items[k].order <= n
-----------------------------------------------------------------------------
(* SessionState (state/mod.rs).                                            *)

NewState ==
  [subscriptions            |-> [f \in {} |-> f],
   packet_identifiers       |-> DefaultIds,
   packet_identifiers_qos0  |-> DefaultIds,
   waiting_to_be_sent       |-> EmptyQueue,
   waiting_to_be_released   |-> EmptyIndex,
   waiting_to_be_acked      |-> EmptyIndex,
   waiting_to_be_acked_qos0 |-> EmptyIndex,
   waiting_to_be_completed  |-> EmptyIndex]

AllowedToSend(s) ==
  MaxInflight > 0 =>
    Cardinality(Keys(s.waiting_to_be_acked))
      + Cardinality(Keys(s.waiting_to_be_acked_qos0))
      + Cardinality(Keys(s.waiting_to_be_completed)) < MaxInflight

Matching(s, p) == {f \in DOMAIN s.subscriptions : <<f, p.topic>> \in Matches}

(* The largest quality of service any matching subscription grants.        *)
Filter(s, p) ==
  [p EXCEPT !.qos =
     Max({Min({s.subscriptions[f], p.qos}) : f \in Matching(s, p)})]

IdsFor(s, p) ==
  IF p.qos = 0 THEN s.packet_identifiers_qos0 ELSE s.packet_identifiers

CanPrepare(s, p) == CanReserve(IdsFor(s, p))

PublishTo(s, p) ==
  [type |-> "PublishTo", id |-> NextId(IdsFor(s, p).previous), pub |-> p, dup |-> FALSE]

PrepareToSend(s, p) ==
  LET id == NextId(IdsFor(s, p).previous)
  IN  IF p.qos = 0
        THEN [s EXCEPT !.packet_identifiers_qos0 = Reserve(@),
                       !.waiting_to_be_acked_qos0 = Insert(@, id, p)]
        ELSE [s EXCEPT !.packet_identifiers = Reserve(@),
                       !.waiting_to_be_acked = Insert(@, id, p)]
-----------------------------------------------------------------------------
Busy == status \notin {"online", "offline"}

Idle(st) ==
  /\ status = st
  /\ UNCHANGED <<status, cursor, pending>>

Quiet == events' = << >> /\ forwarded' = << >>

(* prepare_to_send: the event is sent only when an identifier was free;    *)
(* otherwise the caller returns the error and the publication is gone.     *)
Send(s, p) ==
  /\ state' = IF CanPrepare(s, p) THEN PrepareToSend(s, p) ELSE s
  /\ events' = IF CanPrepare(s, p) THEN << PublishTo(s, p) >> ELSE << >>

(* Mutant: nothing is taken from the queue.                                *)
MutTryPublish(s) == state' = s /\ events' = << >>

(* SessionState::try_publish on s, the state after the acknowledgement.    *)
TryPublish(s) ==
  IF AllowedToSend(s) /\ s.waiting_to_be_sent.inner # << >>
    THEN Send([s EXCEPT !.waiting_to_be_sent = Dequeue(@)],
              Head(s.waiting_to_be_sent.inner))
    ELSE state' = s /\ events' = << >>

(* ConnectedSession::publish_to: a publication from Broker::publish_all.   *)
PublishOnline(p) ==
  /\ Idle("online")
  /\ Matching(state, p) # {}
  /\ LET q == Filter(state, p)
     IN  IF AllowedToSend(state)
           THEN Send(state, q)
           ELSE /\ state' = [state EXCEPT !.waiting_to_be_sent = Enqueue(@, q)]
                /\ events' = << >>
  /\ forwarded' = << >>

(* OfflineSession::publish_to, through queue_publish.                      *)
PublishOffline(p) ==
  /\ Idle("offline")
  /\ Matching(state, p) # {}
  /\ state' = [state EXCEPT !.waiting_to_be_sent = Enqueue(@, Filter(state, p))]
  /\ Quiet

Publish(p) ==
  /\ published < MaxPublished
  /\ published' = published + 1
  /\ PublishOnline(p) \/ PublishOffline(p)

HandlePubAck0(id) ==
  /\ Idle("online")
  /\ TryPublish([state EXCEPT !.waiting_to_be_acked_qos0 = Remove(@, id),
                              !.packet_identifiers_qos0 = Discard(@, id)])
  /\ forwarded' = << >>
  /\ UNCHANGED published

HandlePubAck(id) ==
  /\ Idle("online")
  /\ TryPublish([state EXCEPT !.waiting_to_be_acked = Remove(@, id),
                              !.packet_identifiers = Discard(@, id)])
  /\ forwarded' = << >>
  /\ UNCHANGED published

(* A PUBREC moves the identifier to the second half of the handshake, even *)
(* one that the broker never sent.                                         *)
HandlePubRec(id) ==
  /\ Idle("online")
  /\ state.waiting_to_be_completed.last_inserted < MaxInserted
  /\ state' = [state EXCEPT !.waiting_to_be_acked = Remove(@, id),
                            !.waiting_to_be_completed = Insert(@, id, id)]
  /\ events' = << [type |-> "PubRel", id |-> id] >>
  /\ forwarded' = << >>
  /\ UNCHANGED published

HandlePubComp(id) ==
  /\ Idle("online")
  /\ TryPublish([state EXCEPT !.waiting_to_be_completed = Remove(@, id),
                              !.packet_identifiers = Discard(@, id)])
  /\ forwarded' = << >>
  /\ UNCHANGED published

(* A PUBLISH of the client: QoS 0 and 1 are forwarded at once, QoS 2 waits *)
(* for its PUBREL.                                                         *)
HandlePublish(id, p) ==
  /\ Idle("online")
  /\ state.waiting_to_be_released.last_inserted < MaxInserted
  /\ state' = IF p.qos = 2
                THEN [state EXCEPT !.waiting_to_be_released = Insert(@, id, p)]
                ELSE state
  /\ events' = CASE p.qos = 0 -> << >>
                 [] p.qos = 1 -> << [type |-> "PubAck", id |-> id] >>
                 [] p.qos = 2 -> << [type |-> "PubRec", id |-> id] >>
  /\ forwarded' = IF p.qos = 2 THEN << >> ELSE << p >>
  /\ UNCHANGED published

HandlePubRel(id) ==
  LET m == state.waiting_to_be_released
  IN  /\ Idle("online")
      /\ state' = [state EXCEPT !.waiting_to_be_released = Remove(m, id)]
      /\ events' = << [type |-> "PubComp", id |-> id] >>
      /\ forwarded' = IF id \in Keys(m) THEN << m.items[id].value >> ELSE << >>
      /\ UNCHANGED published

SubscribeTo(f, qos) ==
  /\ Idle("online")
  /\ state' = [state EXCEPT !.subscriptions =
                 [x \in DOMAIN @ \cup {f} |-> IF x = f THEN qos ELSE @[x]]]
  /\ Quiet
  /\ UNCHANGED published

Unsubscribe(f) ==
  /\ Idle("online")
  /\ state' = [state EXCEPT !.subscriptions = [x \in DOMAIN @ \ {f} |-> @[x]]]
  /\ Quiet
  /\ UNCHANGED published
-----------------------------------------------------------------------------
(* Life cycle.  The broker closes a persistent session by keeping its      *)
(* state as it is, offline.                                                *)

CloseSession ==
  /\ status = "online"
  /\ status' = "offline"
  /\ Quiet
  /\ UNCHANGED <<state, cursor, pending, published>>

(* A CONNECT with a clean session, over whatever session there was.        *)
CleanSession ==
  /\ ~Busy
  /\ status' = "online"
  /\ state' = NewState
  /\ Quiet
  /\ UNCHANGED <<cursor, pending, published>>

(* Mutant: all outstanding publications are forgotten.                     *)
MutIntoOnline ==
  /\ status = "offline"
  /\ status' = "resend"
  /\ cursor' = 0
  /\ state' = [state EXCEPT !.waiting_to_be_acked_qos0 = EmptyIndex,
                            !.waiting_to_be_acked = EmptyIndex]
  /\ Quiet
  /\ UNCHANGED <<pending, published>>

(* OfflineSession::into_online.  Outstanding QoS 0 packets are forgotten;  *)
(* their identifiers stay in use.                                          *)
IntoOnline ==
  /\ status = "offline"
  /\ status' = "resend"
  /\ cursor' = 0
  /\ state' = [state EXCEPT !.waiting_to_be_acked_qos0 = EmptyIndex]
  /\ Quiet
  /\ UNCHANGED <<pending, published>>

(* Mutant: what is sent again is not marked as a duplicate.                *)
MutResendPublish(k) ==
  LET m == state.waiting_to_be_acked
  IN  /\ status = "resend"
      /\ IsNextKey(m, cursor, k)
      /\ cursor' = m.items[k].order
      /\ events' = Append(events, [type |-> "PublishTo", id |-> k,
                                   pub |-> m.items[k].value, dup |-> FALSE])
      /\ UNCHANGED <<state, status, pending, forwarded, published>>

ResendPublish(k) ==
  LET m == state.waiting_to_be_acked
  IN  /\ status = "resend"
      /\ IsNextKey(m, cursor, k)
      /\ cursor' = m.items[k].order
      /\ events' = Append(events, [type |-> "PublishTo", id |-> k,
                                   pub |-> m.items[k].value, dup |-> TRUE])
      /\ UNCHANGED <<state, status, pending, forwarded, published>>

(* Mutant: PUBRELs are not sent again.                                     *)
MutResendPublishDone ==
  /\ status = "resend"
  /\ AtEnd(state.waiting_to_be_acked, cursor)
  /\ status' = "drain"
  /\ cursor' = 0
  /\ UNCHANGED <<state, pending, events, forwarded, published>>

ResendPublishDone ==
  /\ status = "resend"
  /\ AtEnd(state.waiting_to_be_acked, cursor)
  /\ status' = "resend_pubrel"
  /\ cursor' = 0
  /\ UNCHANGED <<state, pending, events, forwarded, published>>

ResendPubRel(k) ==
  LET m == state.waiting_to_be_completed
  IN  /\ status = "resend_pubrel"
      /\ IsNextKey(m, cursor, k)
      /\ cursor' = m.items[k].order
      /\ events' = Append(events, [type |-> "PubRel", id |-> k])
      /\ UNCHANGED <<state, status, pending, forwarded, published>>

ResendPubRelDone ==
  /\ status = "resend_pubrel"
  /\ AtEnd(state.waiting_to_be_completed, cursor)
  /\ status' = "drain"
  /\ cursor' = 0
  /\ UNCHANGED <<state, pending, events, forwarded, published>>

(* One turn of the loop that sends queued publications up to the window.   *)
(* Without a free identifier open_session panics.                          *)
Drain ==
  LET p == Head(state.waiting_to_be_sent.inner)
      s == [state EXCEPT !.waiting_to_be_sent = Dequeue(@)]
  IN  /\ status = "drain"
      /\ AllowedToSend(state)
      /\ state.waiting_to_be_sent.inner # << >>
      /\ IF CanPrepare(s, p)
           THEN /\ state' = PrepareToSend(s, p)
                /\ events' = Append(events, PublishTo(s, p))
                /\ UNCHANGED status
           ELSE /\ state' = s
                /\ status' = "panicked"
                /\ UNCHANGED events
      /\ UNCHANGED <<cursor, pending, forwarded, published>>

(* The session is online; the collected events go to the new connection.   *)
Resumed ==
  /\ status = "drain"
  /\ ~AllowedToSend(state) \/ state.waiting_to_be_sent.inner = << >>
  /\ status' = "online"
  /\ UNCHANGED <<state, cursor, pending, events, forwarded, published>>

(* The broker stops and a new one loads the snapshot it left: the          *)
(* subscriptions and the queue survive, nothing in flight does.            *)
Restart ==
  /\ ~Busy
  /\ status' = "loading"
  /\ pending' = state.waiting_to_be_sent.inner
  /\ state' = [NewState EXCEPT !.subscriptions = state.subscriptions]
  /\ Quiet
  /\ UNCHANGED <<cursor, published>>

(* Extend for BoundedQueue: what does not fit is dropped in silence.       *)
LoadQueued ==
  /\ status = "loading"
  /\ pending # << >>
  /\ state' = [state EXCEPT !.waiting_to_be_sent = Enqueue(@, Head(pending))]
  /\ pending' = Tail(pending)
  /\ UNCHANGED <<status, cursor, events, forwarded, published>>

Loaded ==
  /\ status = "loading"
  /\ pending = << >>
  /\ status' = "offline"
  /\ UNCHANGED <<state, cursor, pending, events, forwarded, published>>
-----------------------------------------------------------------------------
Init ==
  /\ state = NewState
  /\ status = "online"
  /\ cursor = 0
  /\ pending = << >>
  /\ events = << >>
  /\ forwarded = << >>
  /\ published = 0

Acknowledge ==
  \E id \in Id :
    HandlePubAck0(id) \/ HandlePubAck(id) \/ HandlePubRec(id) \/ HandlePubComp(id)

Resume ==
  \/ IntoOnline
  \/ \E k \in Id : ResendPublish(k) \/ ResendPubRel(k)
  \/ ResendPublishDone \/ ResendPubRelDone \/ Drain \/ Resumed

Next ==
  \/ \E p \in Publications : Publish(p)
  \/ Acknowledge
  \/ \E id \in InboundIds, p \in Inbound : HandlePublish(id, p)
  \/ \E id \in InboundIds : HandlePubRel(id)
  \/ \E g \in Grants : SubscribeTo(g[1], g[2])
  \/ \E f \in Filters : Unsubscribe(f)
  \/ CloseSession \/ CleanSession
  \/ Resume
  \/ Restart \/ LoadQueued \/ Loaded

Spec == Init /\ [][Next]_vars
-----------------------------------------------------------------------------
(* Types.                                                                  *)

IndexOn(K, V) == [last_inserted : Nat, items : [K -> [order : Nat, value : V]]]
Identifiers == [in_use : SUBSET Id, previous : Id]

(* The records of the type of SessionState with the key sets of s.         *)
StateLike(s) ==
  [subscriptions            : [DOMAIN s.subscriptions -> QoS],
   packet_identifiers       : Identifiers,
   packet_identifiers_qos0  : Identifiers,
   waiting_to_be_sent       : [inner : Seq(Publication), current_size : Int],
   waiting_to_be_released   : IndexOn(Keys(s.waiting_to_be_released), Publication),
   waiting_to_be_acked      : IndexOn(Keys(s.waiting_to_be_acked), Publication),
   waiting_to_be_acked_qos0 : IndexOn(Keys(s.waiting_to_be_acked_qos0), Publication),
   waiting_to_be_completed  : IndexOn(Keys(s.waiting_to_be_completed), Id)]

IsState(s) ==
  /\ s \in StateLike(s)
  /\ DOMAIN s.subscriptions \subseteq Filters
  /\ Keys(s.waiting_to_be_released) \subseteq Id
  /\ Keys(s.waiting_to_be_acked) \subseteq Id
  /\ Keys(s.waiting_to_be_acked_qos0) \subseteq Id
  /\ Keys(s.waiting_to_be_completed) \subseteq Id

ClientEvent ==
  [type : {"PublishTo"}, id : Id, pub : Publication, dup : BOOLEAN]
    \cup [type : {"PubAck", "PubRec", "PubRel", "PubComp"}, id : Id]

Status ==
  {"online", "offline", "resend", "resend_pubrel", "drain", "loading", "panicked"}

(* Every part of the session's state keeps its type, whatever the client   *)
(* acknowledges: in particular the packet identifiers in flight are never  *)
(* zero and never beyond the largest one.                                  *)
TypeOK ==
  /\ IsState(state)
  /\ status \in Status
  /\ cursor \in Nat
  /\ pending \in Seq(Publication)
  /\ events \in Seq(ClientEvent)
  /\ forwarded \in Seq(Publication)
  /\ published \in Nat
-----------------------------------------------------------------------------
(* No acknowledgement, right or wrong, and no reconnect makes the broker   *)
(* have more publications outstanding than max_inflight_messages.          *)
SendWindow ==
  MaxInflight > 0 =>
    Cardinality(Keys(state.waiting_to_be_acked))
      + Cardinality(Keys(state.waiting_to_be_acked_qos0)) <= MaxInflight

(* The identifier of an outstanding QoS 0 publication is reserved, so the  *)
(* next one sent cannot be given the same identifier and take its place.   *)
Qos0IdsReserved ==
  Keys(state.waiting_to_be_acked_qos0) \subseteq state.packet_identifiers_qos0.in_use

(* The queue respects max_queued_messages in every state, also while a     *)
(* snapshot is put back.                                                   *)
QueueLenBounded ==
  MaxLen > 0 => Len(state.waiting_to_be_sent.inner) <= MaxLen

(* Insertion numbers are distinct and at most last_inserted: iteration     *)
(* over what is outstanding is a total order, the order of sending.        *)
Ordered(m) ==
  /\ \A k \in Keys(m) : m.items[k].order \in 1 .. m.last_inserted
  /\ \A j, k \in Keys(m) : m.items[j].order = m.items[k].order => j = k

SendOrderTotal ==
  /\ Ordered(state.waiting_to_be_acked)
  /\ Ordered(state.waiting_to_be_acked_qos0)
  /\ Ordered(state.waiting_to_be_completed)

(* When the two redelivery loops of into_online are over, the events       *)
(* collected for the new connection are exactly what is outstanding of QoS *)
(* 1 and 2: every publication to be acknowledged, once, marked as a        *)
(* duplicate, in the order of sending; then every PUBREL to be completed,  *)
(* once, in the order of the PUBRECs.                                      *)
Resent(i) ==
  /\ events[i].type = "PublishTo"
  /\ events[i].dup
  /\ events[i].id \in Keys(state.waiting_to_be_acked)
  /\ events[i].pub = state.waiting_to_be_acked.items[events[i].id].value

Released(i) ==
  /\ events[i].type = "PubRel"
  /\ events[i].id \in Keys(state.waiting_to_be_completed)

Place(m, i) == m.items[events[i].id].order

Before(i, j) ==
  IF Resent(i) THEN Resent(j) => Place(state.waiting_to_be_acked, i)
                                   < Place(state.waiting_to_be_acked, j)
               ELSE /\ Released(j)
                    /\ Place(state.waiting_to_be_completed, i)
                         < Place(state.waiting_to_be_completed, j)

RedeliveryComplete ==
  status = "resend_pubrel" /\ AtEnd(state.waiting_to_be_completed, cursor) =>
    LET I == DOMAIN events
    IN  /\ \A i \in I : Resent(i) \/ Released(i)
        /\ \A k \in Keys(state.waiting_to_be_acked) :
              \E i \in I : Resent(i) /\ events[i].id = k
        /\ \A k \in Keys(state.waiting_to_be_completed) :
              \E i \in I : Released(i) /\ events[i].id = k
        /\ \A i, j \in I : i < j => Before(i, j)
=============================================================================
