--------------------------- MODULE SessionProofs ---------------------------
(***************************************************************************)
(* The invariants of Session, for every value of its constants.            *)
(*                                                                         *)
(* Every handler is a composition of a few changes of the session's state, *)
(* so the inductive invariant is stated of a state (Sound(s)) and one      *)
(* lemma per change shows that it is kept.                                 *)
(***************************************************************************)
EXTENDS Session, FiniteSetTheorems, SequenceTheorems, TLAPS

(* In waiting_to_be_acked there is no QoS 0 publication, and nothing else  *)
(* in waiting_to_be_acked_qos0: prepare_to_send chooses by the QoS.        *)
QosSplit(s) ==
  /\ \A k \in Keys(s.waiting_to_be_acked) :
        s.waiting_to_be_acked.items[k].value.qos # 0
  /\ \A k \in Keys(s.waiting_to_be_acked_qos0) :
        s.waiting_to_be_acked_qos0.items[k].value.qos = 0

Outstanding(s) ==
  Cardinality(Keys(s.waiting_to_be_acked))
    + Cardinality(Keys(s.waiting_to_be_acked_qos0))

Sound(s) ==
  /\ IsState(s)
  /\ MaxInflight > 0 => Outstanding(s) <= MaxInflight
  /\ Keys(s.waiting_to_be_acked_qos0) \subseteq s.packet_identifiers_qos0.in_use
  /\ MaxLen > 0 => Len(s.waiting_to_be_sent.inner) <= MaxLen
  /\ Ordered(s.waiting_to_be_acked)
  /\ Ordered(s.waiting_to_be_acked_qos0)
  /\ Ordered(s.waiting_to_be_completed)
  /\ QosSplit(s)
-----------------------------------------------------------------------------
(* Packet identifiers stay between 1 and MaxId, also past the largest one. *)
LEMMA NextIdType == \A id \in Id : NextId(id) \in Id
  BY SessionAssumption DEF NextId, Id

(* Reserving an identifier keeps the type of the pool.                     *)
LEMMA ReserveType ==
  ASSUME NEW ids \in Identifiers
  PROVE  /\ NextId(ids.previous) \in Id
         /\ Reserve(ids) \in Identifiers
         /\ Reserve(ids).in_use = ids.in_use \cup {NextId(ids.previous)}
  <1>1. NextId(ids.previous) \in Id
    BY NextIdType, Zenon DEF Identifiers
  <1> QED
    BY <1>1, Zenon DEF Identifiers, Reserve

(* So does giving one back.                                                *)
LEMMA DiscardType ==
  ASSUME NEW ids \in Identifiers, NEW id
  PROVE  /\ Discard(ids, id) \in Identifiers
         /\ Discard(ids, id).in_use = ids.in_use \ {id}
  BY Zenon DEF Identifiers, Discard

(* A new session has a free pool.                                          *)
LEMMA DefaultIdsType == DefaultIds \in Identifiers
  BY SessionAssumption DEF DefaultIds, Identifiers, Id

(* An insertion into an index keeps its type and, since it takes the next  *)
(* number, the order of its entries.                                       *)
LEMMA InsertIndex ==
  ASSUME NEW V, NEW m, m \in IndexOn(Keys(m), V), NEW k, NEW v \in V
  PROVE  LET n == Insert(m, k, v)
         IN  /\ Keys(n) = Keys(m) \cup {k}
             /\ n \in IndexOn(Keys(n), V)
             /\ n.last_inserted = m.last_inserted + 1
             /\ n.items[k].order = m.last_inserted + 1
             /\ n.items[k].value = v
             /\ \A x \in Keys(m) : x # k => n.items[x] = m.items[x]
             /\ Ordered(m) => Ordered(n)
  <1> DEFINE n == Insert(m, k, v)
  <1>1. /\ m.last_inserted \in Nat
        /\ \A x \in Keys(m) : m.items[x] \in [order : Nat, value : V]
    BY Zenon DEF IndexOn
  <1>2. /\ n.last_inserted = m.last_inserted + 1
        /\ n.items = [x \in Keys(m) \cup {k} |->
                        IF x = k THEN [order |-> m.last_inserted + 1, value |-> v]
                                 ELSE m.items[x]]
        /\ n = [last_inserted |-> n.last_inserted, items |-> n.items]
    BY Zenon DEF Insert
  <1>3. Keys(n) = Keys(m) \cup {k}
    BY <1>2, Zenon DEF Keys
  <1>4. /\ n.items[k] = [order |-> m.last_inserted + 1, value |-> v]
        /\ \A x \in Keys(m) : x # k => n.items[x] = m.items[x]
    BY <1>2, Zenon
  <1>5. n \in IndexOn(Keys(n), V)
    BY <1>1, <1>2, <1>3 DEF IndexOn
  <1>6. ASSUME Ordered(m) PROVE Ordered(n)
    <2>1. \A x \in Keys(n) : n.items[x].order \in 1 .. n.last_inserted
      BY <1>1, <1>2, <1>3, <1>4, <1>6 DEF Ordered
    <2>2. ASSUME NEW x \in Keys(n), NEW y \in Keys(n),
                 n.items[x].order = n.items[y].order
          PROVE  x = y
      BY <1>1, <1>3, <1>4, <1>6, <2>2 DEF Ordered
    <2> QED
      BY <2>1, <2>2, Zenon DEF Ordered
  <1> QED
    BY <1>2, <1>3, <1>4, <1>5, <1>6

(* A removal keeps the type of an index and the order of the rest.         *)
LEMMA RemoveIndex ==
  ASSUME NEW V, NEW m, m \in IndexOn(Keys(m), V), NEW k
  PROVE  LET n == Remove(m, k)
         IN  /\ Keys(n) = Keys(m) \ {k}
             /\ n \in IndexOn(Keys(n), V)
             /\ \A x \in Keys(n) : n.items[x] = m.items[x]
             /\ Ordered(m) => Ordered(n)
  <1> DEFINE n == Remove(m, k)
  <1>1. m = [last_inserted |-> m.last_inserted, items |-> m.items]
    BY Zenon DEF IndexOn
  <1>2. /\ n.last_inserted = m.last_inserted
        /\ n.items = [x \in Keys(m) \ {k} |-> m.items[x]]
        /\ n = [last_inserted |-> n.last_inserted, items |-> n.items]
    BY <1>1 DEF Remove
  <1>3. Keys(n) = Keys(m) \ {k}
    BY <1>2, Zenon DEF Keys
  <1>4. \A x \in Keys(n) : n.items[x] = m.items[x]
    BY <1>2, <1>3, Zenon
  <1>5. n \in IndexOn(Keys(n), V)
    BY <1>2, <1>3, <1>4 DEF IndexOn
  <1>6. Ordered(m) => Ordered(n)
    BY <1>2, <1>3, <1>4, Zenon DEF Ordered
  <1> QED
    BY <1>3, <1>4, <1>5, <1>6, Zenon

(* The empty index has every type and is in order.                         *)
LEMMA EmptyIndexType ==
  /\ Keys(EmptyIndex) = {}
  /\ Ordered(EmptyIndex)
  /\ \A V : EmptyIndex \in IndexOn({}, V)
  <1>1. Keys(EmptyIndex) = {}
    BY Zenon DEF Keys, EmptyIndex
  <1>2. \A V : EmptyIndex \in IndexOn({}, V)
    BY Zenon DEF EmptyIndex, IndexOn
  <1> QED
    BY <1>1, <1>2, Zenon DEF Ordered
-----------------------------------------------------------------------------
Queue == [inner : Seq(Publication), current_size : Int]

WithinLen(q) == MaxLen > 0 => Len(q.inner) <= MaxLen

(* Taking the oldest publication keeps the type and the length bound.      *)
LEMMA DequeueSound ==
  ASSUME NEW q \in Queue
  PROVE  /\ Dequeue(q) \in Queue
         /\ q.inner # << >> => Len(Dequeue(q).inner) = Len(q.inner) - 1
         /\ WithinLen(q) => WithinLen(Dequeue(q))
         /\ q.inner # << >> => Head(q.inner) \in Publication
  <1>1. /\ q.inner \in Seq(Publication) /\ q.current_size \in Int
        /\ Len(q.inner) \in Nat
    BY LenProperties, Zenon DEF Queue
  <1>2. CASE q.inner = << >>
    BY <1>2, Zenon DEF Dequeue
  <1>3. CASE q.inner # << >>
    <2>1. /\ Head(q.inner) \in Publication /\ Tail(q.inner) \in Seq(Publication)
          /\ Len(Tail(q.inner)) = Len(q.inner) - 1
      BY <1>1, <1>3, HeadTailProperties, Zenon
    <2>2. Head(q.inner).len \in Int
      BY <2>1 DEF Publication
    <2>3. Dequeue(q) = [inner |-> Tail(q.inner),
                        current_size |-> q.current_size - Head(q.inner).len]
      BY <1>3, Zenon DEF Dequeue
    <2> QED
      BY <1>1, <2>1, <2>2, <2>3, QueueAssumption DEF Queue, WithinLen
  <1> QED
    BY <1>2, <1>3, Zenon

(* enqueue keeps the type, and never leaves more than max_len publications *)
(* in a queue that had no more: a full queue gives one up first.           *)
LEMMA EnqueueSound ==
  ASSUME NEW q \in Queue, NEW p \in Publication, WithinLen(q)
  PROVE  Enqueue(q, p) \in Queue /\ WithinLen(Enqueue(q, p))
  <1>1. ASSUME NEW r \in Queue
        PROVE  /\ PushBack(r, p) \in Queue
               /\ Len(PushBack(r, p).inner) = Len(r.inner) + 1
    <2>1. r.inner \in Seq(Publication) /\ r.current_size \in Int
      BY Zenon DEF Queue
    <2>2. p.len \in Int
      BY DEF Publication
    <2>3. /\ Append(r.inner, p) \in Seq(Publication)
          /\ Len(Append(r.inner, p)) = Len(r.inner) + 1
      BY <2>1, AppendProperties
    <2> QED
      BY <2>1, <2>2, <2>3 DEF PushBack, Queue
  <1>2. Len(q.inner) \in Nat /\ MaxLen \in Nat /\ (q.inner = << >> => Len(q.inner) = 0)
    BY LenProperties, QueueAssumption DEF Queue
  <1>3. CASE ~LimitReached(q, p)
    <2>1. Enqueue(q, p) = PushBack(q, p)
      BY <1>3, Zenon DEF Enqueue
    <2>2. MaxLen > 0 => Len(q.inner) < MaxLen
      BY <1>2, <1>3 DEF LimitReached
    <2> QED
      BY <1>1, <1>2, <2>1, <2>2 DEF WithinLen
  <1>4. CASE LimitReached(q, p) /\ WhenFull = "DropNew"
    BY <1>4, Zenon DEF Enqueue, HandleQueueLimit
  <1>5. CASE LimitReached(q, p) /\ WhenFull # "DropNew"
    <2>1. Enqueue(q, p) = PushBack(Dequeue(q), p)
      BY <1>5, Zenon DEF Enqueue, HandleQueueLimit
    <2>2. Dequeue(q) \in Queue
      BY DequeueSound, Zenon
    <2>3. MaxLen > 0 => Len(Dequeue(q).inner) + 1 <= MaxLen
      BY <1>2, DequeueSound DEF WithinLen, Dequeue
    <2> QED
      BY <1>1, <2>1, <2>2, <2>3, Zenon DEF WithinLen
  <1> QED
    BY <1>3, <1>4, <1>5, Zenon
-----------------------------------------------------------------------------
(* A set of qualities of service that is not empty has a largest one.      *)
LEMMA MaxOfQoS ==
  ASSUME NEW S \in SUBSET QoS, S # {}
  PROVE  Max(S) \in QoS
  <1>1. \E x \in S : \A y \in S : x >= y
    <2>1. CASE 2 \in S
      <3>1. \A y \in S : 2 >= y
        BY DEF QoS
      <3> QED
        BY <2>1, <3>1, Zenon
    <2>2. CASE 2 \notin S /\ 1 \in S
      <3>1. \A y \in S : 1 >= y
        BY <2>2 DEF QoS
      <3> QED
        BY <2>2, <3>1, Zenon
    <2>3. CASE 2 \notin S /\ 1 \notin S
      <3>1. \A y \in S : y = 0
        BY <2>3 DEF QoS
      <3> QED
        BY <3>1
    <2> QED
      BY <2>1, <2>2, <2>3, Zenon
  <1> DEFINE P(x) == x \in S /\ \A y \in S : x >= y
  <1>2. P(CHOOSE x : P(x))
    BY <1>1, Zenon
  <1>3. Max(S) = CHOOSE x : P(x)
    BY Zenon DEF Max
  <1> QED
    BY <1>2, <1>3, Zenon

(* The quality of service granted is one of the three: filter takes the    *)
(* largest of a set that is not empty.                                     *)
LEMMA FilterType ==
  ASSUME NEW s, IsState(s), NEW p \in Publication, Matching(s, p) # {}
  PROVE  Filter(s, p) \in Publication
  <1> DEFINE lower(f) == Min({s.subscriptions[f], p.qos})
             S == {lower(f) : f \in Matching(s, p)}
  <1>1. p.qos \in QoS /\ p = [topic |-> p.topic, qos |-> p.qos, len |-> p.len]
    BY Zenon DEF Publication
  <1>2. \A f \in Matching(s, p) : s.subscriptions[f] \in QoS
    BY Zenon DEF IsState, StateLike, Matching
  <1>3. ASSUME NEW f \in Matching(s, p) PROVE lower(f) \in QoS
    <2>1. \E x \in {s.subscriptions[f], p.qos} :
             \A y \in {s.subscriptions[f], p.qos} : x =< y
      BY <1>1, <1>2 DEF QoS
    <2> QED
      BY <1>1, <1>2, <2>1, Zenon DEF Min
  <1>4. S \subseteq QoS /\ S # {}
    BY <1>3, Zenon
  <1>5. Max(S) \in QoS
    BY <1>4, MaxOfQoS, Zenon
  <1>6. Filter(s, p) = [p EXCEPT !.qos = Max(S)]
    BY Zenon DEF Filter
  <1> QED
    BY <1>1, <1>5, <1>6, Zenon DEF Publication
-----------------------------------------------------------------------------
(* A set grows by at most one when an element is added.                    *)
LEMMA AddOne ==
  ASSUME NEW S, NEW x, IsFiniteSet(S)
  PROVE  /\ Cardinality(S) \in Nat
         /\ Cardinality(S \cup {x}) \in Nat
         /\ Cardinality(S \cup {x}) <= Cardinality(S) + 1
  <1>1. Cardinality(S) \in Nat
    BY FS_CardinalityType, Zenon
  <1>2. Cardinality(S \cup {x}) = IF x \in S THEN Cardinality(S) ELSE Cardinality(S) + 1
    BY FS_AddElement, Zenon
  <1> QED
    BY <1>1, <1>2

(* What is outstanding is finite, being keyed by packet identifiers.       *)
LEMMA KeysFinite ==
  ASSUME NEW s, IsState(s)
  PROVE  /\ IsFiniteSet(Keys(s.waiting_to_be_acked))
         /\ IsFiniteSet(Keys(s.waiting_to_be_acked_qos0))
         /\ IsFiniteSet(Keys(s.waiting_to_be_completed))
         /\ Cardinality(Keys(s.waiting_to_be_acked)) \in Nat
         /\ Cardinality(Keys(s.waiting_to_be_acked_qos0)) \in Nat
         /\ Cardinality(Keys(s.waiting_to_be_completed)) \in Nat
  <1>1. IsFiniteSet(Id)
    BY FS_Interval, SessionAssumption DEF Id
  <1>2. /\ Keys(s.waiting_to_be_acked) \in SUBSET Id
        /\ Keys(s.waiting_to_be_acked_qos0) \in SUBSET Id
        /\ Keys(s.waiting_to_be_completed) \in SUBSET Id
    BY Zenon DEF IsState
  <1>3. /\ IsFiniteSet(Keys(s.waiting_to_be_acked))
        /\ IsFiniteSet(Keys(s.waiting_to_be_acked_qos0))
        /\ IsFiniteSet(Keys(s.waiting_to_be_completed))
    BY <1>1, <1>2, FS_Subset, Zenon
  <1> QED
    BY <1>3, FS_CardinalityType, Zenon

(* The state of a new session is sound.                                    *)
LEMMA NewStateSound ==
  ASSUME NEW subs, subs \in [DOMAIN subs -> QoS], DOMAIN subs \subseteq Filters
  PROVE  Sound([NewState EXCEPT !.subscriptions = subs])
  <1> DEFINE t == [NewState EXCEPT !.subscriptions = subs]
  <1>1. /\ t.subscriptions = subs
        /\ t.packet_identifiers = DefaultIds
        /\ t.packet_identifiers_qos0 = DefaultIds
        /\ t.waiting_to_be_sent = EmptyQueue
        /\ t.waiting_to_be_released = EmptyIndex
        /\ t.waiting_to_be_acked = EmptyIndex
        /\ t.waiting_to_be_acked_qos0 = EmptyIndex
        /\ t.waiting_to_be_completed = EmptyIndex
        /\ t = [subscriptions            |-> t.subscriptions,
                packet_identifiers       |-> t.packet_identifiers,
                packet_identifiers_qos0  |-> t.packet_identifiers_qos0,
                waiting_to_be_sent       |-> t.waiting_to_be_sent,
                waiting_to_be_released   |-> t.waiting_to_be_released,
                waiting_to_be_acked      |-> t.waiting_to_be_acked,
                waiting_to_be_acked_qos0 |-> t.waiting_to_be_acked_qos0,
                waiting_to_be_completed  |-> t.waiting_to_be_completed]
    BY DEF NewState
  <1>2. EmptyQueue \in [inner : Seq(Publication), current_size : Int]
    BY EmptySeq DEF EmptyQueue
  <1>3. IsState(t)
    <2> HIDE DEF t
    <2>1. t \in StateLike(t)
      BY <1>1, <1>2, DefaultIdsType, EmptyIndexType, Zenon DEF StateLike
    <2> QED
      BY <1>1, <2>1, EmptyIndexType, Zenon DEF IsState
  <1>4. Outstanding(t) = 0
    BY <1>1, EmptyIndexType, FS_EmptySet DEF Outstanding
  <1>5. Len(t.waiting_to_be_sent.inner) = 0
    BY <1>1 DEF EmptyQueue
  <1> QED
    BY <1>1, <1>3, <1>4, <1>5, EmptyIndexType, SessionAssumption, QueueAssumption
       DEF Sound, QosSplit

(* Changing the queue alone.                                               *)
LEMMA SetQueueSound ==
  ASSUME NEW s, Sound(s), NEW q \in Queue, WithinLen(q)
  PROVE  LET t == [s EXCEPT !.waiting_to_be_sent = q]
         IN  Sound(t) /\ (AllowedToSend(s) => AllowedToSend(t))
  <1> DEFINE t == [s EXCEPT !.waiting_to_be_sent = q]
  <1>1. s \in StateLike(s)
    BY Zenon DEF Sound, IsState
  <1>2. /\ t.subscriptions = s.subscriptions
        /\ t.packet_identifiers = s.packet_identifiers
        /\ t.packet_identifiers_qos0 = s.packet_identifiers_qos0
        /\ t.waiting_to_be_sent = q
        /\ t.waiting_to_be_released = s.waiting_to_be_released
        /\ t.waiting_to_be_acked = s.waiting_to_be_acked
        /\ t.waiting_to_be_acked_qos0 = s.waiting_to_be_acked_qos0
        /\ t.waiting_to_be_completed = s.waiting_to_be_completed
    BY <1>1, Zenon DEF StateLike
  <1>3. t \in StateLike(t)
    BY <1>1, Zenon DEF StateLike, Queue
  <1> HIDE DEF t
  <1>4. IsState(t)
    BY <1>2, <1>3, Zenon DEF Sound, IsState
  <1>5. Sound(t)
    BY <1>2, <1>4, Zenon DEF Sound, QosSplit, Outstanding, WithinLen
  <1>6. AllowedToSend(s) => AllowedToSend(t)
    BY <1>2, Zenon DEF AllowedToSend
  <1> QED
    BY <1>5, <1>6, Zenon DEF t
-----------------------------------------------------------------------------
(* One lemma for each change of the state that a handler makes.            *)

(* What is outstanding only shrinks when its key sets do.                  *)
LEMMA OutstandingShrinks ==
  ASSUME NEW s, IsState(s), NEW t, IsState(t),
         Keys(t.waiting_to_be_acked) \subseteq Keys(s.waiting_to_be_acked),
         Keys(t.waiting_to_be_acked_qos0) \subseteq Keys(s.waiting_to_be_acked_qos0)
  PROVE  Outstanding(t) <= Outstanding(s) /\ Outstanding(t) \in Nat /\ Outstanding(s) \in Nat
  <1>1. /\ Cardinality(Keys(t.waiting_to_be_acked)) <= Cardinality(Keys(s.waiting_to_be_acked))
        /\ Cardinality(Keys(t.waiting_to_be_acked_qos0))
             <= Cardinality(Keys(s.waiting_to_be_acked_qos0))
    BY KeysFinite, FS_Subset, Zenon
  <1> QED
    BY <1>1, KeysFinite DEF Outstanding

(* handle_puback, before try_publish.                                       *)
LEMMA PubAckSound ==
  ASSUME NEW s, Sound(s), NEW id
  PROVE  Sound([s EXCEPT !.waiting_to_be_acked = Remove(@, id),
                         !.packet_identifiers = Discard(@, id)])
  <1> DEFINE t == [s EXCEPT !.waiting_to_be_acked = Remove(@, id),
                             !.packet_identifiers = Discard(@, id)]
  <1>1. s \in StateLike(s)
    BY Zenon DEF Sound, IsState
  <1>2. /\ t.subscriptions = s.subscriptions
        /\ t.packet_identifiers = Discard(s.packet_identifiers, id)
        /\ t.packet_identifiers_qos0 = s.packet_identifiers_qos0
        /\ t.waiting_to_be_sent = s.waiting_to_be_sent
        /\ t.waiting_to_be_released = s.waiting_to_be_released
        /\ t.waiting_to_be_acked = Remove(s.waiting_to_be_acked, id)
        /\ t.waiting_to_be_acked_qos0 = s.waiting_to_be_acked_qos0
        /\ t.waiting_to_be_completed = s.waiting_to_be_completed
    BY <1>1, Zenon DEF StateLike
  <1> HIDE DEF t
  <1>3. /\ s.waiting_to_be_acked \in IndexOn(Keys(s.waiting_to_be_acked), Publication)
        /\ s.packet_identifiers \in Identifiers
    BY <1>1, Zenon DEF StateLike
  <1>4. /\ Keys(t.waiting_to_be_acked) = Keys(s.waiting_to_be_acked) \ {id}
        /\ t.waiting_to_be_acked \in IndexOn(Keys(t.waiting_to_be_acked), Publication)
        /\ \A x \in Keys(t.waiting_to_be_acked) : t.waiting_to_be_acked.items[x] = s.waiting_to_be_acked.items[x]
        /\ Ordered(s.waiting_to_be_acked) => Ordered(t.waiting_to_be_acked)
    BY <1>2, <1>3, RemoveIndex
  <1>5. /\ t.packet_identifiers \in Identifiers
        /\ t.packet_identifiers.in_use = s.packet_identifiers.in_use \ {id}
    BY <1>2, <1>3, DiscardType
  <1>6. t \in StateLike(t)
    BY <1>1, <1>2, <1>4, <1>5, Zenon DEF StateLike, t
  <1>7. IsState(t)
    BY <1>2, <1>4, <1>6, Zenon DEF Sound, IsState
  <1>8. Outstanding(t) <= Outstanding(s) /\ Outstanding(t) \in Nat /\ Outstanding(s) \in Nat
    BY <1>2, <1>4, <1>7, OutstandingShrinks, Zenon DEF Sound
  <1>9. Sound(t)
    BY <1>2, <1>4, <1>5, <1>7, <1>8, SessionAssumption DEF Sound, QosSplit
  <1> QED
    BY <1>9, Zenon DEF t

(* handle_puback0, before try_publish: entry and identifier go together.   *)
LEMMA PubAck0Sound ==
  ASSUME NEW s, Sound(s), NEW id
  PROVE  Sound([s EXCEPT !.waiting_to_be_acked_qos0 = Remove(@, id),
                         !.packet_identifiers_qos0 = Discard(@, id)])
  <1> DEFINE t == [s EXCEPT !.waiting_to_be_acked_qos0 = Remove(@, id),
                             !.packet_identifiers_qos0 = Discard(@, id)]
  <1>1. s \in StateLike(s)
    BY Zenon DEF Sound, IsState
  <1>2. /\ t.subscriptions = s.subscriptions
        /\ t.packet_identifiers = s.packet_identifiers
        /\ t.packet_identifiers_qos0 = Discard(s.packet_identifiers_qos0, id)
        /\ t.waiting_to_be_sent = s.waiting_to_be_sent
        /\ t.waiting_to_be_released = s.waiting_to_be_released
        /\ t.waiting_to_be_acked = s.waiting_to_be_acked
        /\ t.waiting_to_be_acked_qos0 = Remove(s.waiting_to_be_acked_qos0, id)
        /\ t.waiting_to_be_completed = s.waiting_to_be_completed
    BY <1>1, Zenon DEF StateLike
  <1> HIDE DEF t
  <1>3. /\ s.waiting_to_be_acked_qos0 \in IndexOn(Keys(s.waiting_to_be_acked_qos0), Publication)
        /\ s.packet_identifiers_qos0 \in Identifiers
    BY <1>1, Zenon DEF StateLike
  <1>4. /\ Keys(t.waiting_to_be_acked_qos0) = Keys(s.waiting_to_be_acked_qos0) \ {id}
        /\ t.waiting_to_be_acked_qos0 \in IndexOn(Keys(t.waiting_to_be_acked_qos0), Publication)
        /\ \A x \in Keys(t.waiting_to_be_acked_qos0) : t.waiting_to_be_acked_qos0.items[x] = s.waiting_to_be_acked_qos0.items[x]
        /\ Ordered(s.waiting_to_be_acked_qos0) => Ordered(t.waiting_to_be_acked_qos0)
    BY <1>2, <1>3, RemoveIndex
  <1>5. /\ t.packet_identifiers_qos0 \in Identifiers
        /\ t.packet_identifiers_qos0.in_use = s.packet_identifiers_qos0.in_use \ {id}
    BY <1>2, <1>3, DiscardType
  <1>6. t \in StateLike(t)
    BY <1>1, <1>2, <1>4, <1>5, Zenon DEF StateLike, t
  <1>7. IsState(t)
    BY <1>2, <1>4, <1>6, Zenon DEF Sound, IsState
  <1>8. Outstanding(t) <= Outstanding(s) /\ Outstanding(t) \in Nat /\ Outstanding(s) \in Nat
    BY <1>2, <1>4, <1>7, OutstandingShrinks, Zenon DEF Sound
  <1>9. Sound(t)
    BY <1>2, <1>4, <1>5, <1>7, <1>8, SessionAssumption DEF Sound, QosSplit
  <1> QED
    BY <1>9, Zenon DEF t

(* handle_pubcomp, before try_publish.                                     *)
LEMMA PubCompSound ==
  ASSUME NEW s, Sound(s), NEW id
  PROVE  Sound([s EXCEPT !.waiting_to_be_completed = Remove(@, id),
                         !.packet_identifiers = Discard(@, id)])
  <1> DEFINE t == [s EXCEPT !.waiting_to_be_completed = Remove(@, id),
                             !.packet_identifiers = Discard(@, id)]
  <1>1. s \in StateLike(s)
    BY Zenon DEF Sound, IsState
  <1>2. /\ t.subscriptions = s.subscriptions
        /\ t.packet_identifiers = Discard(s.packet_identifiers, id)
        /\ t.packet_identifiers_qos0 = s.packet_identifiers_qos0
        /\ t.waiting_to_be_sent = s.waiting_to_be_sent
        /\ t.waiting_to_be_released = s.waiting_to_be_released
        /\ t.waiting_to_be_acked = s.waiting_to_be_acked
        /\ t.waiting_to_be_acked_qos0 = s.waiting_to_be_acked_qos0
        /\ t.waiting_to_be_completed = Remove(s.waiting_to_be_completed, id)
    BY <1>1, Zenon DEF StateLike
  <1> HIDE DEF t
  <1>3. /\ s.waiting_to_be_completed \in IndexOn(Keys(s.waiting_to_be_completed), Id)
        /\ s.packet_identifiers \in Identifiers
    BY <1>1, Zenon DEF StateLike
  <1>4. /\ Keys(t.waiting_to_be_completed) = Keys(s.waiting_to_be_completed) \ {id}
        /\ t.waiting_to_be_completed \in IndexOn(Keys(t.waiting_to_be_completed), Id)
        /\ \A x \in Keys(t.waiting_to_be_completed) : t.waiting_to_be_completed.items[x] = s.waiting_to_be_completed.items[x]
        /\ Ordered(s.waiting_to_be_completed) => Ordered(t.waiting_to_be_completed)
    BY <1>2, <1>3, RemoveIndex
  <1>5. /\ t.packet_identifiers \in Identifiers
        /\ t.packet_identifiers.in_use = s.packet_identifiers.in_use \ {id}
    BY <1>2, <1>3, DiscardType
  <1>6. t \in StateLike(t)
    BY <1>1, <1>2, <1>4, <1>5, Zenon DEF StateLike, t
  <1>7. IsState(t)
    BY <1>2, <1>4, <1>6, Zenon DEF Sound, IsState
  <1>8. Outstanding(t) <= Outstanding(s) /\ Outstanding(t) \in Nat /\ Outstanding(s) \in Nat
    BY <1>2, <1>4, <1>7, OutstandingShrinks, Zenon DEF Sound
  <1>9. Sound(t)
    BY <1>2, <1>4, <1>5, <1>7, <1>8, SessionAssumption DEF Sound, QosSplit
  <1> QED
    BY <1>9, Zenon DEF t

(* handle_pubrec, for any identifier.                                      *)
LEMMA PubRecSound ==
  ASSUME NEW s, Sound(s), NEW id \in Id
  PROVE  Sound([s EXCEPT !.waiting_to_be_acked = Remove(@, id),
                         !.waiting_to_be_completed = Insert(@, id, id)])
  <1> DEFINE t == [s EXCEPT !.waiting_to_be_acked = Remove(@, id),
                             !.waiting_to_be_completed = Insert(@, id, id)]
  <1>1. s \in StateLike(s)
    BY Zenon DEF Sound, IsState
  <1>2. /\ t.subscriptions = s.subscriptions
        /\ t.packet_identifiers = s.packet_identifiers
        /\ t.packet_identifiers_qos0 = s.packet_identifiers_qos0
        /\ t.waiting_to_be_sent = s.waiting_to_be_sent
        /\ t.waiting_to_be_released = s.waiting_to_be_released
        /\ t.waiting_to_be_acked = Remove(s.waiting_to_be_acked, id)
        /\ t.waiting_to_be_acked_qos0 = s.waiting_to_be_acked_qos0
        /\ t.waiting_to_be_completed = Insert(s.waiting_to_be_completed, id, id)
    BY <1>1, Zenon DEF StateLike
  <1> HIDE DEF t
  <1>3. /\ s.waiting_to_be_acked \in IndexOn(Keys(s.waiting_to_be_acked), Publication)
        /\ s.waiting_to_be_completed \in IndexOn(Keys(s.waiting_to_be_completed), Id)
    BY <1>1, Zenon DEF StateLike
  <1>4. /\ Keys(t.waiting_to_be_acked) = Keys(s.waiting_to_be_acked) \ {id}
        /\ t.waiting_to_be_acked \in IndexOn(Keys(t.waiting_to_be_acked), Publication)
        /\ \A x \in Keys(t.waiting_to_be_acked) :
              t.waiting_to_be_acked.items[x] = s.waiting_to_be_acked.items[x]
        /\ Ordered(s.waiting_to_be_acked) => Ordered(t.waiting_to_be_acked)
    BY <1>2, <1>3, RemoveIndex
  <1>5. /\ Keys(t.waiting_to_be_completed) = Keys(s.waiting_to_be_completed) \cup {id}
        /\ t.waiting_to_be_completed \in IndexOn(Keys(t.waiting_to_be_completed), Id)
        /\ Ordered(s.waiting_to_be_completed) => Ordered(t.waiting_to_be_completed)
    <2> DEFINE c == Insert(s.waiting_to_be_completed, id, id)
    <2>1. /\ Keys(c) = Keys(s.waiting_to_be_completed) \cup {id}
          /\ c \in IndexOn(Keys(c), Id)
          /\ Ordered(s.waiting_to_be_completed) => Ordered(c)
      BY <1>3, InsertIndex
    <2> QED
      BY <1>2, <2>1, Zenon
  <1>6. t \in StateLike(t)
    BY <1>1, <1>2, <1>4, <1>5, Zenon DEF StateLike, t
  <1>7. IsState(t)
    BY <1>2, <1>4, <1>5, <1>6, Zenon DEF Sound, IsState
  <1>8. Outstanding(t) <= Outstanding(s) /\ Outstanding(t) \in Nat /\ Outstanding(s) \in Nat
    BY <1>2, <1>4, <1>7, OutstandingShrinks, Zenon DEF Sound
  <1>9. Sound(t)
    BY <1>2, <1>4, <1>5, <1>7, <1>8, SessionAssumption DEF Sound, QosSplit
  <1> QED
    BY <1>9, Zenon DEF t

(* handle_publish of a QoS 2 publication.                                  *)
LEMMA HoldSound ==
  ASSUME NEW s, Sound(s), NEW id \in Id, NEW p \in Publication
  PROVE  Sound([s EXCEPT !.waiting_to_be_released = Insert(@, id, p)])
  <1> DEFINE t == [s EXCEPT !.waiting_to_be_released = Insert(@, id, p)]
  <1>1. s \in StateLike(s)
    BY Zenon DEF Sound, IsState
  <1>2. /\ t.subscriptions = s.subscriptions
        /\ t.packet_identifiers = s.packet_identifiers
        /\ t.packet_identifiers_qos0 = s.packet_identifiers_qos0
        /\ t.waiting_to_be_sent = s.waiting_to_be_sent
        /\ t.waiting_to_be_released = Insert(s.waiting_to_be_released, id, p)
        /\ t.waiting_to_be_acked = s.waiting_to_be_acked
        /\ t.waiting_to_be_acked_qos0 = s.waiting_to_be_acked_qos0
        /\ t.waiting_to_be_completed = s.waiting_to_be_completed
    BY <1>1, Zenon DEF StateLike
  <1> HIDE DEF t
  <1> DEFINE m == Insert(s.waiting_to_be_released, id, p)
  <1>3. s.waiting_to_be_released \in IndexOn(Keys(s.waiting_to_be_released), Publication)
    BY <1>1, Zenon DEF StateLike
  <1>4. /\ Keys(m) = Keys(s.waiting_to_be_released) \cup {id}
        /\ m \in IndexOn(Keys(m), Publication)
    BY <1>3, InsertIndex
  <1>5. t.waiting_to_be_released = m
    BY <1>2, Zenon
  <1> HIDE DEF m
  <1>6. t \in StateLike(t)
    BY <1>1, <1>2, <1>4, <1>5, Zenon DEF StateLike, t
  <1>7. IsState(t)
    BY <1>2, <1>4, <1>5, <1>6, Zenon DEF Sound, IsState
  <1>8. Sound(t)
    BY <1>2, <1>7, Zenon DEF Sound, QosSplit, Outstanding
  <1> QED
    BY <1>8, Zenon DEF t

(* handle_pubrel.                                                          *)
LEMMA ReleaseSound ==
  ASSUME NEW s, Sound(s), NEW id
  PROVE  Sound([s EXCEPT !.waiting_to_be_released = Remove(@, id)])
  <1> DEFINE t == [s EXCEPT !.waiting_to_be_released = Remove(@, id)]
  <1>1. s \in StateLike(s)
    BY Zenon DEF Sound, IsState
  <1>2. /\ t.subscriptions = s.subscriptions
        /\ t.packet_identifiers = s.packet_identifiers
        /\ t.packet_identifiers_qos0 = s.packet_identifiers_qos0
        /\ t.waiting_to_be_sent = s.waiting_to_be_sent
        /\ t.waiting_to_be_released = Remove(s.waiting_to_be_released, id)
        /\ t.waiting_to_be_acked = s.waiting_to_be_acked
        /\ t.waiting_to_be_acked_qos0 = s.waiting_to_be_acked_qos0
        /\ t.waiting_to_be_completed = s.waiting_to_be_completed
    BY <1>1, Zenon DEF StateLike
  <1> HIDE DEF t
  <1> DEFINE m == Remove(s.waiting_to_be_released, id)
  <1>3. s.waiting_to_be_released \in IndexOn(Keys(s.waiting_to_be_released), Publication)
    BY <1>1, Zenon DEF StateLike
  <1>4. /\ Keys(m) = Keys(s.waiting_to_be_released) \ {id}
        /\ m \in IndexOn(Keys(m), Publication)
    BY <1>3, RemoveIndex, Zenon
  <1>5. t.waiting_to_be_released = m
    BY <1>2, Zenon
  <1> HIDE DEF m
  <1>6. t \in StateLike(t)
    BY <1>1, <1>2, <1>4, <1>5, Zenon DEF StateLike, t
  <1>7. IsState(t)
    BY <1>2, <1>4, <1>5, <1>6, Zenon DEF Sound, IsState
  <1>8. Sound(t)
    BY <1>2, <1>7, Zenon DEF Sound, QosSplit, Outstanding
  <1> QED
    BY <1>8, Zenon DEF t

(* Subscribing and unsubscribing.                                          *)
LEMMA SubscriptionsSound ==
  ASSUME NEW s, Sound(s),
         NEW subs, subs \in [DOMAIN subs -> QoS], DOMAIN subs \subseteq Filters
  PROVE  Sound([s EXCEPT !.subscriptions = subs])
  <1> DEFINE t == [s EXCEPT !.subscriptions = subs]
  <1>1. s \in StateLike(s)
    BY Zenon DEF Sound, IsState
  <1>2. /\ t.subscriptions = subs
        /\ t.packet_identifiers = s.packet_identifiers
        /\ t.packet_identifiers_qos0 = s.packet_identifiers_qos0
        /\ t.waiting_to_be_sent = s.waiting_to_be_sent
        /\ t.waiting_to_be_released = s.waiting_to_be_released
        /\ t.waiting_to_be_acked = s.waiting_to_be_acked
        /\ t.waiting_to_be_acked_qos0 = s.waiting_to_be_acked_qos0
        /\ t.waiting_to_be_completed = s.waiting_to_be_completed
    BY <1>1, Zenon DEF StateLike
  <1> HIDE DEF t
  <1>3. t \in StateLike(t)
    BY <1>1, <1>2, Zenon DEF StateLike, t
  <1>4. Sound(t)
    BY <1>2, <1>3, Zenon DEF Sound, IsState, QosSplit, Outstanding
  <1> QED
    BY <1>4, Zenon DEF t

(* into_online forgets the outstanding QoS 0 publications.                 *)
LEMMA ForgetQos0Sound ==
  ASSUME NEW s, Sound(s)
  PROVE  Sound([s EXCEPT !.waiting_to_be_acked_qos0 = EmptyIndex])
  <1> DEFINE t == [s EXCEPT !.waiting_to_be_acked_qos0 = EmptyIndex]
  <1>1. s \in StateLike(s)
    BY Zenon DEF Sound, IsState
  <1>2. /\ t.subscriptions = s.subscriptions
        /\ t.packet_identifiers = s.packet_identifiers
        /\ t.packet_identifiers_qos0 = s.packet_identifiers_qos0
        /\ t.waiting_to_be_sent = s.waiting_to_be_sent
        /\ t.waiting_to_be_released = s.waiting_to_be_released
        /\ t.waiting_to_be_acked = s.waiting_to_be_acked
        /\ t.waiting_to_be_acked_qos0 = EmptyIndex
        /\ t.waiting_to_be_completed = s.waiting_to_be_completed
    BY <1>1, Zenon DEF StateLike
  <1> HIDE DEF t
  <1>3. t \in StateLike(t)
    BY <1>1, <1>2, EmptyIndexType, Zenon DEF StateLike, t
  <1>4. IsState(t)
    BY <1>2, <1>3, EmptyIndexType, Zenon DEF Sound, IsState
  <1>5. Outstanding(t) <= Outstanding(s) /\ Outstanding(t) \in Nat /\ Outstanding(s) \in Nat
    BY <1>2, <1>4, EmptyIndexType, OutstandingShrinks, Zenon DEF Sound
  <1>6. Sound(t)
    BY <1>2, <1>4, <1>5, EmptyIndexType, SessionAssumption DEF Sound, QosSplit
  <1> QED
    BY <1>6, Zenon DEF t

(* prepare_to_send of a QoS 0 publication: reserved and entered under the  *)
(* same identifier, in a window that has room.                             *)
LEMMA PrepareQos0Sound ==
  ASSUME NEW s, Sound(s), AllowedToSend(s),
         NEW p \in Publication, p.qos = 0
  PROVE  Sound([s EXCEPT !.packet_identifiers_qos0 = Reserve(@),
                         !.waiting_to_be_acked_qos0 = Insert(@, NextId(s.packet_identifiers_qos0.previous), p)])
  <1> DEFINE t == [s EXCEPT !.packet_identifiers_qos0 = Reserve(@),
                            !.waiting_to_be_acked_qos0 = Insert(@, NextId(s.packet_identifiers_qos0.previous), p)]
  <1>1. s \in StateLike(s)
    BY Zenon DEF Sound, IsState
  <1>2. /\ t.subscriptions = s.subscriptions
        /\ t.packet_identifiers = s.packet_identifiers
        /\ t.packet_identifiers_qos0 = Reserve(s.packet_identifiers_qos0)
        /\ t.waiting_to_be_sent = s.waiting_to_be_sent
        /\ t.waiting_to_be_released = s.waiting_to_be_released
        /\ t.waiting_to_be_acked = s.waiting_to_be_acked
        /\ t.waiting_to_be_acked_qos0 = Insert(s.waiting_to_be_acked_qos0, NextId(s.packet_identifiers_qos0.previous), p)
        /\ t.waiting_to_be_completed = s.waiting_to_be_completed
    BY <1>1, Zenon DEF StateLike
  <1> HIDE DEF t
  <1> DEFINE id == NextId(s.packet_identifiers_qos0.previous)
             m == Insert(s.waiting_to_be_acked_qos0, id, p)
  <1>3. /\ s.waiting_to_be_acked_qos0 \in IndexOn(Keys(s.waiting_to_be_acked_qos0), Publication)
        /\ s.packet_identifiers_qos0 \in Identifiers
    BY <1>1, Zenon DEF StateLike
  <1>4. /\ id \in Id
        /\ t.packet_identifiers_qos0 \in Identifiers
        /\ t.packet_identifiers_qos0.in_use = s.packet_identifiers_qos0.in_use \cup {id}
    BY <1>2, <1>3, ReserveType, Zenon
  <1>5. t.waiting_to_be_acked_qos0 = m
    BY <1>2, Zenon
  <1> HIDE DEF id
  <1>6. /\ Keys(m) = Keys(s.waiting_to_be_acked_qos0) \cup {id}
        /\ m \in IndexOn(Keys(m), Publication)
        /\ m.items[id].value = p
        /\ \A x \in Keys(s.waiting_to_be_acked_qos0) : x # id => m.items[x] = s.waiting_to_be_acked_qos0.items[x]
        /\ Ordered(s.waiting_to_be_acked_qos0) => Ordered(m)
    BY <1>3, InsertIndex
  <1> HIDE DEF m
  <1>7. t \in StateLike(t)
    BY <1>1, <1>2, <1>4, <1>5, <1>6, Zenon DEF StateLike, t
  <1>8. IsState(t)
    BY <1>2, <1>4, <1>5, <1>6, <1>7, Zenon DEF Sound, IsState
  <1>9. MaxInflight > 0 => Outstanding(t) <= MaxInflight
    <2>1. IsState(s) /\ IsFiniteSet(Keys(s.waiting_to_be_acked_qos0))
      BY KeysFinite, Zenon DEF Sound
    <2>2. /\ Cardinality(Keys(s.waiting_to_be_acked_qos0)) \in Nat
          /\ Cardinality(Keys(s.waiting_to_be_acked_qos0) \cup {id}) \in Nat
          /\ Cardinality(Keys(s.waiting_to_be_acked_qos0) \cup {id}) <= Cardinality(Keys(s.waiting_to_be_acked_qos0)) + 1
      BY <2>1, AddOne, Zenon
    <2> QED
      BY <1>2, <1>5, <1>6, <2>1, <2>2, KeysFinite, SessionAssumption
         DEF AllowedToSend, Outstanding
  <1>10. QosSplit(t)
    BY <1>2, <1>5, <1>6 DEF Sound, QosSplit
  <1>11. Sound(t)
    BY <1>2, <1>4, <1>5, <1>6, <1>8, <1>9, <1>10, Zenon DEF Sound
  <1> QED
    BY <1>11, Zenon DEF t

(* prepare_to_send of a QoS 1 or 2 publication.                            *)
LEMMA PrepareQos12Sound ==
  ASSUME NEW s, Sound(s), AllowedToSend(s),
         NEW p \in Publication, p.qos # 0
  PROVE  Sound([s EXCEPT !.packet_identifiers = Reserve(@),
                         !.waiting_to_be_acked = Insert(@, NextId(s.packet_identifiers.previous), p)])
  <1> DEFINE t == [s EXCEPT !.packet_identifiers = Reserve(@),
                            !.waiting_to_be_acked = Insert(@, NextId(s.packet_identifiers.previous), p)]
  <1>1. s \in StateLike(s)
    BY Zenon DEF Sound, IsState
  <1>2. /\ t.subscriptions = s.subscriptions
        /\ t.packet_identifiers = Reserve(s.packet_identifiers)
        /\ t.packet_identifiers_qos0 = s.packet_identifiers_qos0
        /\ t.waiting_to_be_sent = s.waiting_to_be_sent
        /\ t.waiting_to_be_released = s.waiting_to_be_released
        /\ t.waiting_to_be_acked = Insert(s.waiting_to_be_acked, NextId(s.packet_identifiers.previous), p)
        /\ t.waiting_to_be_acked_qos0 = s.waiting_to_be_acked_qos0
        /\ t.waiting_to_be_completed = s.waiting_to_be_completed
    BY <1>1, Zenon DEF StateLike
  <1> HIDE DEF t
  <1> DEFINE id == NextId(s.packet_identifiers.previous)
             m == Insert(s.waiting_to_be_acked, id, p)
  <1>3. /\ s.waiting_to_be_acked \in IndexOn(Keys(s.waiting_to_be_acked), Publication)
        /\ s.packet_identifiers \in Identifiers
    BY <1>1, Zenon DEF StateLike
  <1>4. /\ id \in Id
        /\ t.packet_identifiers \in Identifiers
        /\ t.packet_identifiers.in_use = s.packet_identifiers.in_use \cup {id}
    BY <1>2, <1>3, ReserveType, Zenon
  <1>5. t.waiting_to_be_acked = m
    BY <1>2, Zenon
  <1> HIDE DEF id
  <1>6. /\ Keys(m) = Keys(s.waiting_to_be_acked) \cup {id}
        /\ m \in IndexOn(Keys(m), Publication)
        /\ m.items[id].value = p
        /\ \A x \in Keys(s.waiting_to_be_acked) : x # id => m.items[x] = s.waiting_to_be_acked.items[x]
        /\ Ordered(s.waiting_to_be_acked) => Ordered(m)
    BY <1>3, InsertIndex
  <1> HIDE DEF m
  <1>7. t \in StateLike(t)
    BY <1>1, <1>2, <1>4, <1>5, <1>6, Zenon DEF StateLike, t
  <1>8. IsState(t)
    BY <1>2, <1>4, <1>5, <1>6, <1>7, Zenon DEF Sound, IsState
  <1>9. MaxInflight > 0 => Outstanding(t) <= MaxInflight
    <2>1. IsState(s) /\ IsFiniteSet(Keys(s.waiting_to_be_acked))
      BY KeysFinite, Zenon DEF Sound
    <2>2. /\ Cardinality(Keys(s.waiting_to_be_acked)) \in Nat
          /\ Cardinality(Keys(s.waiting_to_be_acked) \cup {id}) \in Nat
          /\ Cardinality(Keys(s.waiting_to_be_acked) \cup {id}) <= Cardinality(Keys(s.waiting_to_be_acked)) + 1
      BY <2>1, AddOne, Zenon
    <2> QED
      BY <1>2, <1>5, <1>6, <2>1, <2>2, KeysFinite, SessionAssumption
         DEF AllowedToSend, Outstanding
  <1>10. QosSplit(t)
    BY <1>2, <1>5, <1>6, Zenon DEF Sound, QosSplit
  <1>11. Sound(t)
    BY <1>2, <1>4, <1>5, <1>6, <1>8, <1>9, <1>10, Zenon DEF Sound
  <1> QED
    BY <1>11, Zenon DEF t

(* Taking the oldest queued publication to send it.                        *)
LEMMA TakeSound ==
  ASSUME NEW s, Sound(s), AllowedToSend(s), s.waiting_to_be_sent.inner # << >>
  PROVE  LET t == [s EXCEPT !.waiting_to_be_sent = Dequeue(@)]
         IN  /\ Sound(t)
             /\ AllowedToSend(t)
             /\ Head(s.waiting_to_be_sent.inner) \in Publication
  <1>1. s.waiting_to_be_sent \in Queue /\ WithinLen(s.waiting_to_be_sent)
    BY Zenon DEF Sound, IsState, StateLike, Queue, WithinLen
  <1>2. /\ Dequeue(s.waiting_to_be_sent) \in Queue
        /\ WithinLen(Dequeue(s.waiting_to_be_sent))
        /\ Head(s.waiting_to_be_sent.inner) \in Publication
    BY <1>1, DequeueSound, Zenon
  <1> QED
    BY <1>2, SetQueueSound, Zenon

(* Putting a publication in the queue.                                     *)
LEMMA PutSound ==
  ASSUME NEW s, Sound(s), NEW p \in Publication
  PROVE  Sound([s EXCEPT !.waiting_to_be_sent = Enqueue(@, p)])
  <1>1. s.waiting_to_be_sent \in Queue /\ WithinLen(s.waiting_to_be_sent)
    BY Zenon DEF Sound, IsState, StateLike, Queue, WithinLen
  <1>2. /\ Enqueue(s.waiting_to_be_sent, p) \in Queue
        /\ WithinLen(Enqueue(s.waiting_to_be_sent, p))
    BY <1>1, EnqueueSound, Zenon
  <1> QED
    BY <1>2, SetQueueSound, Zenon

(* The event that carries a publication has the type of one.               *)
LEMMA EventType ==
  ASSUME NEW s, IsState(s), NEW p \in Publication
  PROVE  PublishTo(s, p) \in ClientEvent
  <1>1. IdsFor(s, p) \in Identifiers
    BY Zenon DEF IdsFor, IsState, StateLike
  <1>2. NextId(IdsFor(s, p).previous) \in Id
    BY <1>1, ReserveType, Zenon
  <1> QED
    BY <1>2, Zenon DEF PublishTo, ClientEvent

(* prepare_to_send.                                                        *)
LEMMA PrepareSound ==
  ASSUME NEW s, Sound(s), AllowedToSend(s), NEW p \in Publication
  PROVE  Sound(PrepareToSend(s, p))
  <1>1. CASE p.qos = 0
    BY <1>1, PrepareQos0Sound, Zenon DEF PrepareToSend, IdsFor
  <1>2. CASE p.qos # 0
    BY <1>2, PrepareQos12Sound, Zenon DEF PrepareToSend, IdsFor
  <1> QED
    BY <1>1, <1>2, Zenon
-----------------------------------------------------------------------------
(* Sending one publication keeps the state sound and sends a client event. *)
LEMMA SendStep ==
  ASSUME NEW s, Sound(s), AllowedToSend(s), NEW p \in Publication, Send(s, p)
  PROVE  Sound(state') /\ events' \in Seq(ClientEvent)
  <1>1. Sound(state')
    BY PrepareSound, Zenon DEF Send
  <1>2. PublishTo(s, p) \in ClientEvent
    BY EventType, Zenon DEF Sound
  <1> QED
    BY <1>1, <1>2 DEF Send

(* try_publish keeps the state sound.                                      *)
LEMMA TryPublishStep ==
  ASSUME NEW s, Sound(s), TryPublish(s)
  PROVE  Sound(state') /\ events' \in Seq(ClientEvent)
  <1>1. CASE AllowedToSend(s) /\ s.waiting_to_be_sent.inner # << >>
    <2> DEFINE t == [s EXCEPT !.waiting_to_be_sent = Dequeue(@)]
               p == Head(s.waiting_to_be_sent.inner)
    <2>1. Sound(t) /\ AllowedToSend(t) /\ p \in Publication
      BY <1>1, TakeSound, Zenon
    <2>2. Send(t, p)
      BY <1>1, Zenon DEF TryPublish
    <2> HIDE DEF t, p
    <2> QED
      BY <2>1, <2>2, SendStep, Zenon
  <1>2. CASE ~(AllowedToSend(s) /\ s.waiting_to_be_sent.inner # << >>)
    <2>1. state' = s /\ events' = << >>
      BY <1>2, Zenon DEF TryPublish
    <2> QED
      BY <2>1, EmptySeq, Zenon
  <1> QED
    BY <1>1, <1>2, Zenon

(* The inductive invariant: the types, and the soundness of the state.     *)
Inv == TypeOK /\ Sound(state)

(* The first broker's first session starts sound.                          *)
LEMMA InitInv == Init => Inv
  <1> SUFFICES ASSUME Init PROVE Inv
    BY Zenon
  <1> DEFINE none == [f \in {} |-> f]
  <1>1. none \in [DOMAIN none -> QoS] /\ DOMAIN none \subseteq Filters
    BY Zenon
  <1>2. NewState = [NewState EXCEPT !.subscriptions = none]
    BY DEF NewState
  <1>3. Sound(NewState)
    BY <1>1, <1>2, NewStateSound, Zenon
  <1> QED
    BY <1>3, EmptySeq, Zenon DEF Init, Inv, TypeOK, Sound, Status

(* A publication of another client.                                        *)
LEMMA PublishInv ==
  ASSUME Inv, NEW p \in Publications, Publish(p)
  PROVE  Inv'
  <1>1. p \in Publication
    BY SessionAssumption, Zenon
  <1>2. ASSUME PublishOnline(p) PROVE Sound(state') /\ events' \in Seq(ClientEvent) /\ forwarded' = << >>
    <2>1. Filter(state, p) \in Publication
      BY <1>1, <1>2, FilterType, Zenon DEF PublishOnline, Inv, Sound
    <2>2. CASE AllowedToSend(state)
      <3>1. Send(state, Filter(state, p)) /\ forwarded' = << >>
        BY <1>2, <2>2, Zenon DEF PublishOnline
      <3> QED
        BY <2>1, <2>2, <3>1, SendStep, Zenon DEF Inv
    <2>3. CASE ~AllowedToSend(state)
      <3>1. /\ state' = [state EXCEPT !.waiting_to_be_sent = Enqueue(@, Filter(state, p))]
            /\ events' = << >> /\ forwarded' = << >>
        BY <1>2, <2>3, Zenon DEF PublishOnline
      <3> QED
        BY <2>1, <3>1, PutSound, EmptySeq, Zenon DEF Inv
    <2> QED
      BY <2>2, <2>3, Zenon
  <1>3. ASSUME PublishOffline(p) PROVE Sound(state') /\ events' \in Seq(ClientEvent) /\ forwarded' = << >>
    <2>1. Filter(state, p) \in Publication
      BY <1>1, <1>3, FilterType, Zenon DEF PublishOffline, Inv, Sound
    <2>2. /\ state' = [state EXCEPT !.waiting_to_be_sent = Enqueue(@, Filter(state, p))]
          /\ events' = << >> /\ forwarded' = << >>
      BY <1>3, Zenon DEF PublishOffline, Quiet
    <2> QED
      BY <2>1, <2>2, PutSound, EmptySeq, Zenon DEF Inv
  <1>4. /\ UNCHANGED <<status, cursor, pending>>
        /\ published' = published + 1
        /\ PublishOnline(p) \/ PublishOffline(p)
    BY Zenon DEF Publish, PublishOnline, PublishOffline, Idle
  <1>5. Sound(state') /\ events' \in Seq(ClientEvent) /\ forwarded' = << >>
    BY <1>2, <1>3, <1>4, Zenon
  <1> QED
    BY <1>4, <1>5, EmptySeq DEF Inv, TypeOK, Sound

(* An acknowledgement, of any identifier.                                  *)
LEMMA AcknowledgeInv ==
  ASSUME Inv, NEW id \in Id,
         HandlePubAck0(id) \/ HandlePubAck(id) \/ HandlePubRec(id) \/ HandlePubComp(id)
  PROVE  Inv'
  <1>1. ASSUME HandlePubAck0(id) PROVE Sound(state') /\ events' \in Seq(ClientEvent)
    <2> DEFINE t == [state EXCEPT !.waiting_to_be_acked_qos0 = Remove(@, id),
                                  !.packet_identifiers_qos0 = Discard(@, id)]
    <2>1. Sound(t)
      BY PubAck0Sound, Zenon DEF Inv
    <2>2. TryPublish(t)
      BY <1>1, Zenon DEF HandlePubAck0
    <2> HIDE DEF t
    <2> QED
      BY <2>1, <2>2, TryPublishStep, Zenon
  <1>2. ASSUME HandlePubAck(id) PROVE Sound(state') /\ events' \in Seq(ClientEvent)
    <2> DEFINE t == [state EXCEPT !.waiting_to_be_acked = Remove(@, id),
                                  !.packet_identifiers = Discard(@, id)]
    <2>1. Sound(t)
      BY PubAckSound, Zenon DEF Inv
    <2>2. TryPublish(t)
      BY <1>2, Zenon DEF HandlePubAck
    <2> HIDE DEF t
    <2> QED
      BY <2>1, <2>2, TryPublishStep, Zenon
  <1>3. ASSUME HandlePubComp(id) PROVE Sound(state') /\ events' \in Seq(ClientEvent)
    <2> DEFINE t == [state EXCEPT !.waiting_to_be_completed = Remove(@, id),
                                  !.packet_identifiers = Discard(@, id)]
    <2>1. Sound(t)
      BY PubCompSound, Zenon DEF Inv
    <2>2. TryPublish(t)
      BY <1>3, Zenon DEF HandlePubComp
    <2> HIDE DEF t
    <2> QED
      BY <2>1, <2>2, TryPublishStep, Zenon
  <1>4. ASSUME HandlePubRec(id) PROVE Sound(state') /\ events' \in Seq(ClientEvent)
    <2>1. Sound(state')
      BY <1>4, PubRecSound, Zenon DEF Inv, HandlePubRec
    <2>2. [type |-> "PubRel", id |-> id] \in ClientEvent
      BY Zenon DEF ClientEvent
    <2> QED
      BY <1>4, <2>1, <2>2 DEF HandlePubRec
  <1>5. Sound(state') /\ events' \in Seq(ClientEvent)
    BY <1>1, <1>2, <1>3, <1>4, Zenon
  <1>6. UNCHANGED <<status, cursor, pending, published>> /\ forwarded' = << >>
    BY Zenon DEF HandlePubAck0, HandlePubAck, HandlePubRec, HandlePubComp, Idle
  <1> QED
    BY <1>5, <1>6, EmptySeq, Zenon DEF Inv, TypeOK, Sound

(* A publication of the client itself, and its PUBREL.                     *)
LEMMA InboundInv ==
  ASSUME Inv, NEW id \in InboundIds,
         (\E p \in Inbound : HandlePublish(id, p)) \/ HandlePubRel(id)
  PROVE  Inv'
  <1>1. id \in Id /\ Inbound \subseteq Publication
    BY SessionAssumption, Zenon
  <1>2. \A e \in {"PubAck", "PubRec", "PubComp"} : [type |-> e, id |-> id] \in ClientEvent
    BY <1>1, Zenon DEF ClientEvent
  <1>3. ASSUME NEW p \in Inbound, HandlePublish(id, p)
        PROVE  /\ Sound(state')
               /\ events' \in Seq(ClientEvent)
               /\ forwarded' \in Seq(Publication)
    <2>1. p \in Publication /\ p.qos \in QoS
      BY <1>1, Zenon DEF Publication
    <2>2. Sound(state')
      BY <1>1, <1>3, <2>1, HoldSound, Zenon DEF Inv, HandlePublish
    <2>3. events' \in Seq(ClientEvent)
      BY <1>2, <1>3, <2>1, EmptySeq DEF HandlePublish, QoS
    <2>4. forwarded' \in Seq(Publication)
      BY <1>3, <2>1, EmptySeq DEF HandlePublish
    <2> QED
      BY <2>2, <2>3, <2>4, Zenon
  <1>4. ASSUME HandlePubRel(id)
        PROVE  /\ Sound(state')
               /\ events' \in Seq(ClientEvent)
               /\ forwarded' \in Seq(Publication)
    <2> DEFINE m == state.waiting_to_be_released
    <2>1. Sound(state')
      BY <1>4, ReleaseSound, Zenon DEF Inv, HandlePubRel
    <2>2. events' \in Seq(ClientEvent)
      BY <1>2, <1>4 DEF HandlePubRel
    <2>3. m \in IndexOn(Keys(m), Publication)
      BY Zenon DEF Inv, Sound, IsState, StateLike
    <2>4. \A k \in Keys(m) : m.items[k].value \in Publication
      BY <2>3, Zenon DEF IndexOn
    <2>5. forwarded' \in Seq(Publication)
      BY <1>4, <2>4, EmptySeq DEF HandlePubRel
    <2> QED
      BY <2>1, <2>2, <2>5, Zenon
  <1>5. UNCHANGED <<status, cursor, pending, published>>
    BY Zenon DEF HandlePublish, HandlePubRel, Idle
  <1> QED
    BY <1>3, <1>4, <1>5, Zenon DEF Inv, TypeOK, Sound

(* A change of the client's subscriptions.                                 *)
LEMMA SubscriptionInv ==
  ASSUME Inv, \/ \E g \in Grants : SubscribeTo(g[1], g[2])
              \/ \E f \in Filters : Unsubscribe(f)
  PROVE  Inv'
  <1>1. /\ state.subscriptions \in [DOMAIN state.subscriptions -> QoS]
        /\ DOMAIN state.subscriptions \subseteq Filters
    BY Zenon DEF Inv, Sound, IsState, StateLike
  <1>2. ASSUME NEW g \in Grants, SubscribeTo(g[1], g[2]) PROVE Sound(state')
    <2>1. g[1] \in Filters /\ g[2] \in QoS
      BY SessionAssumption, Zenon DEF Filters
    <2>2. state' = [state EXCEPT !.subscriptions =
                      [x \in DOMAIN @ \cup {g[1]} |-> IF x = g[1] THEN g[2] ELSE @[x]]]
      BY <1>2, Zenon DEF SubscribeTo
    <2> QED
      BY <1>1, <2>1, <2>2, SubscriptionsSound, Zenon DEF Inv
  <1>3. ASSUME NEW f \in Filters, Unsubscribe(f) PROVE Sound(state')
    BY <1>1, <1>3, SubscriptionsSound, Zenon DEF Inv, Unsubscribe
  <1>4. Sound(state')
    BY <1>2, <1>3, Zenon
  <1>5. /\ UNCHANGED <<status, cursor, pending, published>>
        /\ events' = << >> /\ forwarded' = << >>
    BY Zenon DEF SubscribeTo, Unsubscribe, Idle, Quiet
  <1> QED
    BY <1>4, <1>5, EmptySeq, Zenon DEF Inv, TypeOK, Sound

(* Closing a session, opening a clean one, and resuming one, loop by loop. *)
LEMMA ResumeInv ==
  ASSUME Inv, CloseSession \/ CleanSession \/ Resume
  PROVE  Inv'
  <1> USE EmptySeq DEF Inv, TypeOK, Sound, Status
  <1>1. CASE CloseSession
    BY <1>1, Zenon DEF CloseSession, Quiet
  <1>2. CASE CleanSession
    <2>1. Sound(state')
      <3> DEFINE none == [f \in {} |-> f]
      <3>1. NewState = [NewState EXCEPT !.subscriptions = none]
        BY DEF NewState
      <3>2. none \in [DOMAIN none -> QoS] /\ DOMAIN none \subseteq Filters
        BY Zenon
      <3>3. state' = NewState
        BY <1>2, Zenon DEF CleanSession
      <3> QED
        BY <3>1, <3>2, <3>3, NewStateSound, Zenon
    <2> QED
      BY <1>2, <2>1, Zenon DEF CleanSession, Quiet
  <1>3. CASE IntoOnline
    <2>1. Sound(state')
      BY <1>3, ForgetQos0Sound, Zenon DEF IntoOnline
    <2> QED
      BY <1>3, <2>1, Zenon DEF IntoOnline, Quiet
  <1>4. ASSUME NEW k \in Id, ResendPublish(k) PROVE Inv'
    <2> DEFINE m == state.waiting_to_be_acked
               e == [type |-> "PublishTo", id |-> k, pub |-> m.items[k].value, dup |-> TRUE]
    <2>1. m \in IndexOn(Keys(m), Publication) /\ k \in Keys(m)
      BY <1>4, Zenon DEF ResendPublish, IsNextKey, IsState, StateLike
    <2>2. m.items[k].value \in Publication /\ m.items[k].order \in Nat
      BY <2>1, Zenon DEF IndexOn
    <2>3. e \in ClientEvent
      BY <2>2, Zenon DEF ClientEvent
    <2>4. /\ cursor' = m.items[k].order
          /\ events' = Append(events, e)
          /\ UNCHANGED <<state, status, pending, forwarded, published>>
      BY <1>4, Zenon DEF ResendPublish
    <2>5. events' \in Seq(ClientEvent)
      BY <2>3, <2>4, AppendProperties
    <2> QED
      BY <2>2, <2>4, <2>5, Zenon
  <1>5. ASSUME NEW k \in Id, ResendPubRel(k) PROVE Inv'
    <2> DEFINE m == state.waiting_to_be_completed
               e == [type |-> "PubRel", id |-> k]
    <2>1. m \in IndexOn(Keys(m), Id) /\ k \in Keys(m)
      BY <1>5, Zenon DEF ResendPubRel, IsNextKey, IsState, StateLike
    <2>2. m.items[k].order \in Nat
      BY <2>1, Zenon DEF IndexOn
    <2>3. e \in ClientEvent
      BY Zenon DEF ClientEvent
    <2>4. /\ cursor' = m.items[k].order
          /\ events' = Append(events, e)
          /\ UNCHANGED <<state, status, pending, forwarded, published>>
      BY <1>5, Zenon DEF ResendPubRel
    <2>5. events' \in Seq(ClientEvent)
      BY <2>3, <2>4, AppendProperties, Zenon
    <2> QED
      BY <2>2, <2>4, <2>5, Zenon
  <1>6. CASE ResendPublishDone
    BY <1>6, Zenon DEF ResendPublishDone
  <1>7. CASE ResendPubRelDone
    BY <1>7, Zenon DEF ResendPubRelDone
  <1>8. CASE Drain
    <2> DEFINE p == Head(state.waiting_to_be_sent.inner)
               t == [state EXCEPT !.waiting_to_be_sent = Dequeue(@)]
    <2>1. Sound(t) /\ AllowedToSend(t) /\ p \in Publication
      BY <1>8, TakeSound, Zenon DEF Drain
    <2>2. /\ \/ /\ state' = PrepareToSend(t, p)
                /\ events' = Append(events, PublishTo(t, p))
                /\ status' = status
             \/ state' = t /\ status' = "panicked" /\ events' = events
          /\ UNCHANGED <<cursor, pending, forwarded, published>>
      BY <1>8, Zenon DEF Drain
    <2> HIDE DEF p, t
    <2>3. Sound(state')
      BY <2>1, <2>2, PrepareSound, Zenon
    <2>4. PublishTo(t, p) \in ClientEvent
      BY <2>1, EventType, Zenon
    <2>5. events' \in Seq(ClientEvent)
      <3>1. events \in Seq(ClientEvent)
        BY Zenon
      <3>2. Append(events, PublishTo(t, p)) \in Seq(ClientEvent)
        BY <2>4, <3>1, AppendProperties, Zenon
      <3> QED
        BY <2>2, <3>1, <3>2, Zenon
    <2> QED
      BY <2>2, <2>3, <2>5, Zenon
  <1>9. CASE Resumed
    BY <1>9, Zenon DEF Resumed
  <1> QED
    BY <1>1, <1>2, <1>3, <1>4, <1>5, <1>6, <1>7, <1>8, <1>9, Zenon DEF Resume

(* A restart from the snapshot, and the queue put back from it.            *)
LEMMA RestartInv ==
  ASSUME Inv, Restart \/ LoadQueued \/ Loaded
  PROVE  Inv'
  <1> USE EmptySeq DEF Inv, TypeOK, Sound, Status
  <1>1. CASE Restart
    <2>1. /\ state.subscriptions \in [DOMAIN state.subscriptions -> QoS]
          /\ DOMAIN state.subscriptions \subseteq Filters
          /\ state.waiting_to_be_sent.inner \in Seq(Publication)
      BY Zenon DEF IsState, StateLike
    <2>2. Sound(state')
      BY <1>1, <2>1, NewStateSound, Zenon DEF Restart
    <2> QED
      BY <1>1, <2>1, <2>2, Zenon DEF Restart, Quiet
  <1>2. CASE LoadQueued
    <2>1. Head(pending) \in Publication /\ Tail(pending) \in Seq(Publication)
      BY <1>2, HeadTailProperties, Zenon DEF LoadQueued
    <2>2. Sound(state')
      BY <1>2, <2>1, PutSound, Zenon DEF LoadQueued
    <2> QED
      BY <1>2, <2>1, <2>2, Zenon DEF LoadQueued
  <1>3. CASE Loaded
    BY <1>3, Zenon DEF Loaded
  <1> QED
    BY <1>1, <1>2, <1>3, Zenon

(* Every step keeps the invariant.                                         *)
LEMMA NextInv == Inv /\ [Next]_vars => Inv'
  <1> SUFFICES ASSUME Inv, [Next]_vars PROVE Inv'
    BY Zenon
  <1>1. CASE UNCHANGED vars
    BY <1>1, Zenon DEF vars, Inv, TypeOK
  <1>2. CASE Next
    BY <1>2, PublishInv, AcknowledgeInv, InboundInv, SubscriptionInv, ResumeInv, RestartInv, Zenon
       DEF Next, Acknowledge
  <1> QED
    BY <1>1, <1>2, Zenon

(* Whatever a client acknowledges, subscribes to or publishes, however it  *)
(* reconnects and the broker restarts, and for any limits, Inv holds.      *)
THEOREM InvHolds == Spec => []Inv
  BY InitInv, NextInv, PTL DEF Spec

(* Every part of the session's state keeps its type.                       *)
THEOREM TypeCorrect == Spec => []TypeOK
  BY InvHolds, PTL DEF Inv

(* No more than max_inflight_messages publications are outstanding.        *)
THEOREM SendWindowHolds == Spec => []SendWindow
  <1>1. Inv => SendWindow
    BY Zenon DEF Inv, Sound, Outstanding, SendWindow
  <1> QED
    BY <1>1, InvHolds, PTL

(* The identifiers of outstanding QoS 0 publications are reserved.         *)
THEOREM Qos0IdsReservedHolds == Spec => []Qos0IdsReserved
  <1>1. Inv => Qos0IdsReserved
    BY Zenon DEF Inv, Sound, Qos0IdsReserved
  <1> QED
    BY <1>1, InvHolds, PTL

(* The queue never holds more than max_queued_messages publications.       *)
THEOREM QueueLenBoundedHolds == Spec => []QueueLenBounded
  <1>1. Inv => QueueLenBounded
    BY Zenon DEF Inv, Sound, QueueLenBounded
  <1> QED
    BY <1>1, InvHolds, PTL

(* Iteration over what is outstanding is the total order of sending.       *)
THEOREM SendOrderTotalHolds == Spec => []SendOrderTotal
  <1>1. Inv => SendOrderTotal
    BY Zenon DEF Inv, Sound, SendOrderTotal
  <1> QED
    BY <1>1, InvHolds, PTL

-----------------------------------------------------------------------------
(* What a resumed session sends again.                                     *)

(* What the loops of into_online have collected at each turn:              *)
(* everything up to the cursor, in order, and nothing else.                *)
Collected ==
  LET I       == DOMAIN events
      unacked == state.waiting_to_be_acked
      rel     == state.waiting_to_be_completed
  IN  /\ status = "resend" =>
           /\ \A i \in I : Resent(i) /\ Place(unacked, i) <= cursor
           /\ \A k \in Keys(unacked) : unacked.items[k].order <= cursor =>
                 \E i \in I : Resent(i) /\ events[i].id = k
           /\ \A i, j \in I : i < j => Before(i, j)
      /\ status = "resend_pubrel" =>
           /\ \A i \in I : Resent(i) \/ (Released(i) /\ Place(rel, i) <= cursor)
           /\ \A k \in Keys(unacked) : \E i \in I : Resent(i) /\ events[i].id = k
           /\ \A k \in Keys(rel) : rel.items[k].order <= cursor =>
                 \E i \in I : Released(i) /\ events[i].id = k
           /\ \A i, j \in I : i < j => Before(i, j)

(* What Collected says of the events depends on the state and events only. *)
LEMMA CollectedFrame ==
  ASSUME UNCHANGED <<state, events>>, NEW i, NEW j
  PROVE  /\ Resent(i)' = Resent(i)
         /\ Released(i)' = Released(i)
         /\ Place(state.waiting_to_be_acked, i)' = Place(state.waiting_to_be_acked, i)
         /\ Place(state.waiting_to_be_completed, i)' = Place(state.waiting_to_be_completed, i)
         /\ Before(i, j)' = Before(i, j)
  <1>1. state' = state /\ events' = events
    BY Zenon
  <1> QED
    BY <1>1, Zenon DEF Resent, Released, Place, Before

(* The orders of what waits begin behind the cursor of a loop.             *)
LEMMA OrdersPositive ==
  ASSUME Inv
  PROVE  /\ \A k \in Keys(state.waiting_to_be_acked) :
              ~(state.waiting_to_be_acked.items[k].order <= 0)
         /\ \A k \in Keys(state.waiting_to_be_completed) :
              ~(state.waiting_to_be_completed.items[k].order <= 0)
  <1>1. Ordered(state.waiting_to_be_acked) /\ Ordered(state.waiting_to_be_completed)
    BY Zenon DEF Inv, Sound
  <1>2. \A n : \A i \in 1 .. n : ~(i <= 0)
    OBVIOUS
  <1> QED
    BY <1>1, <1>2, Zenon DEF Ordered

(* A turn of the first loop adds the publication next in order.            *)
LEMMA ResendPublishCollected ==
  ASSUME Inv, Collected, NEW k \in Id, ResendPublish(k)
  PROVE  Collected'
  <1> DEFINE unacked == state.waiting_to_be_acked
  <1>0. PICK n \in Nat : n = Len(events)
    BY LenProperties, Zenon DEF Inv, TypeOK
  <1>1. /\ status = "resend" /\ status' = "resend" /\ state' = state
        /\ k \in Keys(unacked) /\ unacked.items[k].order > cursor
        /\ \A x \in Keys(unacked) : unacked.items[x].order > cursor =>
              unacked.items[k].order <= unacked.items[x].order
        /\ cursor' = unacked.items[k].order
    BY Zenon DEF ResendPublish, IsNextKey
  <1>2. /\ events \in Seq(ClientEvent) /\ n \in Nat /\ DOMAIN events = 1 .. n
        /\ DOMAIN events' = 1 .. n + 1
        /\ \A i \in 1 .. n : events'[i] = events[i]
        /\ events'[n + 1].type = "PublishTo" /\ events'[n + 1].id = k
        /\ events'[n + 1].pub = unacked.items[k].value /\ events'[n + 1].dup
    <2>1. [type |-> "PublishTo", id |-> k, pub |-> unacked.items[k].value, dup |-> TRUE]
            \in ClientEvent
      <3>1. unacked \in IndexOn(Keys(unacked), Publication)
        BY Zenon DEF Inv, Sound, IsState, StateLike
      <3> QED
        BY <1>1, <3>1, Zenon DEF IndexOn, ClientEvent
    <2>2. events' = Append(events, [type |-> "PublishTo", id |-> k,
                                    pub |-> unacked.items[k].value, dup |-> TRUE])
      BY Zenon DEF ResendPublish
    <2>3. events \in Seq(ClientEvent)
      BY Zenon DEF Inv, TypeOK
    <2> QED
      BY <1>0, <2>1, <2>2, <2>3, LenProperties, AppendProperties
  <1>3. /\ \A x \in Keys(unacked) : unacked.items[x].order \in Nat
        /\ \A x, y \in Keys(unacked) : unacked.items[x].order = unacked.items[y].order => x = y
        /\ cursor \in Nat
    BY Zenon DEF Inv, Sound, Ordered, TypeOK, IsState, StateLike, IndexOn
  <1>4. /\ \A i \in 1 .. n : Resent(i) /\ Place(unacked, i) <= cursor
        /\ \A x \in Keys(unacked) : unacked.items[x].order <= cursor =>
              \E i \in 1 .. n : Resent(i) /\ events[i].id = x
        /\ \A i, j \in 1 .. n : i < j => Before(i, j)
    BY <1>1, <1>2, Zenon DEF Collected
  <1>5. ASSUME NEW i \in 1 .. n
        PROVE  Resent(i)' /\ Place(unacked, i)' = Place(unacked, i)
    <2>1. events'[i] = events[i] /\ state' = state /\ Resent(i)
      BY <1>1, <1>2, <1>4, Zenon
    <2> QED
      BY <2>1, Zenon DEF Resent, Place
  <1>6. Resent(n + 1)' /\ Place(unacked, n + 1)' = cursor'
    BY <1>1, <1>2, Zenon DEF Resent, Place
  <1>7. \A i \in 1 .. n + 1 : Resent(i)' /\ Place(unacked, i)' <= cursor'
    <2>1. ASSUME NEW i \in 1 .. n PROVE Place(unacked, i)' <= cursor'
      <3>1. /\ Place(unacked, i) <= cursor
            /\ events[i].id \in Keys(unacked)
            /\ Place(unacked, i) = unacked.items[events[i].id].order
        BY <1>4, Zenon DEF Resent, Place
      <3>2. Place(unacked, i) \in Nat /\ cursor \in Nat /\ cursor' \in Nat /\ cursor < cursor'
        BY <1>1, <1>3, <3>1, Zenon
      <3> QED
        BY <1>5, <3>1, <3>2
    <2>2. cursor' <= cursor'
      BY <1>1, <1>3, Zenon
    <2>3. \A i \in 1 .. n + 1 : i \in 1 .. n \/ i = n + 1
      BY <1>2
    <2> QED
      BY <1>5, <1>6, <2>1, <2>2, <2>3, Zenon
  <1>8. ASSUME NEW x \in Keys(unacked), unacked.items[x].order <= cursor'
        PROVE  \E i \in 1 .. n + 1 : Resent(i)' /\ events'[i].id = x
    <2>1. CASE unacked.items[x].order <= cursor
      <3>1. PICK i \in 1 .. n : Resent(i) /\ events[i].id = x
        BY <1>4, <2>1, Zenon
      <3> QED
        BY <1>2, <1>5, <3>1
    <2>2. CASE ~(unacked.items[x].order <= cursor)
      <3>1. unacked.items[x].order = unacked.items[k].order
        <4>1. unacked.items[x].order \in Nat /\ unacked.items[k].order \in Nat /\ cursor \in Nat
          BY <1>1, <1>3, Zenon
        <4>2. unacked.items[k].order <= unacked.items[x].order
          BY <1>1, <2>2, <4>1
        <4> QED
          BY <1>1, <1>8, <4>1, <4>2
      <3>2. x = k
        BY <1>1, <1>3, <3>1, Zenon
      <3> QED
        BY <1>2, <1>6, <3>2
    <2> QED
      BY <2>1, <2>2, Zenon
  <1>9. ASSUME NEW i \in 1 .. n + 1, NEW j \in 1 .. n + 1, i < j
        PROVE  Before(i, j)'
    <2>1. i \in 1 .. n
      BY <1>2, <1>9
    <2>2. Place(unacked, i)' < Place(unacked, j)'
      <3>1. CASE j \in 1 .. n
        <4>1. Before(i, j) /\ Resent(i) /\ Resent(j)
          BY <1>4, <1>9, <2>1, <3>1, Zenon
        <4> QED
          BY <1>5, <2>1, <3>1, <4>1, Zenon DEF Before
      <3>2. CASE j = n + 1
        <4>1. Place(unacked, i) <= cursor /\ Place(unacked, i) \in Nat
          BY <1>3, <1>4, <2>1, Zenon DEF Place, Resent
        <4>2. cursor \in Nat /\ cursor' \in Nat /\ cursor < cursor'
          BY <1>1, <1>3, Zenon
        <4> QED
          BY <1>5, <1>6, <2>1, <3>2, <4>1, <4>2
      <3> QED
        BY <1>2, <3>1, <3>2
    <2>3. Resent(i)'
      BY <1>5, <2>1, Zenon
    <2> QED
      BY <1>1, <2>2, <2>3, Zenon DEF Before
  <1>10. status' = "resend" /\ DOMAIN events' = 1 .. n + 1 /\ state' = state
    BY <1>1, <1>2, Zenon
  <1> QED
    BY <1>7, <1>8, <1>9, <1>10, Zenon DEF Collected

(* A turn of the second loop adds the PUBREL next in order.                *)
LEMMA ResendPubRelCollected ==
  ASSUME Inv, Collected, NEW k \in Id, ResendPubRel(k)
  PROVE  Collected'
  <1> DEFINE unacked == state.waiting_to_be_acked
             rel == state.waiting_to_be_completed
  <1>0. PICK n \in Nat : n = Len(events)
    BY LenProperties, Zenon DEF Inv, TypeOK
  <1>1. /\ status = "resend_pubrel" /\ status' = "resend_pubrel" /\ state' = state
        /\ k \in Keys(rel) /\ rel.items[k].order > cursor
        /\ \A x \in Keys(rel) : rel.items[x].order > cursor =>
              rel.items[k].order <= rel.items[x].order
        /\ cursor' = rel.items[k].order
    BY Zenon DEF ResendPubRel, IsNextKey
  <1>2. /\ events \in Seq(ClientEvent) /\ n \in Nat /\ DOMAIN events = 1 .. n
        /\ DOMAIN events' = 1 .. n + 1
        /\ \A i \in 1 .. n : events'[i] = events[i]
        /\ events'[n + 1].type = "PubRel" /\ events'[n + 1].id = k
    <2>1. [type |-> "PubRel", id |-> k] \in ClientEvent
      BY Zenon DEF ClientEvent
    <2>2. events' = Append(events, [type |-> "PubRel", id |-> k])
      BY Zenon DEF ResendPubRel
    <2>3. events \in Seq(ClientEvent)
      BY Zenon DEF Inv, TypeOK
    <2> QED
      BY <1>0, <2>1, <2>2, <2>3, LenProperties, AppendProperties
  <1>3. /\ \A x \in Keys(rel) : rel.items[x].order \in Nat
        /\ \A x, y \in Keys(rel) : rel.items[x].order = rel.items[y].order => x = y
        /\ cursor \in Nat
    BY Zenon DEF Inv, Sound, Ordered, TypeOK, IsState, StateLike, IndexOn
  <1>4. /\ \A i \in 1 .. n : Resent(i) \/ (Released(i) /\ Place(rel, i) <= cursor)
        /\ \A x \in Keys(unacked) : \E i \in 1 .. n : Resent(i) /\ events[i].id = x
        /\ \A x \in Keys(rel) : rel.items[x].order <= cursor =>
              \E i \in 1 .. n : Released(i) /\ events[i].id = x
        /\ \A i, j \in 1 .. n : i < j => Before(i, j)
    BY <1>1, <1>2, Zenon DEF Collected
  <1>5. \A i \in 1 .. n : /\ Resent(i)' = Resent(i)
                          /\ Released(i)' = Released(i)
                          /\ Place(rel, i)' = Place(rel, i)
                          /\ Place(unacked, i)' = Place(unacked, i)
    BY <1>1, <1>2, Zenon DEF Resent, Released, Place
  <1>6. Released(n + 1)' /\ ~Resent(n + 1)' /\ Place(rel, n + 1)' = cursor'
    BY <1>1, <1>2, Zenon DEF Resent, Released, Place
  <1>7. ASSUME NEW i \in 1 .. n + 1
        PROVE  Resent(i)' \/ (Released(i)' /\ Place(rel, i)' <= cursor')
    <2>1. CASE i \in 1 .. n
      <3>1. CASE Resent(i)
        BY <1>5, <2>1, <3>1, Zenon
      <3>2. CASE ~Resent(i)
        <4>1. /\ Released(i) /\ Place(rel, i) <= cursor
              /\ events[i].id \in Keys(rel)
              /\ Place(rel, i) = rel.items[events[i].id].order
          BY <1>4, <2>1, <3>2, Zenon DEF Released, Place
        <4>2. Place(rel, i) \in Nat /\ cursor \in Nat /\ cursor' \in Nat /\ cursor < cursor'
          BY <1>1, <1>3, <4>1, Zenon
        <4> QED
          BY <1>5, <2>1, <4>1, <4>2
      <3> QED
        BY <3>1, <3>2, Zenon
    <2>2. CASE i = n + 1
      BY <1>1, <1>3, <1>6, <2>2, Zenon
    <2> QED
      BY <1>2, <2>1, <2>2
  <1>8. ASSUME NEW x \in Keys(unacked)
        PROVE  \E i \in 1 .. n + 1 : Resent(i)' /\ events'[i].id = x
    <2>1. PICK i \in 1 .. n : Resent(i) /\ events[i].id = x
      BY <1>4, Zenon
    <2> QED
      BY <1>2, <1>5, <2>1
  <1>9. ASSUME NEW x \in Keys(rel), rel.items[x].order <= cursor'
        PROVE  \E i \in 1 .. n + 1 : Released(i)' /\ events'[i].id = x
    <2>1. CASE rel.items[x].order <= cursor
      <3>1. PICK i \in 1 .. n : Released(i) /\ events[i].id = x
        BY <1>4, <2>1, Zenon
      <3> QED
        BY <1>2, <1>5, <3>1
    <2>2. CASE ~(rel.items[x].order <= cursor)
      <3>1. rel.items[x].order = rel.items[k].order
        <4>1. rel.items[x].order \in Nat /\ rel.items[k].order \in Nat /\ cursor \in Nat
          BY <1>1, <1>3, Zenon
        <4>2. rel.items[k].order <= rel.items[x].order
          BY <1>1, <2>2, <4>1
        <4> QED
          BY <1>1, <1>9, <4>1, <4>2
      <3>2. x = k
        BY <1>1, <1>3, <3>1, Zenon
      <3> QED
        BY <1>2, <1>6, <3>2
    <2> QED
      BY <2>1, <2>2, Zenon
  <1>10. ASSUME NEW i \in 1 .. n + 1, NEW j \in 1 .. n + 1, i < j
         PROVE  Before(i, j)'
    <2>1. i \in 1 .. n
      BY <1>2, <1>10
    <2>2. CASE j \in 1 .. n
      <3>1. Before(i, j)
        BY <1>4, <1>10, <2>1, <2>2, Zenon
      <3> QED
        BY <1>1, <1>5, <2>1, <2>2, <3>1, Zenon DEF Before
    <2>3. CASE j = n + 1
      <3>1. CASE Resent(i)
        BY <1>5, <1>6, <2>1, <2>3, <3>1, Zenon DEF Before
      <3>2. CASE ~Resent(i)
        <4>1. /\ Place(rel, i) <= cursor /\ Place(rel, i) \in Nat
              /\ ~Resent(i)'
          BY <1>3, <1>4, <1>5, <2>1, <3>2, Zenon DEF Place, Released
        <4>2. Place(rel, i)' < Place(rel, j)'
          <5>1. cursor \in Nat /\ cursor' \in Nat /\ cursor < cursor'
            BY <1>1, <1>3, Zenon
          <5> QED
            BY <1>5, <1>6, <2>1, <2>3, <4>1, <5>1
        <4> QED
          BY <1>6, <2>3, <4>1, <4>2, Zenon DEF Before
      <3> QED
        BY <3>1, <3>2, Zenon
    <2> QED
      BY <1>2, <2>2, <2>3
  <1>11. status' = "resend_pubrel" /\ DOMAIN events' = 1 .. n + 1 /\ state' = state
    BY <1>1, <1>2, Zenon
  <1> QED
    BY <1>7, <1>8, <1>9, <1>10, <1>11, Zenon DEF Collected

(* Every step keeps what has been collected in step with the loop.         *)
LEMMA NextCollected == Inv /\ Collected /\ [Next]_vars => Collected'
  <1> SUFFICES ASSUME Inv, Collected, [Next]_vars PROVE Collected'
    BY Zenon
  <1>1. CASE IntoOnline
    <2>1. /\ status' = "resend" /\ cursor' = 0 /\ events' = << >>
          /\ state'.waiting_to_be_acked = state.waiting_to_be_acked
      <3>1. state \in StateLike(state)
        BY Zenon DEF Inv, Sound, IsState
      <3> QED
        BY <1>1, <3>1, Zenon DEF IntoOnline, Quiet, StateLike
    <2>2. \A k \in Keys(state.waiting_to_be_acked) :
             ~(state.waiting_to_be_acked.items[k].order <= 0)
      BY OrdersPositive, Zenon
    <2>3. /\ DOMAIN events' = {}
          /\ \A k \in Keys(state'.waiting_to_be_acked) :
                ~(state'.waiting_to_be_acked.items[k].order <= cursor')
      BY <2>1, <2>2
    <2> QED
      BY <2>1, <2>3, Zenon DEF Collected
  <1>2. ASSUME NEW k \in Id, ResendPublish(k) PROVE Collected'
    BY <1>2, ResendPublishCollected, Zenon
  <1>3. CASE ResendPublishDone
    <2>1. /\ status = "resend" /\ status' = "resend_pubrel" /\ cursor' = 0
          /\ AtEnd(state.waiting_to_be_acked, cursor)
          /\ UNCHANGED <<state, events>>
      BY <1>3, Zenon DEF ResendPublishDone
    <2>2. \A k \in Keys(state.waiting_to_be_completed) :
             ~(state.waiting_to_be_completed.items[k].order <= 0)
      BY OrdersPositive, Zenon
    <2>3. /\ \A i \in DOMAIN events : Resent(i)
          /\ \A k \in Keys(state.waiting_to_be_acked) :
                \E i \in DOMAIN events : Resent(i) /\ events[i].id = k
          /\ \A i, j \in DOMAIN events : i < j => Before(i, j)
      BY <2>1, Zenon DEF Collected, AtEnd
    <2> QED
      BY <2>1, <2>2, <2>3, CollectedFrame, ZenonT(30) DEF Collected
  <1>4. ASSUME NEW k \in Id, ResendPubRel(k) PROVE Collected'
    BY <1>4, ResendPubRelCollected, Zenon
  <1>5. CASE UNCHANGED vars
    <2>1. UNCHANGED <<state, status, cursor, events>>
      BY <1>5, Zenon DEF vars
    <2>2. CASE status = "resend"
      BY <2>1, <2>2, CollectedFrame, ZenonT(30) DEF Collected
    <2>3. CASE status = "resend_pubrel"
      BY <2>1, <2>3, CollectedFrame, ZenonT(30) DEF Collected
    <2>4. CASE status \notin {"resend", "resend_pubrel"}
      BY <2>1, <2>4, Zenon DEF Collected
    <2> QED
      BY <2>2, <2>3, <2>4, Zenon
  <1>6. CASE status' \notin {"resend", "resend_pubrel"}
    BY <1>6, Zenon DEF Collected
  <1>7. ASSUME Next,
               ~IntoOnline, ~ResendPublishDone,
               \A k \in Id : ~ResendPublish(k) /\ ~ResendPubRel(k)
        PROVE  status' \notin {"resend", "resend_pubrel"}
    BY <1>7, Zenon DEF Next, Publish, PublishOnline, PublishOffline, Acknowledge, HandlePubAck0,
                HandlePubAck, HandlePubRec, HandlePubComp, HandlePublish, HandlePubRel,
                SubscribeTo, Unsubscribe, CloseSession, CleanSession, Resume,
                ResendPubRelDone, Drain, Resumed, Restart, LoadQueued, Loaded, Idle
  <1> QED
    BY <1>1, <1>2, <1>3, <1>4, <1>5, <1>6, <1>7, Zenon

(* A resumed session sends again exactly what is outstanding, in order.    *)
THEOREM RedeliveryCompleteHolds == Spec => []RedeliveryComplete
  <1>1. Init => Collected
    BY Zenon DEF Init, Collected
  <1>2. Inv /\ Collected => RedeliveryComplete
    BY Zenon DEF Collected, RedeliveryComplete, AtEnd
  <1> QED
    BY <1>1, <1>2, InvHolds, NextCollected, PTL DEF Spec
=============================================================================
