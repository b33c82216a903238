------------------------------ MODULE HubProofs ------------------------------
(***************************************************************************)
(* The store of the Edge Hub, for any messages, routes, endpoints,         *)
(* priorities and batch sizes, and any number of crashes and faults: no    *)
(* message is lost before its queue is done with it, and messages of one   *)
(* client, or for a module all messages, are settled in the order of the   *)
(* queue.                                                                  *)
(***************************************************************************)
EXTENDS HubPumpProofs
-----------------------------------------------------------------------------
(* Dispatching.                                                            *)

(* A step that moves nothing in a queue, and by which queues may be done   *)
(* with more messages.                                                     *)
LEMMA QueuesFrame ==
  ASSUME HubInv, UNCHANGED <<stored, at, saved, head, tail, offset, reader, pump, settled>>,
         \A q \in Queues : expired[q] \subseteq expired'[q], torn \subseteq torn'
  PROVE  /\ \A q \in Queues : Laid(q)' /\ ReadOn(q)'
         /\ \A e \in Endpoints : Pumping(e)'
         /\ cleaner' = cleaner => Cleaning'
<1>1. \A q \in Queues : Done(q) \subseteq Done(q)'
  BY Zenon DEF Done
<1>2. ASSUME NEW q \in Queues PROVE Laid(q)' /\ ReadOn(q)'
  <2>1. Laid(q)'
    BY DEF HubInv, Laid
  <2>2. InPump(q)' = InPump(q)
    BY Zenon DEF InPump, Current
  <2> QED BY <1>1, <2>1, <2>2, ReadOnFrame, Zenon DEF HubInv
<1>3. \A e \in Endpoints : Pumping(e)'
  BY Zenon DEF HubInv, Pumping, Admitted, Current
<1>4. cleaner' = cleaner => Cleaning'
  BY <1>1, Zenon DEF HubInv, Cleaning
<1> QED BY <1>2, <1>3, <1>4, Zenon

(* A message is routed for the first time.                                 *)
LEMMA DispatchInv == ASSUME HubInv, NEW m \in Messages, Dispatch(m) PROVE HubInv'
<1>1. /\ m \notin sent /\ sent' = sent \cup {m} /\ toPut' = toPut \cup ({m} \X Route[m])
      /\ UNCHANGED <<disk, head, tail, offset, reader, pump, toAppend, cleaner, settled, expired, torn>>
  BY Zenon DEF Dispatch, sending, past
<1>2. Route[m] \subseteq Queues
  BY StoreForwardAssumption, Zenon
<1>3. Typed'
  BY <1>1, <1>2, Zenon DEF HubInv, Typed, disk
<1>4. Dispatched'
  <2>1. \A n \in Messages, q \in Queues : <<n, q>> \in toPut' => <<n, q>> \in toPut \/ n = m
    BY <1>1, Zenon
  <2>2. \A q \in Queues : at[q][m] \in Int /\ ~(at[q][m] >= 0) /\ <<m, q>> \notin toAppend
    BY <1>1 DEF HubInv, Typed, Dispatched
  <2>3. toPut' \cap toAppend' = {}
    <3>1. toPut \cap toAppend = {} /\ toAppend' = toAppend
      BY <1>1, Zenon DEF HubInv, Dispatched
    <3> QED BY <1>1, <1>2, <2>2, <3>1
  <2> QED BY <1>1, <2>1, <2>2, <2>3 DEF HubInv, Dispatched, disk
<1>5. Counted'
  <2>1. \A n : Refs(n)' = Refs(n)
    BY <1>1, Zenon DEF Refs, CountedOff, disk
  <2> QED BY <1>1, <2>1, Zenon DEF HubInv, Counted, disk
<1> QED BY <1>1, <1>3, <1>4, <1>5, QueuesFrame, Zenon DEF HubInv, disk

(* The body is put, or counts one more reference.                          *)
LEMMA PutBodyInv == ASSUME HubInv, NEW m \in Messages, NEW q \in Queues, PutBody(m, q) PROVE HubInv'
<1>1. /\ <<m, q>> \in toPut /\ toPut' = toPut \ {<<m, q>>} /\ toAppend' = toAppend \cup {<<m, q>>}
      /\ body' = body \cup {m} /\ count' = [count EXCEPT ![m] = IF m \in body THEN @ + 1 ELSE 1]
      /\ torn' = IF cleaner.state = "body" /\ cleaner.msg = m THEN torn \cup {m} ELSE torn
      /\ UNCHANGED <<stored, at, saved, head, tail, offset, reader, pump, cleaner, sent, settled, expired>>
  BY Zenon DEF PutBody, sending
<1>2. Typed'
  BY <1>1 DEF HubInv, Typed
<1>3. Dispatched'
  BY <1>1, Zenon DEF HubInv, Dispatched
<1>4. \A n \in Messages \ {m} : Refs(n)' = Refs(n)
  BY <1>1, Zenon DEF Refs, CountedOff
<1>5. Refs(m)' = Refs(m) \cup {q}
  BY <1>1, Zenon DEF Refs, CountedOff
<1>6. /\ count'[m] = IF m \in body THEN count[m] + 1 ELSE 1
      /\ \A n \in Messages \ {m} : count'[n] = count[n]
  BY <1>1, Zenon DEF HubInv, Typed
<1>7. m \notin torn => Cardinality(Refs(m)') <= count'[m]
  <2>1. PICK S \in SUBSET Queues : S = Refs(m)
    BY Zenon DEF Refs
  <2>2. Cardinality(S) \in Nat /\ Cardinality(S \cup {q}) \in Nat /\ count[m] \in Nat
    BY Finite, Zenon DEF HubInv, Typed
  <2>3. Cardinality(S \cup {q}) <= Cardinality(S) + 1
    BY CountRefs, Zenon
  <2>4. m \notin torn => IF m \in body THEN Cardinality(S) <= count[m] ELSE Cardinality(S) = 0
    BY <2>1, CountRefs, Zenon DEF HubInv, Counted
  <2>5. CASE m \in body
    BY <1>5, <1>6, <2>1, <2>2, <2>3, <2>4, <2>5
  <2>6. CASE m \notin body
    BY <1>5, <1>6, <2>1, <2>2, <2>3, <2>4, <2>6
  <2> QED BY <2>5, <2>6, Zenon
<1>8. Counted'
  <2>1. ASSUME NEW n \in Messages \ torn'
        PROVE  /\ n \in body' => Cardinality(Refs(n))' <= count'[n]
               /\ n \notin body' => Refs(n)' = {}
    <3>1. n \notin torn
      BY <1>1, <2>1, Zenon
    <3>2. CASE n = m
      BY <1>1, <1>7, <3>1, <3>2, Zenon
    <3>3. CASE n # m
      BY <1>1, <1>4, <1>6, <3>1, <3>3, Zenon DEF HubInv, Counted
    <3> QED BY <3>2, <3>3, Zenon
  <2>2. ASSUME cleaner'.state = "body", cleaner'.msg \notin torn' PROVE Refs(cleaner.msg)' = {}
    <3>1. cleaner' = cleaner /\ cleaner.msg \notin torn /\ cleaner.msg # m
      BY <1>1, <2>2, Zenon
    <3>2. cleaner.msg \in Messages
      BY <2>2, <3>1, Zenon DEF HubInv, Cleaning, Typed
    <3>3. Refs(cleaner.msg) = {}
      BY <2>2, <3>1, Zenon DEF HubInv, Counted
    <3>4. PICK n \in Messages \ {m} : n = cleaner.msg
      BY <3>1, <3>2, Zenon
    <3> QED BY <1>4, <3>1, <3>3, <3>4, Zenon
  <2> QED BY <2>1, <2>2, Zenon DEF Counted
<1>9. torn \subseteq torn'
  BY <1>1, Zenon
<1> QED BY <1>1, <1>2, <1>3, <1>8, <1>9, QueuesFrame, Zenon DEF HubInv

(* The reference is appended at the tail of its queue.                     *)
LEMMA AppendRefInv == ASSUME HubInv, NEW m \in Messages, NEW q \in Queues, AppendRef(m, q) PROVE HubInv'
<1>1. /\ <<m, q>> \in toAppend /\ toAppend' = toAppend \ {<<m, q>>}
      /\ stored' = [stored EXCEPT ![q] = @ \cup {m}] /\ at' = [at EXCEPT ![q][m] = tail[q] + 1]
      /\ tail' = [tail EXCEPT ![q] = @ + 1]
      /\ UNCHANGED <<body, count, saved, head, offset, reader, pump, toPut, cleaner, sent, settled, expired, torn>>
  BY Zenon DEF AppendRef, sending
<1>2. /\ at[q][m] \in Int /\ at[q][m] < 0 /\ m \in sent /\ m \notin stored[q] /\ <<m, q>> \notin toPut
      /\ tail[q] \in Int /\ tail[q] + 1 >= 0
  <2>1. at[q][m] < 0 /\ m \in sent /\ <<m, q>> \notin toPut /\ (m \in stored[q] => at[q][m] >= 0)
    BY <1>1, Zenon DEF HubInv, Dispatched
  <2> QED BY <2>1, Offsets
<1>3. /\ at' \in [Queues -> [Messages -> Int]] /\ at'[q][m] = tail[q] + 1
      /\ \A n \in Messages : n # m => at'[q][n] = at[q][n]
      /\ \A p \in Queues \ {q} : at'[p] = at[p]
  BY <1>1, <1>2 DEF HubInv, Typed
<1>4. /\ stored' \in [Queues -> SUBSET Messages] /\ stored'[q] = stored[q] \cup {m}
      /\ tail' \in [Queues -> Int] /\ tail'[q] = tail[q] + 1
      /\ \A p \in Queues \ {q} : stored'[p] = stored[p] /\ tail'[p] = tail[p]
  BY <1>1 DEF HubInv, Typed
<1>5. Typed'
  BY <1>1, <1>3, <1>4, Zenon DEF HubInv, Typed
<1>6. Dispatched'
  <2>1. ASSUME NEW n \in Messages, NEW p \in Queues, n # m \/ p # q
        PROVE  at'[p][n] = at[p][n] /\ (n \in stored'[p] => n \in stored[p])
    BY <1>3, <1>4, <2>1, Zenon
  <2>2. toPut' \cap toAppend' = {}
    BY <1>1, Zenon DEF HubInv, Dispatched
  <2>3. ASSUME NEW n \in Messages, NEW p \in Queues
        PROVE  /\ <<n, p>> \in toPut' \cup toAppend' => n \in sent' /\ at'[p][n] < 0
               /\ at'[p][n] >= 0 => n \in sent'
               /\ n \in stored'[p] => at'[p][n] >= 0
    <3>1. CASE n = m /\ p = q
      BY <1>1, <1>2, <1>3, <3>1, Zenon
    <3>2. CASE n # m \/ p # q
      BY <1>1, <2>1, <3>2, Zenon DEF HubInv, Dispatched
    <3> QED BY <3>1, <3>2, Zenon
  <2> QED BY <2>2, <2>3, Zenon DEF Dispatched
<1>7. Done(q)' = Done(q) /\ \A p \in Queues : Done(p)' = Done(p) /\ InPump(p)' = InPump(p)
  BY <1>1, Zenon DEF Done, InPump, Current
<1>8. Cleaning'
  <2>1. ASSUME cleaner.state # "idle", cleaner.queue = q, CheckEntireQueue
        PROVE  ~(at'[q][m] <= cleaner.upto)
    <3>1. cleaner.upto \in Int /\ cleaner.upto <= saved[q]
      BY <2>1, Zenon DEF HubInv, Typed, Cleaning
    <3> QED BY <1>3, <3>1, Offsets
  <2>2. CASE cleaner.state # "idle" /\ cleaner.queue = q
    <3>1. \A n \in stored[q] : at'[q][n] = at[q][n]
      BY <1>2, <1>3, Zenon DEF HubInv, Typed
    <3> QED BY <1>1, <1>4, <1>7, <2>1, <2>2, <3>1 DEF HubInv, Cleaning
  <2>3. CASE cleaner.state = "idle" \/ cleaner.queue # q
    BY <1>1, <1>3, <1>4, <1>7, <2>3, Zenon DEF HubInv, Cleaning
  <2> QED BY <2>2, <2>3, Zenon
<1>9. Counted'
  <2>1. ~CountedOff(q, m)
    BY <1>2, Zenon DEF HubInv, Cleaning, CountedOff
  <2>2. \A n : Refs(n)' = Refs(n)
    BY <1>1, <1>4, <2>1, Zenon DEF Refs, CountedOff
  <2> QED BY <1>1, <2>2, Zenon DEF HubInv, Counted
<1>10. Laid(q)'
  <2>1. \A n \in stored[q] : n \in Messages /\ at[q][n] \in Int /\ at'[q][n] = at[q][n] /\ at[q][n] <= tail[q]
    <3>1. stored[q] \subseteq Messages /\ \A n \in stored[q] : at[q][n] <= tail[q]
      BY Offsets, Zenon DEF HubInv, Laid
    <3> QED BY <1>2, <1>3, <3>1, Offsets, Zenon
  <2>2. \A i \in head[q] .. tail[q] + 1 : \E n \in stored'[q] : at'[q][n] = i
    <3> TAKE i \in head[q] .. tail[q] + 1
    <3>1. CASE i = tail[q] + 1
      BY <1>3, <1>4, <3>1, Zenon
    <3>2. CASE i # tail[q] + 1
      BY <1>2, <1>4, <2>1, <3>2 DEF HubInv, Laid
    <3> QED BY <3>1, <3>2, Zenon
  <2>3. \A n \in stored'[q] : head[q] <= at'[q][n] /\ at'[q][n] <= tail'[q]
    <3>1. head[q] \in Int /\ head[q] <= tail[q] + 1 /\ \A n \in stored[q] : head[q] <= at[q][n]
      BY Zenon DEF HubInv, Typed, Laid
    <3> QED BY <1>2, <1>3, <1>4, <2>1, <3>1
  <2>4. \A n, k \in stored'[q] : at'[q][n] = at'[q][k] => n = k
    <3>1. \A n, k \in stored[q] : at[q][n] = at[q][k] => n = k
      BY Zenon DEF HubInv, Laid
    <3> QED BY <1>2, <1>3, <1>4, <2>1, <3>1
  <2>5. /\ head[q] <= tail'[q] + 1
        /\ -1 <= saved[q] /\ saved[q] <= offset[q] /\ offset[q] <= tail'[q]
        /\ reader[q].next <= tail'[q] + 1
    <3>1. head[q] \in Int /\ offset[q] \in Int /\ reader[q].next \in Int
      BY Fields, Zenon DEF HubInv, Typed
    <3> QED BY <1>2, <1>4, <3>1 DEF HubInv, Laid
  <2> QED BY <1>1, <1>4, <2>2, <2>3, <2>4, <2>5, Zenon DEF Laid
<1>11. ReadOn(q)'
  <2>1. ReadOn(q) /\ reader[q].next \in Int /\ reader[q].next <= tail[q] + 1
    BY Fields, Zenon DEF HubInv, Laid
  <2>2. reader[q].batch \cup InPump(q) \subseteq Messages \ {m}
    <3>1. reader[q].batch \cup InPump(q) \subseteq Messages
      BY Fields, QueueParts, Zenon DEF HubInv, InPump
    <3> QED BY <1>2, <2>1, <3>1 DEF ReadOn
  <2>3. \A n \in Messages \ {m} : at'[q][n] = at[q][n] /\ (Pending(q, n)' <=> Pending(q, n))
    BY <1>3, <1>7, Zenon DEF Pending
  <2>4. at'[q][m] > offset[q] /\ ~(at'[q][m] < reader[q].next)
    <3>1. reader[q].next <= tail[q] + 1
      BY Zenon DEF HubInv, Laid
    <3> QED BY <1>3, <3>1, Offsets
  <2>5. ASSUME NEW n \in Messages, Pending(q, n)'
        PROVE  /\ n \in stored'[q] /\ at'[q][n] > offset[q]
               /\ at'[q][n] < reader[q].next => n \in reader[q].batch \cup InPump(q)
    <3>1. CASE n = m
      BY <1>4, <2>4, <3>1, Zenon
    <3>2. CASE n # m
      BY <1>4, <2>1, <2>3, <2>5, <3>2, Zenon DEF ReadOn
    <3> QED BY <3>1, <3>2, Zenon
  <2>6. /\ \A n \in reader[q].batch \cup InPump(q) : at'[q][n] >= 0 /\ at'[q][n] < reader[q].next
        /\ \A n \in InPump(q), k \in reader[q].batch : at'[q][n] < at'[q][k]
    BY <2>1, <2>2, <2>3, Zenon DEF ReadOn
  <2> QED BY <1>1, <1>7, <2>5, <2>6, Zenon DEF ReadOn
<1>12. ASSUME NEW p \in Queues \ {q} PROVE Laid(p)' /\ ReadOn(p)'
  <2>1. Laid(p)'
    <3>1. /\ at'[p] = at[p] /\ stored'[p] = stored[p] /\ tail'[p] = tail[p]
          /\ UNCHANGED <<head, saved, offset, reader>>
      BY <1>1, <1>3, <1>4, Zenon DEF disk
    <3>2. Laid(p)
      BY Zenon DEF HubInv
    <3> QED BY <3>1, <3>2, Zenon DEF Laid
  <2> QED BY <1>1, <1>3, <1>4, <1>7, <2>1, ReadOnFrame DEF HubInv
<1>13. ASSUME NEW e \in Endpoints PROVE Pumping(e)'
  <2>1. ASSUME NEW p \in Queues, NEW n \in InPump(p) PROVE at'[p][n] = at[p][n]
    <3>1. n \in Messages /\ at[p][n] >= 0
      BY Fields, QueueParts, Zenon DEF HubInv, ReadOn, InPump
    <3> QED BY <1>2, <1>3, <3>1
  <2> QED BY <1>1, <2>1, PumpingFrame, Zenon DEF HubInv
<1> QED BY <1>5, <1>6, <1>8, <1>9, <1>10, <1>11, <1>12, <1>13, Zenon DEF HubInv

(* The body of a message whose reference cannot be written goes, and the   *)
(* message is torn.                                                        *)
LEMMA AppendRefFailsInv ==
  ASSUME HubInv, NEW m \in Messages, NEW q \in Queues, AppendRefFails(m, q)
  PROVE  HubInv'
<1>1. /\ toAppend' = toAppend \ {<<m, q>>} /\ body' = body \ {m} /\ torn' = torn \cup {m}
      /\ UNCHANGED <<count, stored, at, saved, head, tail, offset, reader, pump, toPut, cleaner, sent, settled, expired>>
  BY Zenon DEF AppendRefFails, sending
<1>2. Typed' /\ Dispatched'
  BY <1>1, Zenon DEF HubInv, Typed, Dispatched
<1>3. \A n : n # m => Refs(n)' = Refs(n)
  BY <1>1, Zenon DEF Refs, CountedOff
<1>4. Counted'
  BY <1>1, <1>3, Zenon DEF HubInv, Counted
<1> QED BY <1>1, <1>2, <1>4, QueuesFrame, Zenon DEF HubInv

(* The time to live of a message ends.                                     *)
LEMMA ExpireInv == ASSUME HubInv, NEW m \in Messages, NEW q \in Queues, Expire(m, q) PROVE HubInv'
<1>1. /\ m \in Expiring /\ expired' = [expired EXCEPT ![q] = @ \cup {m}]
      /\ UNCHANGED <<body, count, stored, at, saved, head, tail, offset, reader, pump, toPut, toAppend, cleaner,
                     sent, settled, torn>>
  BY Zenon DEF Expire, sending, disk
<1>2. expired' \in [Queues -> SUBSET Expiring] /\ \A p \in Queues : expired[p] \subseteq expired'[p]
  BY <1>1, Zenon DEF HubInv, Typed
<1>3. Typed' /\ Dispatched'
  BY <1>1, <1>2, Zenon DEF HubInv, Typed, Dispatched
<1>4. Counted'
  <2>1. \A n : Refs(n)' = Refs(n)
    BY <1>1, Zenon DEF Refs, CountedOff
  <2> QED BY <1>1, <2>1, Zenon DEF HubInv, Counted
<1> QED BY <1>1, <1>2, <1>3, <1>4, QueuesFrame, Zenon DEF HubInv
-----------------------------------------------------------------------------
(* The cleanup.                                                            *)

(* The fields of the cleanup.                                              *)
LEMMA CleanerFields ==
  ASSUME NEW s, NEW q, NEW u, NEW m, NEW e, NEW t
  PROVE  /\ Cleaner(s, q, u, m, e, t).state = s /\ Cleaner(s, q, u, m, e, t).queue = q
         /\ Cleaner(s, q, u, m, e, t).upto = u /\ Cleaner(s, q, u, m, e, t).msg = m
         /\ Cleaner(s, q, u, m, e, t).end = e /\ Cleaner(s, q, u, m, e, t).todo = t
  BY Zenon DEF Cleaner

(* No entry of a queue is left out of what the cleanup is to look at.      *)
LEMMA AllListed ==
  ASSUME HubInv, NEW q \in Queues, NEW m \in stored[q]
  PROVE  m \in GetBatch(q, head[q], Cardinality(Messages))
<1>1. /\ head[q] \in Int /\ tail[q] \in Int /\ at[q][m] \in Int /\ m \in Messages /\ stored[q] \subseteq Messages
      /\ head[q] <= at[q][m] /\ at[q][m] <= tail[q]
  BY Offsets, Zenon DEF HubInv, Laid
<1> DEFINE S == {k \in stored[q] : at[q][k] >= head[q]}
           T == {k \in S : at[q][k] < at[q][m]}
<1>2. m \in S /\ T \in SUBSET Messages /\ T # Messages
  BY <1>1
<1>3. IsFiniteSet(Messages) /\ Cardinality(T) \in Nat /\ Cardinality(Messages) \in Nat
  BY <1>2, Finite, Zenon
<1>4. Cardinality(T) < Cardinality(Messages)
  BY <1>2, <1>3, FS_Subset
<1>5. m \in First(q, S, Cardinality(Messages))
  BY <1>2, <1>4, Zenon DEF First
<1> QED BY <1>1, <1>5 DEF GetBatch

(* The cleanup comes to a queue.                                           *)
LEMMA CleanQueueInv == ASSUME HubInv, NEW q \in Queues, CleanQueue(q) PROVE HubInv'
<1> DEFINE todo == IF CheckEntireQueue THEN GetBatch(q, head[q], Cardinality(Messages)) ELSE {}
<1>1. /\ cleaner.state = "idle" /\ cleaner' = Cleaner("look", q, saved[q], None, "head", todo)
      /\ UNCHANGED <<body, count, stored, at, saved, head, tail, offset, reader, pump, toPut, toAppend,
                     sent, settled, expired, torn>>
  BY Zenon DEF CleanQueue, disk, sending, past
<1>2. todo \subseteq Messages
  BY Zenon DEF GetBatch, First, HubInv, Typed
<1>3. CheckEntireQueue => stored[q] \subseteq todo
  BY AllListed, Zenon
<1> HIDE DEF todo
<1>4. cleaner'.state = "look" /\ cleaner'.queue = q /\ cleaner'.upto = saved[q] /\ cleaner'.todo = todo
  BY <1>1, CleanerFields
<1>5. Typed' /\ Dispatched'
  BY <1>1, <1>2, <1>4, Zenon DEF HubInv, Typed, Dispatched
<1>6. Counted'
  BY <1>1, <1>4, Zenon DEF HubInv, Counted, Refs, CountedOff
<1>7. Cleaning'
  <2>1. saved[q] \in Int
    BY Zenon DEF HubInv, Typed
  <2> QED BY <1>1, <1>3, <1>4, <2>1 DEF Cleaning
<1> QED BY <1>1, <1>5, <1>6, <1>7, QueuesFrame, Zenon DEF HubInv

(* The cleanup passes over an entry, or ends.                              *)
LEMMA KeepEntryInv == ASSUME HubInv, KeepEntry PROVE HubInv'
<1>1. /\ cleaner.state = "look"
      /\ UNCHANGED <<body, count, stored, at, saved, head, tail, offset, reader, pump, toPut, toAppend,
                     sent, settled, expired, torn>>
  BY Zenon DEF KeepEntry, disk, sending, past
<1>2. PICK q \in Queues : q = cleaner.queue
  BY <1>1, Zenon DEF HubInv, Cleaning
<1>3. /\ cleaner.upto \in Int /\ cleaner.todo \subseteq Messages /\ cleaner.upto <= saved[q]
      /\ CheckEntireQueue => \A m \in stored[q] : at[q][m] <= cleaner.upto => m \in cleaner.todo
  BY <1>1, <1>2, Zenon DEF HubInv, Typed, Cleaning
<1>4. CASE cleaner' = NotCleaning
  <2>1. cleaner'.state = "idle" /\ cleaner'.upto = -1 /\ cleaner'.todo = {}
    BY <1>4, CleanerFields DEF NotCleaning
  <2>2. Typed' /\ Dispatched' /\ Cleaning'
    BY <1>1, <2>1 DEF HubInv, Typed, Dispatched, Cleaning
  <2>3. Counted'
    BY <1>1, <2>1, Zenon DEF HubInv, Counted, Refs, CountedOff
  <2> QED BY <1>1, <2>2, <2>3, QueuesFrame, Zenon DEF HubInv
<1>5. ASSUME \A m \in Candidates : ~Removable(q, m),
             cleaner' = Cleaner("look", q, cleaner.upto, cleaner.msg, cleaner.end,
                                cleaner.todo \ First(q, cleaner.todo, 1))
      PROVE  HubInv'
  <2>1. /\ cleaner'.state = "look" /\ cleaner'.queue = q /\ cleaner'.upto = cleaner.upto
        /\ cleaner'.todo = cleaner.todo \ First(q, cleaner.todo, 1)
    BY <1>5, CleanerFields
  <2>2. ASSUME CheckEntireQueue, NEW m \in stored[q], at[q][m] <= cleaner.upto
        PROVE  m \in cleaner.todo \ First(q, cleaner.todo, 1)
    <3>1. m \in cleaner.todo /\ Removable(q, m)
      BY <1>3, <2>2, Zenon DEF Removable
    <3>2. ~(head[q] > tail[q])
      <4>1. head[q] <= at[q][m] /\ at[q][m] <= tail[q] /\ at[q][m] \in Int
        BY Offsets, Zenon DEF HubInv, Laid
      <4> QED BY <4>1, Offsets
    <3>3. m \notin First(q, cleaner.todo, 1)
      BY <1>2, <1>5, <2>2, <3>1, <3>2, Zenon DEF Candidates
    <3> QED BY <3>1, <3>3, Zenon
  <2>3. Typed' /\ Dispatched'
    BY <1>1, <1>3, <2>1, Zenon DEF HubInv, Typed, Dispatched
  <2>4. Cleaning'
    BY <1>1, <1>3, <2>1, <2>2, Zenon DEF Cleaning
  <2>5. Counted'
    BY <1>1, <2>1, Zenon DEF HubInv, Counted, Refs, CountedOff
  <2> QED BY <1>1, <2>3, <2>4, <2>5, QueuesFrame, Zenon DEF HubInv
<1> QED BY <1>2, <1>4, <1>5, Zenon DEF KeepEntry

(* What may be removed from a queue is done with, and, unless entries      *)
(* behind the head are looked at while messages expire, it is the head.    *)
LEMMA RemovesDone ==
  ASSUME Expiring = {} \/ ~CheckEntireQueue, HubInv, cleaner.state = "look",
         NEW q \in Queues, q = cleaner.queue, NEW m \in Candidates, Removable(q, m)
  PROVE  m \in stored[q] /\ m \in Done(q) /\ at[q][m] = head[q]
<1>1. m \in stored[q] /\ m \in Messages /\ cleaner.upto <= saved[q] /\ saved[q] <= offset[q]
  <2>1. m \in stored[q] /\ cleaner.upto <= saved[q]
    BY Zenon DEF Candidates, HubInv, Cleaning
  <2> QED BY <2>1, Offsets, Zenon
<1>2. /\ at[q][m] \in Int /\ at[q][m] >= 0 /\ cleaner.upto \in Int /\ saved[q] \in Int /\ offset[q] \in Int
      /\ head[q] \in Int /\ tail[q] \in Int
  <2>1. at[q][m] >= 0
    BY <1>1, Zenon DEF HubInv, Dispatched
  <2> QED BY <1>1, <2>1, Zenon DEF HubInv, Typed
<1>3. m \in Done(q)
  <2>1. CASE m \in expired[q]
    BY <2>1, Zenon DEF Done
  <2>2. CASE at[q][m] <= cleaner.upto
    <3>1. ~(at[q][m] > offset[q])
      BY <1>1, <1>2, <2>2
    <3> QED BY <1>1, <1>2, <3>1, Zenon DEF HubInv, ReadOn, Pending
  <2> QED BY <2>1, <2>2, Zenon DEF Removable
<1>4. at[q][m] = head[q]
  <2>1. CASE ~CheckEntireQueue
    BY <2>1, Zenon DEF Candidates
  <2>2. CASE CheckEntireQueue
    <3>1. at[q][m] <= cleaner.upto
      BY <2>2, Zenon DEF Removable, HubInv, Typed
    <3>2. head[q] <= at[q][m] /\ at[q][m] <= tail[q]
      BY <1>1, Zenon DEF HubInv, Laid
    <3>3. PICK k \in stored[q] : at[q][k] = head[q]
      <4>1. head[q] \in head[q] .. tail[q]
        BY <1>2, <3>2
      <4> QED BY <4>1, Zenon DEF HubInv, Laid
    <3>4. k \in cleaner.todo
      <4>1. at[q][k] <= cleaner.upto
        BY <1>2, <3>1, <3>2, <3>3
      <4> QED BY <2>2, <4>1, Zenon DEF HubInv, Cleaning
    <3> DEFINE B == {j \in cleaner.todo : at[q][j] < at[q][m]}
    <3>5. Cardinality(B) < 1
      BY <2>2, Zenon DEF Candidates, First
    <3>6. IsFiniteSet(B) /\ Cardinality(B) \in Nat
      BY Finite, Zenon DEF HubInv, Typed
    <3>7. B = {}
      BY <3>5, <3>6, FS_EmptySet
    <3> QED BY <1>2, <3>2, <3>3, <3>4, <3>7
  <2> QED BY <2>1, <2>2, Zenon
<1> QED BY <1>1, <1>3, <1>4, Zenon

(* The reference of a removable entry is counted off.                      *)
LEMMA CountOffInv == ASSUME Expiring = {} \/ ~CheckEntireQueue, HubInv, CountOff PROVE HubInv'
<1>1. PICK q \in Queues : q = cleaner.queue
  BY Zenon DEF CountOff, HubInv, Cleaning
<1>2. /\ cleaner.state = "look"
      /\ UNCHANGED <<body, stored, at, saved, head, tail, offset, reader, pump, toPut, toAppend,
                     sent, settled, expired, torn>>
  BY Zenon DEF CountOff, sending, past
<1>3. PICK m \in Candidates :
        /\ Removable(q, m) /\ m \in body
        /\ count' = [count EXCEPT ![m] = IF @ > 0 THEN @ - 1 ELSE @]
        /\ cleaner' = Cleaner(IF count'[m] = 0 THEN "body" ELSE "entry", q, cleaner.upto,
                              m, EndOf(q, m), cleaner.todo)
  BY <1>1, Zenon DEF CountOff
<1>4. m \in stored[q] /\ m \in Done(q) /\ at[q][m] = head[q] /\ m \in Messages
  BY <1>1, <1>2, <1>3, RemovesDone, Zenon DEF HubInv, Typed
<1>5. /\ cleaner'.state = IF count'[m] = 0 THEN "body" ELSE "entry"
      /\ cleaner'.queue = q /\ cleaner'.upto = cleaner.upto /\ cleaner'.msg = m
      /\ cleaner'.end = "head" /\ cleaner'.todo = cleaner.todo
  BY <1>3, <1>4, CleanerFields DEF EndOf
<1>6. /\ count' \in [Messages -> Nat] /\ count[m] \in Nat
      /\ count'[m] = IF count[m] > 0 THEN count[m] - 1 ELSE count[m]
      /\ \A n \in Messages \ {m} : count'[n] = count[n]
  BY <1>3, <1>4 DEF HubInv, Typed
<1>7. Typed' /\ Dispatched'
  BY <1>2, <1>5, <1>6, Zenon DEF HubInv, Typed, Dispatched
<1>8. Cleaning'
  <2>1. Done(q)' = Done(q)
    BY <1>2, Zenon DEF Done
  <2> QED BY <1>1, <1>2, <1>4, <1>5, <2>1, Zenon DEF HubInv, Cleaning
<1>9. /\ \A n \in Messages \ {m} : Refs(n)' = Refs(n)
      /\ Refs(m)' = Refs(m) \ {q} /\ q \in Refs(m)
  <2>1. <<m, q>> \notin toAppend
    BY <1>4 DEF HubInv, Dispatched, Typed
  <2> QED BY <1>2, <1>4, <1>5, <2>1, Zenon DEF Refs, CountedOff
<1>10. ASSUME m \notin torn
       PROVE  Cardinality(Refs(m)') <= count'[m] /\ (count'[m] = 0 => Refs(m)' = {})
  <2>1. PICK S \in SUBSET Queues : S = Refs(m)
    BY Zenon DEF Refs
  <2>2. Cardinality(S) \in Nat /\ Cardinality(S \ {q}) \in Nat /\ Cardinality(S \ {q}) = Cardinality(S) - 1
    BY <1>9, <2>1, Finite, CountRefs, Zenon
  <2>3. Cardinality(S) <= count[m]
    BY <1>3, <1>4, <1>10, <2>1, Zenon DEF HubInv, Counted
  <2>4. Cardinality(S \ {q}) <= count'[m]
    BY <1>6, <2>2, <2>3
  <2>5. count'[m] = 0 => S \ {q} = {}
    <3>1. PICK T \in SUBSET Queues : T = S \ {q}
      BY Zenon
    <3>2. Cardinality(T) = 0 <=> T = {}
      BY CountRefs, Zenon
    <3> QED BY <2>2, <2>4, <3>1, <3>2
  <2> QED BY <1>9, <2>1, <2>4, <2>5, Zenon
<1>11. Counted'
  <2>1. ASSUME NEW n \in Messages \ torn'
        PROVE  /\ n \in body' => Cardinality(Refs(n))' <= count'[n]
               /\ n \notin body' => Refs(n)' = {}
    <3>1. CASE n = m
      BY <1>2, <1>3, <1>10, <2>1, <3>1, Zenon
    <3>2. CASE n # m
      BY <1>2, <1>6, <1>9, <2>1, <3>2, Zenon DEF HubInv, Counted
    <3> QED BY <3>1, <3>2, Zenon
  <2>2. cleaner'.state = "body" /\ cleaner'.msg \notin torn' => Refs(m)' = {}
    BY <1>2, <1>5, <1>10, Zenon
  <2>3. Refs(cleaner.msg)' = Refs(m)'
    BY <1>5, Zenon
  <2> QED BY <2>1, <2>2, <2>3, Zenon DEF Counted
<1> QED BY <1>2, <1>7, <1>8, <1>11, QueuesFrame, Zenon DEF HubInv

(* The body without references is removed.                                 *)
LEMMA RemoveBodyInv == ASSUME HubInv, RemoveBody PROVE HubInv'
<1>1. /\ cleaner.state = "body" /\ body' = body \ {cleaner.msg}
      /\ cleaner' = Cleaner("entry", cleaner.queue, cleaner.upto, cleaner.msg, cleaner.end, cleaner.todo)
      /\ UNCHANGED <<count, stored, at, saved, head, tail, offset, reader, pump, toPut, toAppend,
                     sent, settled, expired, torn>>
  BY Zenon DEF RemoveBody, sending, past
<1>2. /\ cleaner'.state = "entry" /\ cleaner'.queue = cleaner.queue /\ cleaner'.upto = cleaner.upto
      /\ cleaner'.msg = cleaner.msg /\ cleaner'.end = cleaner.end /\ cleaner'.todo = cleaner.todo
  BY <1>1, CleanerFields
<1>3. Typed' /\ Dispatched'
  BY <1>1, <1>2, Zenon DEF HubInv, Typed, Dispatched
<1>4. Cleaning'
  <2>1. Done(cleaner.queue)' = Done(cleaner.queue)
    BY <1>1, <1>2, Zenon DEF Done
  <2> QED BY <1>1, <1>2, <2>1, Zenon DEF HubInv, Cleaning
<1>5. Counted'
  <2>1. \A n : Refs(n)' = Refs(n)
    BY <1>1, <1>2, Zenon DEF Refs, CountedOff
  <2> QED BY <1>1, <1>2, <2>1, Zenon DEF HubInv, Counted
<1> QED BY <1>1, <1>3, <1>4, <1>5, QueuesFrame, Zenon DEF HubInv

(* The head of a queue is removed.                                         *)
LEMMA RemoveEntryInv == ASSUME HubInv, RemoveEntry PROVE HubInv'
<1>1. PICK q \in Queues, m \in Messages : q = cleaner.queue /\ m = cleaner.msg
  BY Zenon DEF RemoveEntry, HubInv, Typed, Cleaning
<1>2. /\ cleaner.state = "entry" /\ cleaner.end = "head"
      /\ m \in stored[q] /\ m \in Done(q) /\ at[q][m] = head[q]
      /\ cleaner.upto \in Int /\ cleaner.todo \subseteq Messages /\ cleaner.upto <= saved[q]
      /\ CheckEntireQueue => \A n \in stored[q] : at[q][n] <= cleaner.upto => n \in cleaner.todo
  BY <1>1, Zenon DEF RemoveEntry, HubInv, Typed, Cleaning
<1>3. /\ stored' = [stored EXCEPT ![q] = @ \ {m}] /\ head' = [head EXCEPT ![q] = @ + 1] /\ tail' = tail
      /\ cleaner' = Cleaner("look", q, cleaner.upto, None, cleaner.end, cleaner.todo \ {m})
      /\ UNCHANGED <<body, count, at, saved, offset, reader, pump, toPut, toAppend,
                     sent, settled, expired, torn>>
  BY <1>1, <1>2, Zenon DEF RemoveEntry, HubInv, Typed, sending, past
<1>4. cleaner'.state = "look" /\ cleaner'.queue = q /\ cleaner'.upto = cleaner.upto /\ cleaner'.todo = cleaner.todo \ {m}
  BY <1>3, CleanerFields
<1>5. /\ stored' \in [Queues -> SUBSET Messages] /\ stored'[q] = stored[q] \ {m}
      /\ head' \in [Queues -> Int] /\ head'[q] = head[q] + 1 /\ head[q] \in Int
      /\ \A p \in Queues \ {q} : stored'[p] = stored[p] /\ head'[p] = head[p]
  BY <1>3 DEF HubInv, Typed
<1>6. Typed'
  BY <1>2, <1>3, <1>4, <1>5, Zenon DEF HubInv, Typed
<1>7. Dispatched'
  <2>1. \A p \in Queues : stored'[p] \subseteq stored[p]
    BY <1>5, Zenon
  <2> QED BY <1>3, <2>1, Zenon DEF HubInv, Dispatched
<1>8. Cleaning'
  BY <1>2, <1>3, <1>4, <1>5, Zenon DEF Cleaning
<1>9. Counted'
  <2>1. <<m, q>> \notin toAppend
    BY <1>2 DEF HubInv, Dispatched, Typed
  <2>2. \A n : Refs(n)' = Refs(n)
    BY <1>1, <1>2, <1>3, <1>4, <1>5, <2>1, Zenon DEF Refs, CountedOff
  <2> QED BY <1>3, <1>4, <2>2, Zenon DEF HubInv, Counted
<1>10. Laid(q)'
  <2>1. Laid(q) /\ tail[q] \in Int /\ \A n \in stored[q] : at[q][n] \in Int
    BY Offsets, Zenon DEF HubInv
  <2>2. \A n \in stored'[q] : head'[q] <= at[q][n] /\ at[q][n] <= tail[q]
    BY <1>2, <1>5, <2>1 DEF Laid
  <2>3. \A i \in head'[q] .. tail[q] : \E n \in stored'[q] : at[q][n] = i
    <3> TAKE i \in head'[q] .. tail[q]
    <3>1. i \in head[q] .. tail[q] /\ i # head[q]
      BY <1>5, <2>1
    <3> QED BY <1>2, <1>5, <2>1, <3>1, Zenon DEF Laid
  <2>4. head'[q] <= tail[q] + 1
    BY <1>2, <1>5, <2>1 DEF Laid
  <2> QED BY <1>3, <1>5, <2>1, <2>2, <2>3, <2>4, Zenon DEF Laid
<1>11. ASSUME NEW p \in Queues PROVE Laid(p)' /\ ReadOn(p)'
  <2>1. Laid(p)'
    <3>1. CASE p # q
      <4>1. Laid(p) /\ stored'[p] = stored[p] /\ head'[p] = head[p]
        BY <1>5, <3>1, Zenon DEF HubInv
      <4> QED BY <1>3, <4>1, Zenon DEF Laid
    <3> QED BY <1>10, <3>1, Zenon
  <2>2. Done(p)' = Done(p) /\ InPump(p)' = InPump(p)
    BY <1>3, Zenon DEF Done, InPump, Current
  <2>3. \A n \in stored[p] : n \notin Done(p)' => n \in stored'[p]
    BY <1>2, <1>5, <2>2, Zenon
  <2> QED BY <1>3, <2>1, <2>2, <2>3, ReadOnFrame, Zenon DEF HubInv
<1>12. \A e \in Endpoints : Pumping(e)'
  BY <1>3, Zenon DEF HubInv, Pumping, Admitted, Current
<1> QED BY <1>6, <1>7, <1>8, <1>9, <1>11, <1>12, Zenon DEF HubInv
-----------------------------------------------------------------------------
(* Crashes, and the whole.                                                 *)

(* A queue that is not empty has its head and its tail after a restart.    *)
LEMMA EndsFound ==
  ASSUME HubInv, NEW q \in Queues, stored[q] # {}
  PROVE  MinOf({at[q][m] : m \in stored[q]}) = head[q] /\ MaxOf({at[q][m] : m \in stored[q]}) = tail[q]
<1>1. /\ head[q] \in Int /\ tail[q] \in Int /\ \A m \in stored[q] : at[q][m] \in Int
      /\ \A m \in stored[q] : head[q] <= at[q][m] /\ at[q][m] <= tail[q]
  BY Offsets, Zenon DEF HubInv, Laid
<1>2. head[q] \in head[q] .. tail[q] /\ tail[q] \in head[q] .. tail[q]
  <2>1. PICK m \in stored[q] : TRUE
    BY Zenon
  <2>2. at[q][m] \in Int /\ head[q] <= at[q][m] /\ at[q][m] <= tail[q]
    BY <1>1, Zenon
  <2> QED BY <1>1, <2>2
<1>3. PICK a \in stored[q], b \in stored[q] : at[q][a] = head[q] /\ at[q][b] = tail[q]
  <2>1. \A i \in head[q] .. tail[q] : \E m \in stored[q] : at[q][m] = i
    BY Zenon DEF HubInv, Laid
  <2> QED BY <1>2, <2>1, Zenon
<1> DEFINE S == {at[q][m] : m \in stored[q]}
<1>4. head[q] \in S /\ tail[q] \in S /\ \A x \in S : x \in Int /\ head[q] <= x /\ x <= tail[q]
  BY <1>1, <1>3, Zenon
<1> HIDE DEF S
<1>5. \A x \in S : (\A y \in S : x <= y) => x = head[q]
  BY <1>1, <1>4
<1>6. \A x \in S : (\A y \in S : x >= y) => x = tail[q]
  BY <1>1, <1>4
<1>7. MinOf(S) = head[q]
  BY <1>4, <1>5, Zenon DEF MinOf
<1>8. MaxOf(S) = tail[q]
  BY <1>4, <1>6, Zenon DEF MaxOf
<1> QED BY <1>7, <1>8, Zenon DEF S

(* The hub starts again with what is on disk.                              *)
LEMMA CrashInv == ASSUME HubInv, Crash PROVE HubInv'
<1>0. /\ offset' = saved /\ toPut' = {} /\ toAppend' = {}
      /\ UNCHANGED <<body, count, stored, at, saved, sent, settled, expired>>
  BY Zenon DEF Crash, disk
<1>1. /\ torn' = IF cleaner.state \in {"body", "entry"} THEN torn \cup {cleaner.msg} ELSE torn
      /\ head' = [q \in Queues |-> IF stored[q] = {} THEN saved[q] + 1 ELSE MinOf({at[q][m] : m \in stored[q]})]
      /\ tail' = [q \in Queues |-> IF stored[q] = {} THEN saved[q] ELSE MaxOf({at[q][m] : m \in stored[q]})]
      /\ offset' = saved /\ reader' = [q \in Queues |-> NewReader(saved[q])]
      /\ pump' = [e \in Endpoints |-> Resting] /\ toPut' = {} /\ toAppend' = {} /\ cleaner' = NotCleaning
      /\ UNCHANGED <<body, count, stored, at, saved, sent, settled, expired>>
  BY Zenon DEF Crash, disk
<1>2. cleaner'.state = "idle" /\ cleaner'.upto = -1 /\ cleaner'.todo = {}
  BY <1>1, CleanerFields DEF NotCleaning
<1>3. cleaner.state \in {"body", "entry"} => cleaner.msg \in Messages /\ cleaner.queue \in Queues
  BY Zenon DEF HubInv, Typed, Cleaning
<1>4. torn' \subseteq Messages /\ torn \subseteq torn'
  BY <1>1, <1>3, Zenon DEF HubInv, Typed
<1>5. ASSUME NEW q \in Queues
      PROVE  /\ saved[q] \in Int /\ head[q] \in Int /\ tail[q] \in Int
             /\ stored[q] = {} => head'[q] = saved[q] + 1 /\ tail'[q] = saved[q]
             /\ stored[q] # {} => head'[q] = head[q] /\ tail'[q] = tail[q]
             /\ reader'[q] \in Readers /\ reader'[q].next = saved[q] + 1 /\ reader'[q].batch = {}
  <2>1. saved[q] \in Int /\ head[q] \in Int /\ tail[q] \in Int
    BY Zenon DEF HubInv, Typed
  <2>2. /\ stored[q] = {} => head'[q] = saved[q] + 1 /\ tail'[q] = saved[q]
        /\ stored[q] # {} => head'[q] = head[q] /\ tail'[q] = tail[q]
    BY <1>1, EndsFound, Zenon
  <2>3. /\ Reader("none", saved[q] + 1, {}) \in Readers
        /\ Reader("none", saved[q] + 1, {}).next = saved[q] + 1 /\ Reader("none", saved[q] + 1, {}).batch = {}
    BY <2>1, ReaderType
  <2>4. reader'[q] = Reader("none", saved[q] + 1, {})
    BY <1>1, Zenon DEF NewReader
  <2> QED BY <2>1, <2>2, <2>3, <2>4, Zenon
<1>6. Typed'
  <2>1. head' \in [Queues -> Int] /\ tail' \in [Queues -> Int]
    <3>1. \A q \in Queues : head'[q] \in Int /\ tail'[q] \in Int
      BY <1>5
    <3>2. head' = [q \in Queues |-> head'[q]] /\ tail' = [q \in Queues |-> tail'[q]]
      BY <1>1, Zenon
    <3> QED BY <3>1, <3>2, Zenon
  <2>2. reader' \in [Queues -> Readers] /\ pump' \in [Endpoints -> Pumps]
    <3>1. reader' = [q \in Queues |-> reader'[q]]
      BY <1>1, Zenon
    <3> QED BY <1>1, <1>5, <3>1, RestingType, Zenon
  <2> QED BY <1>0, <1>2, <1>4, <2>1, <2>2 DEF HubInv, Typed
<1>7. Dispatched' /\ Cleaning'
  BY <1>1, <1>2, Zenon DEF HubInv, Dispatched, Cleaning
<1>8. Counted'
  <2>1. ASSUME NEW n \in Messages \ torn' PROVE n \notin torn /\ Refs(n)' \subseteq Refs(n)
    <3>1. n \notin torn /\ \A q \in Queues : ~CountedOff(q, n)
      BY <1>1, <2>1, Zenon DEF CountedOff
    <3> QED BY <1>1, <3>1, Zenon DEF Refs
  <2>2. ASSUME NEW n \in Messages \ torn'
        PROVE  /\ n \in body' => Cardinality(Refs(n)') <= count'[n]
               /\ n \notin body' => Refs(n)' = {}
    <3>1. PICK S \in SUBSET Queues : S = Refs(n)
      BY Zenon DEF Refs
    <3>2. PICK T \in SUBSET S : T = Refs(n)'
      BY <2>1, <3>1, Zenon
    <3>3. Cardinality(S) \in Nat /\ Cardinality(T) \in Nat /\ count[n] \in Nat
      BY Finite, Zenon DEF HubInv, Typed
    <3>4. Cardinality(T) <= Cardinality(S)
      BY CountRefs, <3>3, FS_Subset, Finite, Zenon
    <3>5. /\ n \in body => Cardinality(S) <= count[n]
          /\ n \notin body => S = {}
      BY <2>1, <3>1, Zenon DEF HubInv, Counted
    <3> QED BY <1>1, <3>2, <3>3, <3>4, <3>5
  <2> QED BY <1>2, <2>2, Zenon DEF Counted
<1>9. ASSUME NEW q \in Queues PROVE Laid(q)'
  <2>1. Laid(q)
    BY Zenon DEF HubInv
  <2>2. CASE stored[q] = {}
    <3>1. head'[q] .. tail'[q] = {}
      BY <1>5, <2>2
    <3>2. /\ saved[q] + 1 <= saved[q] + 1 /\ -1 <= saved[q] /\ saved[q] <= saved[q]
      BY <1>5, Offsets
    <3> QED BY <1>0, <1>5, <2>2, <3>1, <3>2, Zenon DEF Laid
  <2>3. CASE stored[q] # {}
    <3>1. saved[q] <= saved[q] /\ saved[q] <= tail[q] /\ saved[q] + 1 <= tail[q] + 1
      BY Offsets
    <3>2. head'[q] = head[q] /\ tail'[q] = tail[q] /\ reader'[q].next = saved[q] + 1
      BY <1>5, <2>3, Zenon
    <3> QED BY <1>0, <2>1, <3>1, <3>2, Zenon DEF Laid
  <2> QED BY <2>2, <2>3, Zenon
<1>10. ASSUME NEW q \in Queues PROVE ReadOn(q)'
  <2>1. InPump(q)' = {}
    BY <1>1, QueueParts, RestingType, Zenon DEF InPump
  <2>2. ASSUME NEW m \in Messages, Pending(q, m)'
        PROVE  m \in stored[q] /\ at[q][m] > saved[q] /\ at[q][m] \in Int
    <3>1. Pending(q, m)
      BY <1>1, <1>4, <2>2, Zenon DEF Pending, Done
    <3>2. m \in stored[q] /\ at[q][m] > offset[q]
      BY <3>1, Zenon DEF HubInv, ReadOn
    <3>3. at[q][m] > saved[q] /\ at[q][m] \in Int
      BY <3>2, Offsets
    <3> QED BY <3>2, <3>3, Zenon
  <2>3. \A k \in Int : k > saved[q] => ~(k < saved[q] + 1)
    BY Offsets
  <2>4. reader'[q].next = saved[q] + 1 /\ reader'[q].batch = {}
    BY <1>5, Zenon
  <2> QED BY <1>0, <2>1, <2>2, <2>3, <2>4, Zenon DEF ReadOn
<1>11. \A e \in Endpoints : Pumping(e)'
  BY <1>1, RestingType, Zenon DEF Pumping
<1> QED BY <1>6, <1>7, <1>8, <1>9, <1>10, <1>11, Zenon DEF HubInv

(* Nothing is stored at first.                                             *)
LEMMA HubInit == Init => HubInv
<1> SUFFICES ASSUME Init PROVE HubInv
  BY Zenon
<1>1. /\ Reader("none", 0, {}) \in Readers /\ Reader("none", 0, {}).next = 0 /\ Reader("none", 0, {}).batch = {}
  BY ReaderType
<1>2. \A q \in Queues : reader[q] = Reader("none", 0, {})
  BY DEF Init, NewReader
<1>3. cleaner.state = "idle" /\ cleaner.upto = -1 /\ cleaner.todo = {}
  <2>1. cleaner = NotCleaning
    BY Zenon DEF Init
  <2> QED BY <2>1, CleanerFields DEF NotCleaning
<1>4. Typed
  <2>1. reader \in [Queues -> Readers] /\ pump \in [Endpoints -> Pumps]
    BY <1>1, <1>2, RestingType, Zenon DEF Init
  <2>2. /\ count \in [Messages -> Nat] /\ at \in [Queues -> [Messages -> Int]]
        /\ saved \in [Queues -> Int] /\ offset \in [Queues -> Int]
        /\ head \in [Queues -> Int] /\ tail \in [Queues -> Int] /\ cleaner.upto \in Int
    BY <1>3 DEF Init
  <2> QED BY <1>3, <2>1, <2>2, Zenon DEF Init, Typed
<1>5. Dispatched /\ Cleaning
  BY <1>3 DEF Init, Dispatched, Cleaning
<1>6. Counted
  <2>1. \A m : Refs(m) = {}
    BY Zenon DEF Init, Refs
  <2> QED BY <1>3, <2>1, FS_EmptySet, Zenon DEF Init, Counted
<1>7. ASSUME NEW q \in Queues PROVE Laid(q) /\ ReadOn(q)
  <2>1. Laid(q)
    BY <1>1, <1>2 DEF Init, Laid
  <2>2. InPump(q) = {}
    BY QueueParts, RestingType, Zenon DEF Init, InPump
  <2>3. reader[q].batch = {} /\ \A m \in Messages : ~(at[q][m] >= 0)
    BY <1>1, <1>2 DEF Init
  <2> QED BY <2>1, <2>2, <2>3, Zenon DEF ReadOn, Pending
<1>8. \A e \in Endpoints : Pumping(e)
  BY RestingType, Zenon DEF Init, Pumping
<1> QED BY <1>4, <1>5, <1>6, <1>7, <1>8, Zenon DEF HubInv

(* Every step of the hub keeps the invariant.                              *)
LEMMA HubNext == ASSUME Expiring = {} \/ ~CheckEntireQueue, HubInv, [Next]_vars PROVE HubInv'
<1>1. ASSUME NEW m \in Messages, Dispatch(m) PROVE HubInv'
  BY <1>1, DispatchInv, Zenon
<1>2. ASSUME NEW m \in Messages, NEW q \in Queues,
             PutBody(m, q) \/ AppendRef(m, q) \/ AppendRefFails(m, q) \/ Expire(m, q)
      PROVE  HubInv'
  BY <1>2, PutBodyInv, AppendRefInv, AppendRefFailsInv, ExpireInv, Zenon
<1>3. ASSUME NEW q \in Queues, Fetch(q) \/ CleanQueue(q) PROVE HubInv'
  BY <1>3, FetchInv, CleanQueueInv, Zenon
<1>4. ASSUME NEW q \in Queues, UpdateEndpoint(q) PROVE HubInv'
  <2>1. PICK e \in Endpoints : e = q[1]
    BY QueueParts, Zenon
  <2>2. PICK s \in PumpStates :
          /\ s = IF Current(e) = q /\ pump[e].state = "failing" THEN "sending" ELSE pump[e].state
          /\ PumpTo(e, s)
    BY <1>4, <2>1, Fields, Zenon DEF UpdateEndpoint, HubInv, PumpStates
  <2>3. /\ UNCHANGED <<disk, head, tail, offset, reader, toPut, toAppend, cleaner, sent, settled, expired, torn>>
        /\ ~(Current(e) = q /\ pump[e].state \in {"sending", "checkpointing"})
    BY <1>4, <2>1, Zenon DEF UpdateEndpoint, past
  <2>4. CASE s = "checkpointing"
    <3>1. pump' = pump
      <4>1. pump[e] = Pump(s, pump[e].priority, pump[e].batch, pump[e].failed)
        BY <2>2, <2>4, Zenon DEF HubInv, Typed, Pumps, Pump
      <4> QED BY <2>2, <4>1, Zenon DEF PumpTo, HubInv, Typed
    <3> QED BY <2>3, <3>1, LivesInv, Zenon
  <2>5. CASE s # "checkpointing"
    BY <2>2, <2>3, <2>5, SendAgainInv, Zenon
  <2> QED BY <2>4, <2>5, Zenon
<1>5. ASSUME NEW e \in Endpoints, ReadAgain(e) \/ Take(e) \/ NextPriority(e) \/ Checkpoint(e) \/ Drop(e)
      PROVE  HubInv'
  BY <1>5, ReadAgainInv, TakeInv, NextPriorityInv, CheckpointInv, DropInv, Zenon
<1>6. ASSUME NEW e \in Endpoints, NEW F \in SUBSET Messages, Send(e, F) PROVE HubInv'
  BY <1>6, SendInv, Zenon
<1>7. ASSUME NEW e \in Endpoints, Retry(e) PROVE HubInv'
  BY <1>7, SendAgainInv, Zenon DEF Retry, past, PumpStates
<1>8. ASSUME NEW e \in Endpoints, Die(e) \/ Revive(e) PROVE HubInv'
  BY <1>8, LivesInv, Zenon DEF Die, Revive, past
<1>9. CASE CountOff \/ RemoveBody \/ RemoveEntry \/ KeepEntry
  BY <1>9, CountOffInv, RemoveBodyInv, RemoveEntryInv, KeepEntryInv, Zenon
<1>10. CASE Crash
  BY <1>10, CrashInv, Zenon
<1>11. CASE UNCHANGED vars
  BY <1>11, LivesInv, Zenon DEF vars, sending, past
<1> QED BY <1>1, <1>2, <1>3, <1>4, <1>5, <1>6, <1>7, <1>8, <1>9, <1>10, <1>11, Zenon DEF Next

(* For any messages, routes, endpoints, batch size and number of crashes   *)
(* and faults, the store keeps every message until its queue is done with  *)
(* it: the reference, the body and a checkpoint before it are on disk      *)
(* (MessageStore.Add, CleanQueue and Checkpointer.CommitAsync), if nothing *)
(* expires or the cleanup looks at the head of a queue only.               *)
THEOREM MessagesKept == (Expiring = {} \/ ~CheckEntireQueue) => (Spec => []Kept)
<1> SUFFICES ASSUME Expiring = {} \/ ~CheckEntireQueue PROVE Spec => []Kept
  BY Zenon
<1>1. HubInv => Kept
  <2> SUFFICES ASSUME HubInv, NEW q \in Queues, NEW m \in Messages, Pending(q, m)
               PROVE  m \in stored[q] /\ m \in body /\ at[q][m] > saved[q]
    BY Zenon DEF Kept, HubInv, Typed, Pending
  <2>1. m \in stored[q] /\ m \in body
    BY PendingBody, Zenon
  <2>2. at[q][m] > offset[q]
    BY Zenon DEF HubInv, ReadOn
  <2>3. at[q][m] > saved[q]
    BY <2>2, Offsets
  <2> QED BY <2>1, <2>3, Zenon
<1>2. HubInv /\ [Next]_vars => HubInv'
  BY HubNext, Zenon
<1> QED BY <1>1, <1>2, HubInit, PTL DEF Spec
-----------------------------------------------------------------------------
(* Nothing is appended or settled, and no queue is less done than before.  *)
Quiet ==
  /\ UNCHANGED <<at, earlier, settled>>
  /\ \A q \in Queues : expired[q] \subseteq expired'[q]
  /\ torn \subseteq torn'

(* Only an append, a send and a drop change what OrderKept is about.       *)
LEMMA QuietSteps ==
  ASSUME HubInv, [Next]_vars
  PROVE  \/ Quiet
         \/ \E m \in Messages, q \in Queues : AppendRef(m, q)
         \/ \E e \in Endpoints : Drop(e) \/ \E F \in SUBSET Messages : Send(e, F)
<1>1. ASSUME NEW m \in Messages, Dispatch(m) PROVE Quiet
  BY <1>1, Zenon DEF Dispatch, Quiet, disk, past
<1>2. ASSUME NEW m \in Messages, NEW q \in Queues, PutBody(m, q) PROVE Quiet
  BY <1>2, Zenon DEF PutBody, Quiet
<1>3. ASSUME NEW m \in Messages, NEW q \in Queues, AppendRefFails(m, q) PROVE Quiet
  BY <1>3, Zenon DEF AppendRefFails, Quiet
<1>4. ASSUME NEW m \in Messages, NEW q \in Queues, Expire(m, q) PROVE Quiet
  BY <1>4, Zenon DEF Expire, Quiet, disk, HubInv, Typed
<1>5. ASSUME NEW q \in Queues, Fetch(q) \/ UpdateEndpoint(q) \/ CleanQueue(q) PROVE Quiet
  BY <1>5, Zenon DEF Fetch, UpdateEndpoint, CleanQueue, Quiet, disk, past
<1>6. ASSUME NEW e \in Endpoints, ReadAgain(e) \/ Take(e) \/ NextPriority(e) PROVE Quiet
  BY <1>6, Zenon DEF ReadAgain, Take, NextPriority, Quiet, disk, past
<1>7. ASSUME NEW e \in Endpoints, Checkpoint(e) \/ Retry(e) \/ Die(e) \/ Revive(e) PROVE Quiet
  BY <1>7, Zenon DEF Checkpoint, Retry, Die, Revive, Quiet, disk, past
<1>8. CASE CountOff \/ RemoveBody \/ RemoveEntry \/ KeepEntry
  BY <1>8, Zenon DEF CountOff, RemoveBody, RemoveEntry, KeepEntry, Quiet, disk, past
<1>9. CASE Crash
  BY <1>9, Zenon DEF Crash, Quiet, disk
<1>10. CASE UNCHANGED vars
  BY <1>10, Zenon DEF vars, Quiet, disk, past
<1> QED BY <1>1, <1>2, <1>3, <1>4, <1>5, <1>6, <1>7, <1>8, <1>9, <1>10, Zenon DEF Next

(* What is sent or dropped with the pump of a queue is settled behind      *)
(* everything that was appended before it and is in its lane.              *)
LEMMA SettledInOrder ==
  ASSUME HubInv, Ordered, OrderKept, NEW e \in Endpoints, NEW S \in SUBSET pump[e].batch,
         UNCHANGED <<at, earlier, expired, torn>>,
         settled' = [settled EXCEPT ![Current(e)] = @ \cup S],
         \A m \in S : \A n \in pump[e].batch :
           at[Current(e)][n] > offset[Current(e)] /\ at[Current(e)][n] < at[Current(e)][m]
             /\ SameLane(e, m, n) => n \in S
  PROVE  Ordered' /\ OrderKept'
<1>1. PICK q \in Queues : q = Current(e) /\ q[1] = e /\ InPump(q) = pump[e].batch
  BY CurrentQueue, Zenon DEF InPump, HubInv, Current
<1>2. /\ DOMAIN settled = Queues /\ DOMAIN settled' = Queues
      /\ settled'[q] = settled[q] \cup S
      /\ \A r \in Queues \ {q} : settled'[r] = settled[r]
  BY <1>1, Zenon DEF HubInv, Typed
<1>3. \A r \in Queues : Done(r) \subseteq Done(r)'
  BY <1>1, <1>2, Zenon DEF Done
<1>4. Ordered'
  <2>1. \A m \in S : at[q][m] >= 0
    BY <1>1, Zenon DEF HubInv, ReadOn
  <2>2. \A r \in Queues : \A m \in settled'[r] : at[r][m] >= 0
    BY <1>1, <1>2, <2>1, Zenon DEF Ordered
  <2> QED BY <1>3, <2>2, Zenon DEF Ordered
<1>5. ASSUME NEW m \in S, NEW n \in earlier[q][m], SameLane(e, m, n) PROVE n \in Done(q)'
  <2>1. CASE n \in Done(q)
    BY <1>1, <1>3, <2>1, Zenon
  <2>2. CASE n \notin Done(q)
    <3>1. m \in Messages /\ n \in Messages /\ m \in InPump(q)
      <4>1. m \in InPump(q) /\ m \in Messages
        BY <1>1, Fields, Zenon DEF HubInv
      <4> QED BY <4>1, Zenon DEF Ordered
    <3>2. at[q][n] < at[q][m] /\ Pending(q, n)
      BY <1>1, <2>2, <3>1, Zenon DEF Ordered, Pending
    <3>3. /\ at[q][m] < reader[q].next
          /\ at[q][n] > offset[q]
          /\ at[q][n] < reader[q].next => n \in reader[q].batch \cup InPump(q)
          /\ n \in reader[q].batch => at[q][m] < at[q][n]
      BY <3>1, <3>2, Zenon DEF HubInv, ReadOn
    <3>4. n \in pump[e].batch
      <4>1. at[q][n] < reader[q].next /\ ~(at[q][m] < at[q][n])
        BY <3>1, <3>2, <3>3, Offsets
      <4> QED BY <1>1, <3>3, <4>1, Zenon
    <3>5. n \in S
      BY <1>1, <1>5, <3>2, <3>3, <3>4, Zenon
    <3> QED BY <1>1, <1>2, <3>5, Zenon DEF Done
  <2> QED BY <2>1, <2>2, Zenon
<1>6. ASSUME NEW r \in Queues, NEW m \in settled'[r], NEW n \in earlier'[r][m], SameLane(r[1], m, n)
      PROVE  n \in Done(r)'
  <2>1. CASE m \in settled[r]
    BY <1>2, <1>3, <1>6, <2>1, Zenon DEF OrderKept
  <2>2. CASE m \notin settled[r]
    BY <1>1, <1>2, <1>5, <1>6, <2>2
  <2> QED BY <2>1, <2>2, Zenon
<1>7. OrderKept'
  BY <1>2, <1>6, Zenon DEF OrderKept, SameLane
<1> QED BY <1>4, <1>7, Zenon

(* Every step keeps the order of the queues.                               *)
LEMMA OrderNext == ASSUME HubInv, Ordered, OrderKept, [Next]_vars PROVE Ordered' /\ OrderKept'
<1>1. CASE Quiet
  <2>1. \A q \in Queues : Done(q) \subseteq Done(q)'
    BY <1>1, Zenon DEF Quiet, Done
  <2>2. Ordered'
    BY <1>1, <2>1, Zenon DEF Quiet, Ordered
  <2>3. DOMAIN settled = Queues
    BY Zenon DEF HubInv, Typed
  <2>4. OrderKept'
    BY <1>1, <2>1, <2>3, Zenon DEF Quiet, OrderKept, SameLane
  <2> QED BY <2>2, <2>4, Zenon
<1>2. ASSUME NEW m \in Messages, NEW q \in Queues, AppendRef(m, q) PROVE Ordered' /\ OrderKept'
  <2>1. /\ at[q][m] < 0 /\ tail[q] \in Int /\ at \in [Queues -> [Messages -> Int]]
        /\ settled \in [Queues -> SUBSET Messages] /\ -1 <= tail[q]
    <3>1. <<m, q>> \in toAppend
      BY <1>2, Zenon DEF AppendRef
    <3>2. at[q][m] < 0 /\ at \in [Queues -> [Messages -> Int]] /\ settled \in [Queues -> SUBSET Messages]
      BY <3>1, Zenon DEF HubInv, Typed, Dispatched
    <3>3. tail[q] \in Int /\ -1 <= tail[q]
      BY Offsets
    <3> QED BY <3>2, <3>3, Zenon
  <2>2. /\ UNCHANGED <<settled, expired, torn>>
        /\ at' = [at EXCEPT ![q][m] = tail[q] + 1]
        /\ earlier' = [earlier EXCEPT ![q][m] = {n \in Messages : at[q][n] >= 0}]
    BY <1>2, Zenon DEF AppendRef
  <2>3. \A r \in Queues : Done(r)' = Done(r)
    BY <2>2, Zenon DEF Done
  <2>4. at'[q][m] = tail[q] + 1 /\ \A r \in Queues, n \in Messages : <<r, n>> # <<q, m>> => at'[r][n] = at[r][n]
    BY <2>1, <2>2, Zenon
  <2>5. /\ earlier' \in [Queues -> [Messages -> SUBSET Messages]]
        /\ earlier'[q][m] = {n \in Messages : at[q][n] >= 0}
        /\ \A r \in Queues, k \in Messages : <<r, k>> # <<q, m>> => earlier'[r][k] = earlier[r][k]
    BY <2>2, Zenon DEF Ordered
  <2>6. m \notin settled[q]
    BY <2>1 DEF Ordered
  <2>7. \A r \in Queues : \A k \in settled'[r] : at'[r][k] >= 0
    BY <2>1, <2>2, <2>4, <2>6, Zenon DEF Ordered
  <2>8. ASSUME NEW r \in Queues, NEW k \in Messages, NEW n \in earlier'[r][k]
        PROVE  at'[r][n] >= 0 /\ (n \notin Done(r) => at'[r][n] < at'[r][k])
    <3>1. CASE r = q /\ k = m
      <4>1. n \in Messages /\ at[q][n] >= 0 /\ n # m /\ at'[q][n] = at[q][n]
        BY <2>1, <2>4, <2>5, <2>8, <3>1
      <4>2. n \notin Done(q) => n \in stored[q] /\ at[q][n] <= tail[q]
        BY <4>1, Zenon DEF HubInv, ReadOn, Laid, Pending
      <4> QED BY <2>1, <2>4, <3>1, <4>1, <4>2
    <3>2. CASE ~(r = q /\ k = m)
      <4>1. n \in earlier[r][k] /\ n \in Messages
        BY <2>5, <2>8, <3>2 DEF Ordered
      <4>2. at[r][n] >= 0 /\ (n \notin Done(r) => at[r][n] < at[r][k])
        BY <4>1, Zenon DEF Ordered
      <4>3. at'[r][n] = at[r][n] /\ at'[r][k] = at[r][k]
        BY <2>1, <2>4, <3>2, <4>1, <4>2
      <4> QED BY <4>2, <4>3, Zenon
    <3> QED BY <3>1, <3>2, Zenon
  <2>9. Ordered'
    BY <2>3, <2>5, <2>7, <2>8, Zenon DEF Ordered
  <2>10. OrderKept'
    BY <2>1, <2>2, <2>3, <2>5, <2>6 DEF OrderKept, SameLane
  <2> QED BY <2>9, <2>10, Zenon
<1>3. ASSUME NEW e \in Endpoints, Drop(e) PROVE Ordered' /\ OrderKept'
  BY <1>3, SettledInOrder, Zenon DEF Drop
<1>4. ASSUME NEW e \in Endpoints, NEW F \in SUBSET Messages, Send(e, F) PROVE Ordered' /\ OrderKept'
  <2> DEFINE q == Current(e)
             S == Admitted(e) \ F
  <2>1. /\ S \in SUBSET pump[e].batch /\ UNCHANGED <<at, earlier, expired, torn>>
        /\ settled' = [settled EXCEPT ![q] = @ \cup S]
    BY <1>4, Zenon DEF Send, disk, Admitted
  <2>2. ASSUME NEW m \in S, NEW n \in pump[e].batch,
               at[q][n] > offset[q], at[q][n] < at[q][m], SameLane(e, m, n)
        PROVE  n \in S
    <3>1. n \in Admitted(e) /\ SameLane(e, n, m)
      BY <2>2, Zenon DEF Admitted, SameLane
    <3>2. n \in F => m \in F
      <4>1. q \in Queues /\ m \in Messages /\ n \in Messages
        BY CurrentQueue, <2>1, Zenon DEF HubInv, Typed, Pumps
      <4>2. at[q][m] \in Int /\ at[q][n] \in Int
        BY <4>1, Offsets, Zenon
      <4> QED BY <1>4, <2>2, <3>1, <4>2, Zenon DEF Send, Failures
    <3> QED BY <3>1, <3>2, Zenon
  <2> QED BY <2>1, <2>2, SettledInOrder, Zenon
<1> QED BY <1>1, <1>2, <1>3, <1>4, QuietSteps, Zenon

(* For any messages, clients, batch size and number of failures, crashes   *)
(* and retries, a message is settled only when the queue is done with      *)
(* every earlier message of its client, for a module with every earlier    *)
(* message (ProcessClientMessages, EnterCheckpointingHelper), if nothing   *)
(* expires or the cleanup looks at the head of a queue only.               *)
THEOREM SentInOrder == (Expiring = {} \/ ~CheckEntireQueue) => (Spec => []OrderKept)
<1> SUFFICES ASSUME Expiring = {} \/ ~CheckEntireQueue PROVE Spec => []OrderKept
  BY Zenon
<1> DEFINE Inv == HubInv /\ Ordered /\ OrderKept
<1>1. Init => Inv
  <2> SUFFICES ASSUME Init PROVE Ordered /\ OrderKept
    BY HubInit, Zenon
  <2>1. /\ settled = [q \in Queues |-> {}]
        /\ earlier = [q \in Queues |-> [m \in Messages |-> {}]]
    BY Zenon DEF Init
  <2> QED BY <2>1, Zenon DEF Ordered, OrderKept
<1>2. Inv /\ [Next]_vars => Inv'
  BY HubNext, OrderNext, Zenon
<1> HIDE DEF Inv
<1>3. Inv => OrderKept
  BY Zenon DEF Inv
<1> QED BY <1>1, <1>2, <1>3, PTL DEF Spec
=============================================================================
