--------------------------- MODULE HubPumpProofs ---------------------------
(***************************************************************************)
(* The store of the Edge Hub, for any messages, routes, endpoints,         *)
(* priorities and batch sizes, and any number of crashes and faults: the   *)
(* invariant by which a queue keeps what it is not done with, and that     *)
(* reading a queue, sending and checkpointing preserve it.                 *)
(***************************************************************************)
EXTENDS StoreForward, FiniteSetTheorems, TLAPS

Readers == [state : {"none", "running", "done"}, next : Int, batch : SUBSET Messages]
PumpStates == {"look", "reread", "sending", "checkpointing", "failing"}
Pumps == [state : PumpStates, priority : Priorities, batch : SUBSET Messages, failed : SUBSET Messages]

Typed ==
  /\ body \subseteq Messages /\ count \in [Messages -> Nat]
  /\ stored \in [Queues -> SUBSET Messages] /\ at \in [Queues -> [Messages -> Int]]
  /\ saved \in [Queues -> Int] /\ offset \in [Queues -> Int]
  /\ head \in [Queues -> Int] /\ tail \in [Queues -> Int]
  /\ reader \in [Queues -> Readers] /\ pump \in [Endpoints -> Pumps]
  /\ cleaner.state \in {"idle", "look", "body", "entry"}
  /\ cleaner.upto \in Int /\ cleaner.todo \subseteq Messages
  /\ toPut \subseteq Messages \X Queues /\ toAppend \subseteq Messages \X Queues
  /\ settled \in [Queues -> SUBSET Messages] /\ expired \in [Queues -> SUBSET Expiring]
  /\ torn \subseteq Messages

(* What is to be put or appended is not in its queue yet.                  *)
Dispatched ==
  /\ toPut \cap toAppend = {}
  /\ \A m \in Messages, q \in Queues :
       /\ <<m, q>> \in toPut \cup toAppend => m \in sent /\ at[q][m] < 0
       /\ at[q][m] >= 0 => m \in sent
       /\ m \in stored[q] => at[q][m] >= 0

(* The entries of a queue have all the offsets from its head to its tail,  *)
(* and neither a checkpoint nor a reader is ahead of the tail.             *)
Laid(q) ==
  /\ \A m \in stored[q] : head[q] <= at[q][m] /\ at[q][m] <= tail[q]
  /\ \A m, n \in stored[q] : at[q][m] = at[q][n] => m = n
  /\ \A i \in head[q] .. tail[q] : \E m \in stored[q] : at[q][m] = i
  /\ head[q] <= tail[q] + 1
  /\ -1 <= saved[q] /\ saved[q] <= offset[q] /\ offset[q] <= tail[q]
  /\ reader[q].next <= tail[q] + 1

Pending(q, m) == at[q][m] >= 0 /\ m \notin Done(q)

InPump(q) == IF Current(q[1]) = q THEN pump[q[1]].batch ELSE {}

(* What is pending is behind the checkpoint; as far as the reader has      *)
(* come, it is with the reader or before that with the pump.               *)
ReadOn(q) ==
  /\ \A m \in reader[q].batch \cup InPump(q) : at[q][m] >= 0 /\ at[q][m] < reader[q].next
  /\ \A m \in InPump(q), n \in reader[q].batch : at[q][m] < at[q][n]
  /\ \A m \in Messages : Pending(q, m) =>
       /\ m \in stored[q] /\ at[q][m] > offset[q]
       /\ at[q][m] < reader[q].next => m \in reader[q].batch \cup InPump(q)

(* A pump that looks for messages has none, and what it is to checkpoint   *)
(* is settled or failed.                                                   *)
Pumping(e) ==
  /\ pump[e].state \in {"look", "reread"} => pump[e].batch = {}
  /\ pump[e].state = "checkpointing" =>
       /\ Admitted(e) \ pump[e].failed \subseteq settled[Current(e)]
       /\ pump[e].failed \subseteq pump[e].batch

(* The cleanup removes the head of a queue, which is done with it.         *)
Cleaning ==
  /\ cleaner.state # "idle" =>
       /\ cleaner.queue \in Queues
       /\ cleaner.upto <= saved[cleaner.queue]
       /\ CheckEntireQueue =>
            \A m \in stored[cleaner.queue] : at[cleaner.queue][m] <= cleaner.upto => m \in cleaner.todo
  /\ cleaner.state \in {"body", "entry"} =>
       /\ cleaner.msg \in stored[cleaner.queue] \cap Done(cleaner.queue)
       /\ at[cleaner.queue][cleaner.msg] = head[cleaner.queue]
       /\ cleaner.end = "head"

CountedOff(q, m) == cleaner.state \in {"body", "entry"} /\ cleaner.queue = q /\ cleaner.msg = m

(* The queues that count as references to the body of a message.           *)
Refs(m) == {q \in Queues : <<m, q>> \in toAppend \/ (m \in stored[q] /\ ~CountedOff(q, m))}

Counted ==
  /\ \A m \in Messages \ torn :
       /\ m \in body => Cardinality(Refs(m)) <= count[m]
       /\ m \notin body => Refs(m) = {}
  /\ cleaner.state = "body" /\ cleaner.msg \notin torn => Refs(cleaner.msg) = {}

HubInv ==
  /\ Typed /\ Dispatched /\ Cleaning /\ Counted
  /\ \A q \in Queues : Laid(q) /\ ReadOn(q)
  /\ \A e \in Endpoints : Pumping(e)

(* A pending message that was appended before another is before it.        *)
Ordered ==
  /\ earlier \in [Queues -> [Messages -> SUBSET Messages]]
  /\ \A q \in Queues : \A m \in settled[q] : at[q][m] >= 0
  /\ \A q \in Queues : \A m \in Messages : \A n \in earlier[q][m] :
       at[q][n] >= 0 /\ (n \notin Done(q) => at[q][n] < at[q][m])
-----------------------------------------------------------------------------
(* A queue is of an endpoint and a priority.                               *)
LEMMA QueueParts ==
  ASSUME NEW q \in Queues
  PROVE  q[1] \in Endpoints /\ q[2] \in Priorities /\ q = <<q[1], q[2]>>
  BY DEF Queues

(* There are finitely many messages and queues.                            *)
LEMMA Finite ==
  /\ \A S \in SUBSET Messages : IsFiniteSet(S) /\ Cardinality(S) \in Nat
  /\ \A S \in SUBSET Queues : IsFiniteSet(S) /\ Cardinality(S) \in Nat
<1>1. IsFiniteSet(Messages) /\ IsFiniteSet(Queues)
  BY StoreForwardAssumption, FS_Product, Zenon DEF Queues
<1> QED BY <1>1, FS_Subset, FS_CardinalityType, Zenon

(* References are counted one by one.                                      *)
LEMMA CountRefs ==
  ASSUME NEW S \in SUBSET Queues, NEW q \in Queues
  PROVE  /\ Cardinality(S) = 0 <=> S = {}
         /\ Cardinality(S \cup {q}) <= Cardinality(S) + 1
         /\ q \in S => Cardinality(S \ {q}) = Cardinality(S) - 1
         /\ \A T \in SUBSET S : Cardinality(T) <= Cardinality(S)
<1>1. IsFiniteSet(S) /\ Cardinality(S) \in Nat
  BY Finite, Zenon
<1>2. Cardinality(S) = 0 <=> S = {}
  BY <1>1, FS_EmptySet, Zenon
<1>3. Cardinality(S \cup {q}) = IF q \in S THEN Cardinality(S) ELSE Cardinality(S) + 1
  BY <1>1, FS_AddElement, Zenon
<1>4. Cardinality(S \ {q}) = IF q \in S THEN Cardinality(S) - 1 ELSE Cardinality(S)
  BY <1>1, FS_RemoveElement, Zenon
<1>5. \A T \in SUBSET S : Cardinality(T) <= Cardinality(S)
  BY <1>1, FS_Subset, Zenon
<1> QED BY <1>1, <1>2, <1>3, <1>4, <1>5

(* The pump goes on to a priority that there is.                           *)
LEMMA MinOfPriorities ==
  ASSUME NEW S \in SUBSET Priorities, S # {}
  PROVE  MinOf(S) \in Priorities
<1> DEFINE less == OpToRel(<, Nat)
<1>1. S \subseteq Nat
  BY StoreForwardAssumption, Zenon
<1>2. \A x, y \in Nat : y < x => <<y, x>> \in less
  BY Zenon DEF OpToRel
<1>3. IsWellFoundedOn(less, Nat)
  BY NatLessThanWellFounded, Zenon
<1> HIDE DEF less
<1>4. PICK x \in S : \A y \in S : ~ (<<y, x>> \in less)
  BY <1>1, <1>3, WFMin, Zenon
<1>5. \A y \in S : x <= y
  <2> TAKE y \in S
  <2>1. x \in Nat /\ y \in Nat
    BY <1>1, Zenon
  <2>2. ~ (y < x)
    BY <1>2, <1>4, <2>1, Zenon
  <2> QED BY <2>1, <2>2
<1> QED BY <1>5, Zenon DEF MinOf

(* The records of readers and pumps.                                       *)
LEMMA ReaderType ==
  ASSUME NEW s \in {"none", "running", "done"}, NEW n \in Int, NEW b \in SUBSET Messages
  PROVE  /\ Reader(s, n, b) \in Readers
         /\ Reader(s, n, b).next = n /\ Reader(s, n, b).batch = b
  BY Zenon DEF Reader, Readers

(* Their fields.                                                           *)
LEMMA PumpType ==
  ASSUME NEW s \in PumpStates, NEW p \in Priorities, NEW b \in SUBSET Messages, NEW f \in SUBSET Messages
  PROVE  /\ Pump(s, p, b, f) \in Pumps
         /\ Pump(s, p, b, f).state = s /\ Pump(s, p, b, f).priority = p
         /\ Pump(s, p, b, f).batch = b /\ Pump(s, p, b, f).failed = f
  BY Zenon DEF Pump, Pumps

(* A pump that looks for messages has none.                                *)
LEMMA LookingType ==
  ASSUME NEW p \in Priorities
  PROVE  Looking(p) \in Pumps /\ Looking(p).state = "look" /\ Looking(p).batch = {}
  BY Zenon DEF Looking, Pump, Pumps, PumpStates

(* A pump that rests looks at the first priority.                          *)
LEMMA RestingType ==
  Resting \in Pumps /\ Resting.state = "look" /\ Resting.batch = {}
  BY MinOfPriorities, LookingType, StoreForwardAssumption, Zenon DEF Resting

(* The fields of the pump of an endpoint and of a reader.                  *)
LEMMA Fields ==
  ASSUME Typed
  PROVE  /\ \A e \in Endpoints : /\ pump[e].state \in PumpStates /\ pump[e].priority \in Priorities
                                 /\ pump[e].batch \subseteq Messages /\ pump[e].failed \subseteq Messages
         /\ \A q \in Queues : reader[q].next \in Int /\ reader[q].batch \subseteq Messages
<1>1. ASSUME NEW e \in Endpoints
      PROVE  /\ pump[e].state \in PumpStates /\ pump[e].priority \in Priorities
             /\ pump[e].batch \subseteq Messages /\ pump[e].failed \subseteq Messages
  <2>1. pump[e] \in Pumps
    BY Zenon DEF Typed
  <2> QED BY <2>1, Zenon DEF Pumps
<1>2. ASSUME NEW q \in Queues
      PROVE  reader[q].next \in Int /\ reader[q].batch \subseteq Messages
  <2>1. reader[q] \in Readers
    BY Zenon DEF Typed
  <2> QED BY <2>1, Zenon DEF Readers
<1> QED BY <1>1, <1>2, Zenon

(* The queue whose batch a pump has.                                       *)
LEMMA CurrentQueue ==
  ASSUME Typed, NEW e \in Endpoints
  PROVE  /\ Current(e) \in Queues /\ Current(e)[1] = e
         /\ InPump(Current(e)) = pump[e].batch
         /\ \A q \in Queues : q[1] = e /\ q # Current(e) => InPump(q) = {}
<1>1. pump[e].priority \in Priorities
  BY Fields, Zenon
<1>2. Current(e) \in Queues /\ Current(e)[1] = e
  BY <1>1, Zenon DEF Current, Queues
<1> QED BY <1>2, Zenon DEF InPump

(* A pump that gets a new state, without a batch if it leaves its queue:   *)
(* the batches of other queues stay.                                       *)
LEMMA PumpMove ==
  ASSUME Typed, NEW e \in Endpoints, NEW r \in Pumps, pump' = [pump EXCEPT ![e] = r],
         r.priority = pump[e].priority \/ r.batch = {},
         NEW c, c = Current(e)
  PROVE  /\ pump' \in [Endpoints -> Pumps] /\ pump'[e] = r
         /\ \A f \in Endpoints \ {e} : pump'[f] = pump[f]
         /\ \A q \in Queues \ {c} : InPump(q)' = InPump(q)
         /\ InPump(c)' = r.batch
<1>1. /\ pump' \in [Endpoints -> Pumps] /\ pump'[e] = r
      /\ \A f \in Endpoints \ {e} : pump'[f] = pump[f]
  BY Zenon DEF Typed
<1>2. c \in Queues /\ c[1] = e /\ c = <<e, pump[e].priority>>
  BY CurrentQueue, Zenon DEF Current
<1>3. InPump(c)' = r.batch
  BY <1>1, <1>2, Zenon DEF InPump, Current
<1>4. ASSUME NEW q \in Queues \ {c} PROVE InPump(q)' = InPump(q)
  <2>1. q[1] \in Endpoints /\ q = <<q[1], q[2]>>
    BY QueueParts, Zenon
  <2>2. CASE q[1] # e
    BY <1>1, <2>1, <2>2, Zenon DEF InPump, Current
  <2>3. CASE q[1] = e
    <3>1. InPump(q) = {}
      BY <1>2, <1>4, <2>3, CurrentQueue, Zenon
    <3>2. InPump(q)' = {}
      BY <1>1, <1>2, <2>1, <2>3, Zenon DEF InPump, Current
    <3> QED BY <3>1, <3>2, Zenon
  <2> QED BY <2>2, <2>3, Zenon
<1> QED BY <1>1, <1>3, <1>4, Zenon
-----------------------------------------------------------------------------
(* What keeps each part of the invariant.                                  *)

(* What pumps and readers do, in a step that moves no message on disk.     *)
LEMMA SendingFrame ==
  ASSUME HubInv, UNCHANGED <<body, count, stored, at, head, toPut, toAppend, cleaner, sent, expired, torn>>,
         saved' \in [Queues -> Int], \A q \in Queues : saved[q] <= saved'[q],
         \A q \in Queues : settled[q] \subseteq settled'[q]
  PROVE  Dispatched' /\ Cleaning' /\ Counted'
<1>1. Dispatched'
  BY Zenon DEF HubInv, Dispatched
<1>2. Counted'
  BY DEF HubInv, Counted, Refs, CountedOff
<1>3. Cleaning'
  <2> SUFFICES ASSUME cleaner.state # "idle"
               PROVE  Cleaning'
    BY Zenon DEF Cleaning
  <2>1. cleaner.queue \in Queues /\ cleaner.upto \in Int /\ saved \in [Queues -> Int]
    BY Zenon DEF HubInv, Typed, Cleaning
  <2>2. Done(cleaner.queue) \subseteq Done(cleaner.queue)'
    BY <2>1, Zenon DEF Done
  <2>3. cleaner.upto <= saved'[cleaner.queue]
    BY <2>1 DEF HubInv, Cleaning
  <2> QED BY <2>1, <2>2, <2>3, Zenon DEF HubInv, Cleaning
<1> QED BY <1>1, <1>2, <1>3, Zenon

(* A queue that is not touched.                                            *)
LEMMA ReadOnFrame ==
  ASSUME NEW q \in Queues, ReadOn(q), at'[q] = at[q], offset'[q] = offset[q],
         reader'[q] = reader[q], InPump(q)' = InPump(q), Done(q) \subseteq Done(q)',
         \A m \in stored[q] : m \notin Done(q)' => m \in stored'[q]
  PROVE  ReadOn(q)'
  BY Zenon DEF ReadOn, Pending

(* A pump that is not touched.                                             *)
LEMMA PumpingFrame ==
  ASSUME Typed, NEW e \in Endpoints, Pumping(e), pump'[e] = pump[e],
         \A q \in Queues : q[1] = e /\ InPump(q) = pump[e].batch =>
           /\ settled[q] \subseteq settled'[q] /\ offset'[q] = offset[q]
           /\ \A m \in InPump(q) : at'[q][m] = at[q][m]
  PROVE  Pumping(e)'
<1>1. PICK c \in Queues : c = Current(e) /\ c[1] = e /\ InPump(c) = pump[e].batch
  BY CurrentQueue, Zenon
<1>2. Current(e)' = c
  BY <1>1, Zenon DEF Current
<1>3. Admitted(e)' = Admitted(e)
  BY <1>1, <1>2 DEF Admitted
<1> QED BY <1>1, <1>2, <1>3, Zenon DEF Pumping

(* A step that sends, reads or checkpoints messages of queue c only.       *)
SendsOnly(c) ==
  /\ UNCHANGED <<body, count, stored, at, head, tail, toPut, toAppend, cleaner, sent, expired, torn>>
  /\ saved' \in [Queues -> Int] /\ offset' \in [Queues -> Int]
  /\ settled' \in [Queues -> SUBSET Messages]
  /\ reader' \in [Queues -> Readers] /\ pump' \in [Endpoints -> Pumps]
  /\ saved[c] <= saved'[c] /\ settled[c] \subseteq settled'[c]
  /\ \A q \in Queues \ {c} :
       /\ saved'[q] = saved[q] /\ offset'[q] = offset[q] /\ settled'[q] = settled[q]
       /\ reader'[q] = reader[q] /\ InPump(q)' = InPump(q)
  /\ \A e \in Endpoints \ {c[1]} : pump'[e] = pump[e]

(* The offsets of a queue, as numbers and in their order.                  *)
LEMMA Offsets ==
  ASSUME HubInv, NEW q \in Queues
  PROVE  /\ saved[q] \in Int /\ offset[q] \in Int /\ head[q] \in Int /\ tail[q] \in Int
         /\ reader[q].next \in Int /\ \A m \in Messages : at[q][m] \in Int
         /\ stored[q] \subseteq Messages
         /\ saved[q] <= offset[q] /\ offset[q] <= tail[q] /\ -1 <= saved[q]
<1>1. Typed /\ Laid(q) /\ reader[q].next \in Int
  BY Fields, Zenon DEF HubInv
<1>2. /\ saved[q] \in Int /\ offset[q] \in Int /\ head[q] \in Int /\ tail[q] \in Int
      /\ stored[q] \subseteq Messages
  BY <1>1, Zenon DEF Typed
<1>3. \A m \in Messages : at[q][m] \in Int
  <2>1. at \in [Queues -> [Messages -> Int]]
    BY <1>1, Zenon DEF Typed
  <2> QED BY <2>1, Zenon
<1>4. saved[q] <= offset[q] /\ offset[q] <= tail[q] /\ -1 <= saved[q]
  BY <1>1, Zenon DEF Laid
<1> QED BY <1>1, <1>2, <1>3, <1>4, Zenon

(* Without a checkpoint the saved offset stays.                            *)
LEMMA SavedStays == ASSUME HubInv, NEW c \in Queues PROVE saved[c] <= saved[c]
<1>1. saved[c] \in Int
  BY Zenon DEF HubInv, Typed
<1> QED BY <1>1

(* Such a step has to keep what is said of c and its pump.                 *)
LEMMA OneQueue ==
  ASSUME HubInv, NEW c \in Queues, SendsOnly(c), Laid(c)', ReadOn(c)', Pumping(c[1])'
  PROVE  HubInv'
<1>1. saved \in [Queues -> Int] /\ settled \in [Queues -> SUBSET Messages]
  BY Zenon DEF HubInv, Typed
<1>2. \A q \in Queues : saved[q] <= saved'[q] /\ settled[q] \subseteq settled'[q]
  BY <1>1 DEF SendsOnly
<1>3. Typed'
  BY Zenon DEF HubInv, Typed, SendsOnly
<1>4. Dispatched' /\ Cleaning' /\ Counted'
  BY <1>2, SendingFrame, Zenon DEF SendsOnly
<1>5. ASSUME NEW q \in Queues PROVE Laid(q)' /\ ReadOn(q)'
  <2>1. CASE q = c
    BY <2>1, Zenon
  <2>2. CASE q # c
    <3>1. Laid(q)'
      BY <2>2 DEF HubInv, Laid, SendsOnly
    <3>2. Done(q)' = Done(q)
      BY <2>2, Zenon DEF Done, SendsOnly
    <3>3. ReadOn(q)'
      BY <2>2, <3>2, ReadOnFrame, Zenon DEF HubInv, SendsOnly
    <3> QED BY <3>1, <3>3, Zenon
  <2> QED BY <2>1, <2>2, Zenon
<1>6. ASSUME NEW e \in Endpoints PROVE Pumping(e)'
  <2>1. CASE e = c[1]
    BY <2>1, Zenon
  <2>2. CASE e # c[1]
    BY <2>2, PumpingFrame, Zenon DEF HubInv, SendsOnly
  <2> QED BY <2>1, <2>2, Zenon
<1> QED BY <1>3, <1>4, <1>5, <1>6, Zenon DEF HubInv
-----------------------------------------------------------------------------
(* Reading.                                                                *)

(* A batch leaves out nothing before what it has.                          *)
LEMMA FirstClosed ==
  ASSUME NEW q \in Queues, at \in [Queues -> [Messages -> Int]], NEW S \in SUBSET Messages, NEW n \in Int,
         NEW m \in First(q, S, n), NEW k \in S, at[q][k] <= at[q][m]
  PROVE  k \in First(q, S, n)
<1> DEFINE A == {j \in S : at[q][j] < at[q][k]}
           B == {j \in S : at[q][j] < at[q][m]}
<1>1. m \in S /\ Cardinality(B) < n
  BY Zenon DEF First
<1>2. A \in SUBSET B
  BY <1>1
<1>3. IsFiniteSet(B) /\ Cardinality(A) \in Nat /\ Cardinality(B) \in Nat
  BY Finite, Zenon
<1>4. Cardinality(A) <= Cardinality(B)
  BY <1>2, <1>3, FS_Subset, Zenon
<1> QED BY <1>1, <1>3, <1>4 DEF First

(* A pending message has a body: its queue still counts as a reference.    *)
LEMMA PendingBody ==
  ASSUME HubInv, NEW q \in Queues, NEW m \in Messages, Pending(q, m)
  PROVE  m \in stored[q] /\ m \in body
<1>1. m \in stored[q] /\ m \notin torn /\ m \notin Done(q)
  BY Zenon DEF HubInv, ReadOn, Pending, Done
<1>2. ~CountedOff(q, m)
  BY <1>1, Zenon DEF HubInv, Cleaning, CountedOff
<1>3. q \in Refs(m)
  BY <1>1, <1>2, Zenon DEF Refs
<1> QED BY <1>1, <1>3, Zenon DEF HubInv, Counted

(* MessageIterator.GetNext reads on from where it was: it finds everything *)
(* that is pending up to where it comes, and nothing before.               *)
LEMMA Found ==
  ASSUME HubInv, NEW q \in Queues, GetNext(q)
  PROVE  \E r \in Readers :
           /\ reader' = [reader EXCEPT ![q] = r]
           /\ reader[q].next <= r.next /\ r.next <= tail[q] + 1
           /\ reader[q].batch \subseteq r.batch
           /\ \A m \in r.batch \ reader[q].batch :
                m \in stored[q] /\ reader[q].next <= at[q][m] /\ at[q][m] < r.next
           /\ \A m \in stored[q] \cap body : m \notin expired[q] /\ reader[q].next <= at[q][m] /\ at[q][m] < r.next =>
                m \in r.batch
<1> DEFINE n == BatchSize - Cardinality(reader[q].batch)
           start == reader[q].next
           from == IF start < head[q] THEN head[q] ELSE start
           S == {m \in stored[q] : at[q][m] >= from}
           refs == GetBatch(q, start, n)
           found == (refs \ expired[q]) \cap body
<1>1. /\ start \in Int /\ reader[q].batch \subseteq Messages /\ n \in Int
      /\ head[q] \in Int /\ tail[q] \in Int /\ at \in [Queues -> [Messages -> Int]]
      /\ stored[q] \subseteq Messages
  <2>1. Cardinality(reader[q].batch) \in Nat
    BY Fields, Finite, Zenon DEF HubInv
  <2> QED BY <2>1, Fields, StoreForwardAssumption DEF HubInv, Typed
<1>2. start <= tail[q] + 1 /\ (\A m \in stored[q] : head[q] <= at[q][m] /\ at[q][m] <= tail[q])
  BY Zenon DEF HubInv, Laid
<1>3. CASE refs = {} /\ reader' = [reader EXCEPT ![q] = Reader("done", start, reader[q].batch)]
  <2>1. Reader("done", start, reader[q].batch) \in Readers
    BY <1>1, ReaderType, Zenon
  <2>2. /\ Reader("done", start, reader[q].batch).next = start
        /\ Reader("done", start, reader[q].batch).batch = reader[q].batch
    BY <1>1, ReaderType
  <2>3. \A m \in stored[q] : at[q][m] \in Int
    BY <1>1, Zenon
  <2> HIDE DEF n, start, refs
  <2>4. PICK r \in Readers : r.next = start /\ r.batch = reader[q].batch /\ reader' = [reader EXCEPT ![q] = r]
    BY <1>3, <2>1, <2>2, Zenon
  <2>5. start <= r.next /\ \A m \in stored[q] : ~(start <= at[q][m] /\ at[q][m] < r.next)
    BY <1>1, <2>3, <2>4
  <2>6. r.next <= tail[q] + 1
    BY <1>2, <2>4, Zenon
  <2> QED BY <2>4, <2>5, <2>6, Zenon DEF start
<1>4. ASSUME NEW last \in refs, \A m \in refs : at[q][m] <= at[q][last], NEW s \in {"done", "running"},
             reader' = [reader EXCEPT ![q] = Reader(s, at[q][last] + 1, reader[q].batch \cup found)]
      PROVE  \E r \in Readers :
               /\ reader' = [reader EXCEPT ![q] = r]
               /\ r.next = at[q][last] + 1 /\ r.batch = reader[q].batch \cup found
               /\ refs = First(q, S, n)
  <2>1. refs = First(q, S, n)
    BY <1>4, Zenon DEF GetBatch
  <2>2. refs \subseteq Messages /\ last \in Messages
    BY <1>1, <2>1, Zenon DEF First
  <2>3. at[q][last] + 1 \in Int /\ reader[q].batch \cup found \subseteq Messages
    BY <1>1, <2>2
  <2> HIDE DEF refs, found
  <2>4. /\ Reader(s, at[q][last] + 1, reader[q].batch \cup found) \in Readers
        /\ Reader(s, at[q][last] + 1, reader[q].batch \cup found).next = at[q][last] + 1
        /\ Reader(s, at[q][last] + 1, reader[q].batch \cup found).batch = reader[q].batch \cup found
    BY <2>3, ReaderType
  <2> QED BY <1>4, <2>1, <2>4, Zenon
<1>5. ASSUME NEW r \in Readers, reader' = [reader EXCEPT ![q] = r], NEW last \in refs,
             \A m \in refs : at[q][m] <= at[q][last],
             r.next = at[q][last] + 1, r.batch = reader[q].batch \cup found, refs = First(q, S, n)
      PROVE  /\ start <= r.next /\ r.next <= tail[q] + 1
             /\ \A m \in found : m \in stored[q] /\ start <= at[q][m] /\ at[q][m] < r.next
             /\ \A m \in stored[q] \cap body : m \notin expired[q] /\ start <= at[q][m] /\ at[q][m] < r.next =>
                  m \in r.batch
  <2>1. \A m \in refs : m \in stored[q] /\ at[q][m] \in Int /\ start <= at[q][m]
    <3>1. from \in Int /\ from >= start
      BY <1>1
    <3>2. \A m \in First(q, S, n) : m \in stored[q] /\ at[q][m] >= from
      BY Zenon DEF First
    <3> HIDE DEF from, start, refs
    <3> QED BY <1>1, <1>5, <3>1, <3>2
  <2>2. \A m \in refs : at[q][m] < r.next
    BY <1>5, <2>1
  <2>3. start <= r.next /\ r.next <= tail[q] + 1
    BY <1>1, <1>2, <1>5, <2>1
  <2>4. ASSUME NEW m \in stored[q] \cap body, m \notin expired[q], start <= at[q][m], at[q][m] < r.next
        PROVE  m \in r.batch
    <3>1. m \in S /\ at[q][m] <= at[q][last]
      BY <1>1, <1>2, <1>5, <2>1, <2>4
    <3>2. m \in refs
      BY <1>1, <1>5, <3>1, FirstClosed
    <3> QED BY <1>5, <2>4, <3>2, Zenon
  <2> QED BY <2>1, <2>2, <2>3, <2>4, Zenon
<1>6. ASSUME NEW last \in refs, \A m \in refs : at[q][m] <= at[q][last], NEW s,
             s = IF found = {} \/ Cardinality(reader[q].batch \cup found) = BatchSize THEN "done" ELSE "running",
             reader' = [reader EXCEPT ![q] = Reader(s, at[q][last] + 1, reader[q].batch \cup found)]
      PROVE  \E r \in Readers :
               /\ reader' = [reader EXCEPT ![q] = r]
               /\ r.batch = reader[q].batch \cup found
               /\ start <= r.next /\ r.next <= tail[q] + 1
               /\ \A m \in found : m \in stored[q] /\ start <= at[q][m] /\ at[q][m] < r.next
               /\ \A m \in stored[q] \cap body : m \notin expired[q] /\ start <= at[q][m] /\ at[q][m] < r.next =>
                    m \in r.batch
  <2>1. s \in {"done", "running"}
    BY <1>6, Zenon
  <2> HIDE DEF start, refs, found, S, n
  <2>2. PICK r \in Readers :
          /\ reader' = [reader EXCEPT ![q] = r]
          /\ r.next = at[q][last] + 1 /\ r.batch = reader[q].batch \cup found
          /\ refs = First(q, S, n)
    BY <1>4, <1>6, <2>1, Zenon
  <2> QED BY <1>5, <1>6, <2>2, Zenon
<1>7. CASE refs # {} \/ reader' # [reader EXCEPT ![q] = Reader("done", start, reader[q].batch)]
  <2>1. \E r \in Readers :
               /\ reader' = [reader EXCEPT ![q] = r]
               /\ r.batch = reader[q].batch \cup found
               /\ start <= r.next /\ r.next <= tail[q] + 1
               /\ \A m \in found : m \in stored[q] /\ start <= at[q][m] /\ at[q][m] < r.next
               /\ \A m \in stored[q] \cap body : m \notin expired[q] /\ start <= at[q][m] /\ at[q][m] < r.next =>
                    m \in r.batch
    BY <1>6, <1>7, Zenon DEF GetNext
  <2> HIDE DEF refs, found, S, n
  <2> QED BY <2>1, Zenon
<1> QED BY <1>3, <1>7, Zenon

(* Reading on keeps what is said of the queue: what is pending and was     *)
(* passed is in the batch.                                                 *)
LEMMA ReadsOn ==
  ASSUME HubInv, NEW q \in Queues, GetNext(q), InPump(q)' = InPump(q),
         UNCHANGED <<body, stored, at, head, tail, saved, offset, settled, expired, torn>>
  PROVE  /\ reader' \in [Queues -> Readers]
         /\ \A p \in Queues \ {q} : reader'[p] = reader[p]
         /\ Laid(q)' /\ ReadOn(q)'
<1>1. PICK r \in Readers :
        /\ reader' = [reader EXCEPT ![q] = r]
        /\ reader[q].next <= r.next /\ r.next <= tail[q] + 1
        /\ reader[q].batch \subseteq r.batch
        /\ \A m \in r.batch \ reader[q].batch :
             m \in stored[q] /\ reader[q].next <= at[q][m] /\ at[q][m] < r.next
        /\ \A m \in stored[q] \cap body : m \notin expired[q] /\ reader[q].next <= at[q][m] /\ at[q][m] < r.next =>
             m \in r.batch
  BY Found, Zenon
<1>2. /\ reader' \in [Queues -> Readers] /\ reader'[q] = r
      /\ \A p \in Queues \ {q} : reader'[p] = reader[p]
  BY <1>1, Zenon DEF HubInv, Typed
<1>3. Laid(q)'
  BY <1>1, <1>2 DEF HubInv, Laid
<1>4. /\ reader[q].next \in Int /\ r.next \in Int /\ r.batch \subseteq Messages
      /\ \A m \in Messages : at[q][m] \in Int
      /\ reader[q].batch \subseteq Messages /\ InPump(q) \subseteq Messages
  BY QueueParts, Fields DEF Readers, HubInv, Typed, InPump
<1>5. ReadOn(q) /\ \A m \in stored[q] : at[q][m] >= 0
  BY <1>4, Zenon DEF HubInv, Typed, Dispatched
<1>6. \A m \in r.batch \cup InPump(q) : at[q][m] >= 0 /\ at[q][m] < r.next
  BY <1>1, <1>4, <1>5 DEF ReadOn
<1>7. \A m \in InPump(q), n \in r.batch : at[q][m] < at[q][n]
  <2> TAKE m \in InPump(q), n \in r.batch
  <2>1. at[q][m] \in Int /\ at[q][n] \in Int /\ at[q][m] < reader[q].next
    BY <1>4, <1>5, Zenon DEF ReadOn
  <2>2. CASE n \in reader[q].batch
    BY <1>5, <2>2, Zenon DEF ReadOn
  <2>3. CASE n \notin reader[q].batch
    BY <1>1, <1>4, <2>1, <2>3
  <2> QED BY <2>2, <2>3, Zenon
<1>8. ASSUME NEW m \in Messages, Pending(q, m)
      PROVE  /\ m \in stored[q] /\ at[q][m] > offset[q]
             /\ at[q][m] < r.next => m \in r.batch \cup InPump(q)
  <2>1. m \in stored[q] /\ at[q][m] > offset[q] /\ m \in body /\ m \notin expired[q]
    BY <1>5, <1>8, PendingBody, Zenon DEF ReadOn, Pending, Done
  <2> QED BY <1>1, <1>4, <1>5, <1>8, <2>1 DEF ReadOn
<1>9. \A m : Pending(q, m)' <=> Pending(q, m)
  BY Zenon DEF Pending, Done
<1> QED BY <1>2, <1>3, <1>6, <1>7, <1>8, <1>9, Zenon DEF ReadOn

(* Fetch, and the second read of the pump.                                 *)
LEMMA FetchInv == ASSUME HubInv, NEW q \in Queues, Fetch(q) PROVE HubInv'
<1>1. GetNext(q) /\ UNCHANGED <<disk, head, tail, offset, pump, toPut, toAppend, cleaner, sent, settled, expired, torn>>
  BY Zenon DEF Fetch, past
<1>2. \A p \in Queues : InPump(p)' = InPump(p)
  BY <1>1, Zenon DEF InPump, Current
<1>3. /\ reader' \in [Queues -> Readers] /\ \A p \in Queues \ {q} : reader'[p] = reader[p]
      /\ Laid(q)' /\ ReadOn(q)'
  BY <1>1, <1>2, ReadsOn, Zenon DEF disk
<1>4. SendsOnly(q)
  BY <1>1, <1>2, <1>3, SavedStays, Zenon DEF SendsOnly, HubInv, Typed, disk
<1>5. Pumping(q[1])'
  BY <1>1, QueueParts, PumpingFrame, Zenon DEF HubInv, disk
<1> QED BY <1>3, <1>4, <1>5, OneQueue, Zenon

(* The state of a pump changes, not its batch.                             *)
LEMMA PumpToMoves ==
  ASSUME HubInv, NEW e \in Endpoints, NEW s \in PumpStates, PumpTo(e, s), NEW c, c = Current(e)
  PROVE  /\ pump' \in [Endpoints -> Pumps]
         /\ pump'[e].state = s /\ pump'[e].batch = pump[e].batch
         /\ \A f \in Endpoints \ {e} : pump'[f] = pump[f]
         /\ \A q \in Queues : InPump(q)' = InPump(q)
<1>1. PICK r \in Pumps :
        /\ r = Pump(s, pump[e].priority, pump[e].batch, pump[e].failed)
        /\ r.priority = pump[e].priority /\ r.state = s /\ r.batch = pump[e].batch
  BY Fields, PumpType DEF HubInv
<1>2. pump' = [pump EXCEPT ![e] = r]
  BY <1>1, Zenon DEF PumpTo
<1>3. /\ pump' \in [Endpoints -> Pumps] /\ pump'[e] = r
      /\ \A f \in Endpoints \ {e} : pump'[f] = pump[f]
      /\ \A q \in Queues \ {c} : InPump(q)' = InPump(q)
      /\ InPump(c)' = r.batch
  <2>1. Typed /\ (r.priority = pump[e].priority \/ r.batch = {})
    BY <1>1, Zenon DEF HubInv
  <2> QED BY <1>2, <2>1, PumpMove, Zenon
<1>4. c \in Queues /\ InPump(c) = pump[e].batch
  BY CurrentQueue, Zenon DEF HubInv
<1> QED BY <1>1, <1>3, <1>4, Zenon

(* Where the fetch found nothing, the pump reads once more itself.         *)
LEMMA ReadAgainInv == ASSUME HubInv, NEW e \in Endpoints, ReadAgain(e) PROVE HubInv'
<1>1. PICK c \in Queues : c = Current(e) /\ c[1] = e
  BY CurrentQueue, Zenon DEF HubInv
<1>2. /\ GetNext(c) /\ PumpTo(e, "reread") /\ pump[e].state = "look"
      /\ UNCHANGED <<disk, head, tail, offset, toPut, toAppend, cleaner, sent, settled, expired, torn>>
  BY <1>1, Zenon DEF ReadAgain, past
<1>3. "reread" \in PumpStates
  BY Zenon DEF PumpStates
<1>4. /\ pump' \in [Endpoints -> Pumps]
      /\ pump'[e].state = "reread" /\ pump'[e].batch = pump[e].batch
      /\ \A f \in Endpoints \ {e} : pump'[f] = pump[f]
      /\ \A q \in Queues : InPump(q)' = InPump(q)
  BY <1>1, <1>2, <1>3, PumpToMoves, Zenon
<1>5. /\ reader' \in [Queues -> Readers] /\ \A p \in Queues \ {c} : reader'[p] = reader[p]
      /\ Laid(c)' /\ ReadOn(c)'
  BY <1>2, <1>4, ReadsOn, Zenon DEF disk
<1>6. SendsOnly(c)
  BY <1>1, <1>2, <1>4, <1>5, SavedStays, Zenon DEF SendsOnly, HubInv, Typed, disk
<1>7. Pumping(e)'
  BY <1>2, <1>4, Zenon DEF Pumping, HubInv
<1> QED BY <1>1, <1>5, <1>6, <1>7, OneQueue, Zenon

(* The retry timer and a new endpoint: the failed batch is sent again.     *)
LEMMA SendAgainInv ==
  ASSUME HubInv, NEW e \in Endpoints, NEW s \in PumpStates, PumpTo(e, s), s # "checkpointing",
         s \in {"look", "reread"} => pump[e].state \in {"look", "reread"},
         UNCHANGED <<disk, head, tail, offset, reader, toPut, toAppend, cleaner, sent, settled, expired, torn>>
  PROVE  HubInv'
<1>1. PICK c \in Queues : c = Current(e) /\ c[1] = e
  BY CurrentQueue, Zenon DEF HubInv
<1>2. /\ pump' \in [Endpoints -> Pumps]
      /\ pump'[e].state = s /\ pump'[e].batch = pump[e].batch
      /\ \A f \in Endpoints \ {e} : pump'[f] = pump[f]
      /\ \A q \in Queues : InPump(q)' = InPump(q)
  BY <1>1, PumpToMoves, Zenon
<1>3. SendsOnly(c)
  BY <1>1, <1>2, SavedStays, Zenon DEF SendsOnly, HubInv, Typed, disk
<1>4. Pumping(e)'
  BY <1>2, Zenon DEF Pumping, HubInv
<1>5. Laid(c)'
  BY DEF HubInv, Laid, disk
<1>6. ReadOn(c)'
  <2>1. Done(c)' = Done(c)
    BY Zenon DEF Done
  <2> QED BY <1>2, <2>1, ReadOnFrame, Zenon DEF HubInv, disk
<1> QED BY <1>1, <1>3, <1>4, <1>5, <1>6, OneQueue, Zenon

(* An endpoint dies or is alive again: no message moves.                   *)
LEMMA LivesInv ==
  ASSUME HubInv,
         UNCHANGED <<disk, head, tail, offset, reader, pump, toPut, toAppend, cleaner, sent, settled, expired, torn>>
  PROVE  HubInv'
<1>1. Typed'
  BY Zenon DEF HubInv, Typed, disk
<1>2. Dispatched' /\ Cleaning' /\ Counted'
  BY SendingFrame DEF HubInv, Typed, disk
<1>3. ASSUME NEW q \in Queues PROVE Laid(q)' /\ ReadOn(q)'
  BY DEF HubInv, Laid, ReadOn, Pending, InPump, Current, Done, disk
<1>4. ASSUME NEW e \in Endpoints PROVE Pumping(e)'
  BY Zenon DEF HubInv, Pumping, Admitted, Current, disk
<1> QED BY <1>1, <1>2, <1>3, <1>4, Zenon DEF HubInv

(* The batch of the reader becomes the batch of the pump.                  *)
LEMMA TakeInv == ASSUME HubInv, NEW e \in Endpoints, Take(e) PROVE HubInv'
<1>1. PICK c \in Queues : c = Current(e) /\ c[1] = e /\ InPump(c) = pump[e].batch
  BY CurrentQueue, Zenon DEF HubInv
<1>2. /\ pump[e].state \in {"look", "reread"} /\ reader[c].batch \subseteq Messages
      /\ pump[e].priority \in Priorities /\ reader[c].next \in Int
  BY <1>1, Fields, Zenon DEF Take, HubInv
<1>3. PICK r \in Pumps :
        /\ r = Pump("sending", pump[e].priority, reader[c].batch, {})
        /\ r.priority = pump[e].priority /\ r.state = "sending" /\ r.batch = reader[c].batch
  BY <1>2, PumpType DEF PumpStates
<1>4. /\ pump' = [pump EXCEPT ![e] = r]
      /\ UNCHANGED <<disk, head, tail, offset, toPut, toAppend, cleaner, sent, settled, expired, torn>>
  BY <1>1, <1>3, Zenon DEF Take
<1>5. Typed /\ (r.priority = pump[e].priority \/ r.batch = {})
  BY <1>3, Zenon DEF HubInv
<1>6. /\ pump' \in [Endpoints -> Pumps] /\ pump'[e] = r
      /\ \A f \in Endpoints \ {e} : pump'[f] = pump[f]
      /\ \A q \in Queues \ {c} : InPump(q)' = InPump(q)
      /\ InPump(c)' = r.batch
  BY <1>1, <1>4, <1>5, PumpMove, Zenon
<1>7. PICK t \in Readers : reader' = [reader EXCEPT ![c] = t] /\ t.next = reader[c].next /\ t.batch = {}
  <2>1. PICK s \in {"running", "done"} : reader' = [reader EXCEPT ![c] = Reader(s, reader[c].next, {})]
    BY <1>1, Zenon DEF Take
  <2>2. /\ Reader(s, reader[c].next, {}) \in Readers
        /\ Reader(s, reader[c].next, {}).next = reader[c].next /\ Reader(s, reader[c].next, {}).batch = {}
    BY <1>2, ReaderType
  <2> QED BY <2>1, <2>2, Zenon
<1>8. /\ reader' \in [Queues -> Readers] /\ reader'[c] = t
      /\ \A q \in Queues \ {c} : reader'[q] = reader[q]
  BY <1>7, Zenon DEF HubInv, Typed
<1>9. SendsOnly(c)
  BY <1>1, <1>4, <1>6, <1>8, SavedStays, Zenon DEF SendsOnly, HubInv, Typed, disk
<1>10. Pumping(e)'
  BY <1>3, <1>6, Zenon DEF Pumping
<1>11. Laid(c)'
  BY <1>4, <1>7, <1>8 DEF HubInv, Laid, disk
<1>12. ReadOn(c)'
  <2>1. ReadOn(c) /\ InPump(c) = {}
    BY <1>1, <1>2, Zenon DEF HubInv, Pumping
  <2>2. \A m : Pending(c, m)' <=> Pending(c, m)
    BY <1>4, Zenon DEF Pending, Done, disk
  <2>3. /\ reader'[c].next = reader[c].next /\ reader'[c].batch = {} /\ InPump(c)' = reader[c].batch
        /\ UNCHANGED <<at, stored, offset>>
    BY <1>3, <1>4, <1>6, <1>7, <1>8, Zenon DEF disk
  <2> QED BY <2>1, <2>2, <2>3, Zenon DEF ReadOn
<1> QED BY <1>1, <1>9, <1>10, <1>11, <1>12, OneQueue, Zenon

(* A pump without a batch that looks at another queue.                     *)
LEMMA NextPriorityInv == ASSUME HubInv, NEW e \in Endpoints, NextPriority(e) PROVE HubInv'
<1>1. PICK c \in Queues : c = Current(e) /\ c[1] = e /\ InPump(c) = pump[e].batch
  BY CurrentQueue, Zenon DEF HubInv
<1>2. /\ InPump(c) = {}
      /\ UNCHANGED <<disk, head, tail, offset, reader, toPut, toAppend, cleaner, sent, settled, expired, torn>>
  BY <1>1, Zenon DEF NextPriority, past, HubInv, Pumping
<1>3. PICK r \in Pumps : pump' = [pump EXCEPT ![e] = r] /\ r.state = "look" /\ r.batch = {}
  <2> DEFINE lower == {p \in Priorities : p > pump[e].priority}
  <2>1. pump' = [pump EXCEPT ![e] = IF lower = {} THEN Resting ELSE Looking(MinOf(lower))]
    BY Zenon DEF NextPriority, Current
  <2>2. CASE lower = {}
    BY <2>1, <2>2, RestingType, Zenon
  <2>3. CASE lower # {}
    <3>1. MinOf(lower) \in Priorities
      BY <2>3, MinOfPriorities, Zenon
    <3> HIDE DEF lower
    <3> QED BY <2>1, <2>3, <3>1, LookingType, Zenon
  <2> QED BY <2>2, <2>3, Zenon
<1>4. Typed /\ (r.priority = pump[e].priority \/ r.batch = {})
  BY <1>3, Zenon DEF HubInv
<1>5. /\ pump' \in [Endpoints -> Pumps] /\ pump'[e] = r
      /\ \A f \in Endpoints \ {e} : pump'[f] = pump[f]
      /\ \A q \in Queues \ {c} : InPump(q)' = InPump(q)
      /\ InPump(c)' = r.batch
  BY <1>1, <1>3, <1>4, PumpMove, Zenon
<1>6. SendsOnly(c)
  BY <1>1, <1>2, <1>5, SavedStays, Zenon DEF SendsOnly, HubInv, Typed, disk
<1>7. Pumping(e)'
  BY <1>3, <1>5, Zenon DEF Pumping
<1>8. Laid(c)'
  BY <1>2, Zenon DEF HubInv, Laid, disk
<1>9. ReadOn(c)'
  <2>1. Done(c)' = Done(c)
    BY <1>2, Zenon DEF Done
  <2> QED BY <1>2, <1>3, <1>5, <2>1, ReadOnFrame, Zenon DEF HubInv, disk
<1> QED BY <1>1, <1>6, <1>7, <1>8, <1>9, OneQueue, Zenon
-----------------------------------------------------------------------------
(* Sending and checkpointing.                                              *)

(* What is sent is settled unless it failed.                               *)
LEMMA SendInv ==
  ASSUME HubInv, NEW e \in Endpoints, NEW F \in SUBSET Messages, Send(e, F)
  PROVE  HubInv'
<1>1. PICK c \in Queues : c = Current(e) /\ c[1] = e /\ InPump(c) = pump[e].batch
  BY CurrentQueue, Zenon DEF HubInv
<1>2. pump[e].priority \in Priorities /\ pump[e].batch \subseteq Messages
  BY Fields, Zenon DEF HubInv
<1>3. PICK r \in Pumps :
        /\ r = Pump("checkpointing", pump[e].priority, pump[e].batch, F)
        /\ r.priority = pump[e].priority /\ r.state = "checkpointing" /\ r.batch = pump[e].batch /\ r.failed = F
  BY <1>2, PumpType DEF PumpStates
<1>4. /\ pump' = [pump EXCEPT ![e] = r]
      /\ settled' = [settled EXCEPT ![c] = @ \cup (Admitted(e) \ F)]
      /\ UNCHANGED <<disk, head, tail, offset, reader, toPut, toAppend, cleaner, sent, expired, torn>>
  BY <1>1, <1>3, Zenon DEF Send
<1>5. Typed /\ (r.priority = pump[e].priority \/ r.batch = {})
  BY <1>3, Zenon DEF HubInv
<1>6. /\ pump' \in [Endpoints -> Pumps] /\ pump'[e] = r
      /\ \A f \in Endpoints \ {e} : pump'[f] = pump[f]
      /\ \A q \in Queues \ {c} : InPump(q)' = InPump(q)
      /\ InPump(c)' = r.batch
  BY <1>1, <1>4, <1>5, PumpMove, Zenon
<1>7. /\ settled' \in [Queues -> SUBSET Messages] /\ settled'[c] = settled[c] \cup (Admitted(e) \ F)
      /\ \A q \in Queues \ {c} : settled'[q] = settled[q]
  BY <1>2, <1>4, Zenon DEF HubInv, Typed, Admitted
<1>8. SendsOnly(c)
  BY <1>1, <1>4, <1>6, <1>7, SavedStays, Zenon DEF SendsOnly, HubInv, Typed, disk
<1>9. Pumping(e)'
  <2>1. Current(e)' = c
    BY <1>1, <1>3, <1>6, Zenon DEF Current
  <2>2. Admitted(e)' = Admitted(e)
    BY <1>1, <1>3, <1>4, <1>6, <2>1 DEF Admitted, disk
  <2>3. F \subseteq pump[e].batch
    BY Zenon DEF Send, Failures, Admitted
  <2> QED BY <1>3, <1>6, <1>7, <2>1, <2>2, <2>3, Zenon DEF Pumping
<1>10. Laid(c)'
  BY <1>4, Zenon DEF HubInv, Laid, disk
<1>11. ReadOn(c)'
  <2>1. Done(c) \subseteq Done(c)'
    BY <1>4, <1>7, Zenon DEF Done
  <2> QED BY <1>1, <1>3, <1>4, <1>6, <2>1, ReadOnFrame, Zenon DEF HubInv, disk
<1> QED BY <1>1, <1>8, <1>9, <1>10, <1>11, OneQueue, Zenon

(* Checkpointer.CommitAsync moves the checkpoint forward, in memory and    *)
(* maybe on disk, to a message that is done and before all that remain.    *)
LEMMA Commits ==
  ASSUME HubInv, NEW c \in Queues, NEW done \in SUBSET Messages, NEW rest \in SUBSET Messages, NEW d,
         Commit(c, done, rest, d)
  PROVE  /\ saved' \in [Queues -> Int] /\ offset' \in [Queues -> Int]
         /\ \A q \in Queues \ {c} : saved'[q] = saved[q] /\ offset'[q] = offset[q]
         /\ saved[c] <= saved'[c] /\ saved'[c] <= offset'[c]
         /\ \/ offset'[c] = offset[c]
            \/ \E m \in done : offset'[c] = at[c][m] /\ \A n \in rest : at[c][m] < at[c][n]
<1>1. /\ saved \in [Queues -> Int] /\ offset \in [Queues -> Int] /\ \A m \in Messages : at[c][m] \in Int
      /\ saved[c] <= offset[c]
  BY DEF HubInv, Typed, Laid
<1>2. CASE UNCHANGED <<offset, saved>>
  BY <1>1, <1>2
<1>3. ASSUME NEW last \in done, \A n \in rest : at[c][last] < at[c][n], at[c][last] > offset[c],
             offset' = [offset EXCEPT ![c] = at[c][last]], SaveCheckpoint(c, at[c][last], d)
      PROVE  /\ saved' \in [Queues -> Int] /\ offset' \in [Queues -> Int]
             /\ \A q \in Queues \ {c} : saved'[q] = saved[q] /\ offset'[q] = offset[q]
             /\ saved[c] <= saved'[c] /\ saved'[c] <= offset'[c]
             /\ offset'[c] = at[c][last]
  <2>1. at[c][last] \in Int
    BY <1>1, Zenon
  <2>2. /\ offset' \in [Queues -> Int] /\ offset'[c] = at[c][last]
        /\ \A q \in Queues \ {c} : offset'[q] = offset[q]
    BY <1>1, <1>3, <2>1, Zenon
  <2>3. CASE saved' = [saved EXCEPT ![c] = at[c][last]]
    BY <1>1, <1>3, <2>1, <2>2, <2>3
  <2>4. CASE saved' = saved
    BY <1>1, <1>3, <2>1, <2>2, <2>4
  <2> QED BY <1>3, <2>3, <2>4, Zenon DEF SaveCheckpoint
<1> QED BY <1>2, <1>3, Zenon DEF Commit

(* A checkpoint of messages of the pump passes nothing that is pending,    *)
(* when the pump keeps what remains.                                       *)
LEMMA CommitsOn ==
  ASSUME HubInv, NEW c \in Queues, NEW done \in SUBSET InPump(c), NEW rest \in SUBSET InPump(c),
         saved'[c] \in Int, offset'[c] \in Int, saved[c] <= saved'[c], saved'[c] <= offset'[c],
         \/ offset'[c] = offset[c]
         \/ \E m \in done : offset'[c] = at[c][m] /\ \A n \in rest : at[c][m] < at[c][n],
         UNCHANGED <<stored, at, head, tail, reader>>,
         InPump(c)' = rest, Done(c) \subseteq Done(c)',
         \A m \in InPump(c) : m \in rest \/ m \in Done(c)' \/ at[c][m] <= offset[c]
  PROVE  Laid(c)' /\ ReadOn(c)'
<1>1. /\ saved[c] \in Int /\ offset[c] \in Int /\ tail[c] \in Int /\ reader[c].next \in Int
      /\ \A m \in Messages : at[c][m] \in Int
      /\ reader[c].batch \subseteq Messages /\ InPump(c) \subseteq Messages
  BY QueueParts, Fields, Zenon DEF HubInv, Typed, InPump
<1>2. Laid(c) /\ ReadOn(c)
  BY Zenon DEF HubInv
<1>3. offset'[c] <= tail[c]
  BY <1>1, <1>2 DEF Laid, ReadOn
<1>4. Laid(c)'
  BY <1>1, <1>2, <1>3 DEF Laid
<1>5. ASSUME NEW m \in Messages, Pending(c, m)'
      PROVE  /\ m \in stored[c] /\ at[c][m] > offset'[c]
             /\ at[c][m] < reader[c].next => m \in reader[c].batch \cup rest
  <2>1. Pending(c, m)
    BY <1>5, Zenon DEF Pending
  <2>2. m \notin Done(c)'
    BY <1>5, Zenon DEF Pending
  <2>3. /\ m \in stored[c] /\ at[c][m] > offset[c]
        /\ at[c][m] < reader[c].next => m \in reader[c].batch \cup rest
    <3>1. /\ m \in stored[c] /\ at[c][m] > offset[c]
          /\ at[c][m] < reader[c].next => m \in reader[c].batch \cup InPump(c)
      BY <1>2, <2>1, Zenon DEF ReadOn
    <3>2. at[c][m] > offset[c] => ~(at[c][m] <= offset[c])
      BY <1>1
    <3> QED BY <2>2, <3>1, <3>2, Zenon
  <2>4. ASSUME NEW k \in done, offset'[c] = at[c][k], \A n \in rest : at[c][k] < at[c][n]
        PROVE  at[c][m] > at[c][k]
    BY <1>1, <1>2, <2>3, <2>4 DEF ReadOn
  <2> QED BY <2>3, <2>4, Zenon
<1>6. ReadOn(c)'
  BY <1>2, <1>5, Zenon DEF ReadOn
<1> QED BY <1>4, <1>6, Zenon

(* The checkpoint of what was sent; what failed is kept for a retry.       *)
LEMMA CheckpointInv == ASSUME HubInv, NEW e \in Endpoints, Checkpoint(e) PROVE HubInv'
<1>1. PICK c \in Queues : c = Current(e) /\ c[1] = e /\ InPump(c) = pump[e].batch
  BY CurrentQueue, Zenon DEF HubInv
<1>2. /\ pump[e].priority \in Priorities /\ pump[e].batch \subseteq Messages
      /\ pump[e].failed \subseteq pump[e].batch /\ Admitted(e) \ pump[e].failed \subseteq settled[c]
  BY <1>1, Fields, Zenon DEF HubInv, Checkpoint, Pumping
<1>3. PICK rest \in SUBSET InPump(c) : rest = pump[e].failed
  BY <1>1, <1>2, Zenon
<1>4. PICK done \in SUBSET InPump(c) : done = Admitted(e) \ rest
  BY <1>1, Zenon DEF Admitted
<1>5. /\ Commit(c, done, rest, FALSE)
      /\ UNCHANGED <<body, count, stored, at, head, tail, reader, toPut, toAppend, cleaner, sent, settled, expired, torn>>
      /\ pump' = [pump EXCEPT ![e] = IF rest = {} THEN Resting ELSE Pump("failing", pump[e].priority, rest, {})]
  BY <1>1, <1>3, <1>4, Zenon DEF Checkpoint
<1>6. PICK r \in Pumps : /\ pump' = [pump EXCEPT ![e] = r] /\ r.batch = rest /\ r.state # "checkpointing"
                         /\ r.state \in {"look", "reread"} => rest = {}
                         /\ r.priority = pump[e].priority \/ r.batch = {}
  <2>1. CASE rest = {}
    BY <1>5, <2>1, RestingType, Zenon
  <2>2. CASE rest # {}
    <3>1. rest \subseteq Messages
      BY <1>1, <1>2, Zenon
    <3>2. PICK r \in Pumps : /\ r = Pump("failing", pump[e].priority, rest, {}) /\ r.batch = rest
                             /\ r.state = "failing" /\ r.priority = pump[e].priority
      BY <1>2, <3>1, PumpType DEF PumpStates
    <3> QED BY <1>5, <2>2, <3>2, Zenon
  <2> QED BY <2>1, <2>2, Zenon
<1>7. /\ pump' \in [Endpoints -> Pumps] /\ pump'[e] = r
      /\ \A f \in Endpoints \ {e} : pump'[f] = pump[f]
      /\ \A q \in Queues \ {c} : InPump(q)' = InPump(q)
      /\ InPump(c)' = rest
  BY <1>1, <1>6, PumpMove, Zenon DEF HubInv
<1>8. /\ saved' \in [Queues -> Int] /\ offset' \in [Queues -> Int]
      /\ \A q \in Queues \ {c} : saved'[q] = saved[q] /\ offset'[q] = offset[q]
      /\ saved[c] <= saved'[c] /\ saved'[c] <= offset'[c]
      /\ \/ offset'[c] = offset[c]
         \/ \E m \in done : offset'[c] = at[c][m] /\ \A n \in rest : at[c][m] < at[c][n]
  <2>1. done \in SUBSET Messages /\ rest \in SUBSET Messages
    BY <1>1, <1>2, Zenon
  <2>2. PICK d : Commit(c, done, rest, d)
    BY <1>5, Zenon
  <2> QED BY <2>1, <2>2, Commits
<1>9. SendsOnly(c)
  BY <1>1, <1>5, <1>7, <1>8, Zenon DEF SendsOnly, HubInv, Typed
<1>10. \A m \in InPump(c) : m \in rest \/ m \in Done(c)' \/ at[c][m] <= offset[c]
  <2> SUFFICES ASSUME NEW m \in InPump(c), m \notin rest, ~(at[c][m] <= offset[c]) PROVE m \in Done(c)'
    BY Zenon
  <2>1. at[c][m] \in Int /\ offset[c] \in Int
    BY <1>1, <1>2 DEF HubInv, Typed
  <2>2. at[c][m] > offset[c]
    BY <2>1
  <2>3. m \in Admitted(e)
    BY <1>1, <2>2, Zenon DEF Admitted
  <2> QED BY <1>2, <1>3, <1>5, <2>3, Zenon DEF Done
<1>11. Done(c) \subseteq Done(c)'
  BY <1>5, Zenon DEF Done
<1>12. Laid(c)' /\ ReadOn(c)'
  <2>1. saved'[c] \in Int /\ offset'[c] \in Int
    BY <1>8, Zenon
  <2>2. UNCHANGED <<stored, at, head, tail, reader>> /\ InPump(c)' = rest
    BY <1>5, <1>7, Zenon
  <2>3. /\ saved[c] <= saved'[c] /\ saved'[c] <= offset'[c]
        /\ \/ offset'[c] = offset[c]
           \/ \E m \in done : offset'[c] = at[c][m] /\ \A n \in rest : at[c][m] < at[c][n]
    BY <1>8, Zenon
  <2> QED BY <1>10, <1>11, <2>1, <2>2, <2>3, CommitsOn, Zenon
<1>13. Pumping(e)'
  BY <1>6, <1>7, Zenon DEF Pumping
<1> QED BY <1>1, <1>9, <1>12, <1>13, OneQueue, Zenon

(* The batch of a dead endpoint is dropped: settled and checkpointed.      *)
LEMMA DropInv == ASSUME HubInv, NEW e \in Endpoints, Drop(e) PROVE HubInv'
<1>1. PICK c \in Queues : c = Current(e) /\ c[1] = e /\ InPump(c) = pump[e].batch
  BY CurrentQueue, Zenon DEF HubInv
<1>2. PICK done \in SUBSET Messages : done = pump[e].batch
  BY Fields, Zenon DEF HubInv
<1>3. /\ Commit(c, done, {}, TRUE) /\ settled' = [settled EXCEPT ![c] = @ \cup done]
      /\ UNCHANGED <<body, count, stored, at, head, tail, reader, toPut, toAppend, cleaner, sent, expired, torn>>
      /\ pump' = [pump EXCEPT ![e] = Resting]
  BY <1>1, <1>2, Zenon DEF Drop
<1>4. PICK r \in Pumps : pump' = [pump EXCEPT ![e] = r] /\ r.batch = {} /\ r.state = "look"
  BY <1>3, RestingType, Zenon
<1>5. /\ pump' \in [Endpoints -> Pumps] /\ pump'[e] = r
      /\ \A f \in Endpoints \ {e} : pump'[f] = pump[f]
      /\ \A q \in Queues \ {c} : InPump(q)' = InPump(q)
      /\ InPump(c)' = {}
  BY <1>1, <1>4, PumpMove, Zenon DEF HubInv
<1>6. /\ saved' \in [Queues -> Int] /\ offset' \in [Queues -> Int]
      /\ \A q \in Queues \ {c} : saved'[q] = saved[q] /\ offset'[q] = offset[q]
      /\ saved[c] <= saved'[c] /\ saved'[c] <= offset'[c]
      /\ \/ offset'[c] = offset[c]
         \/ \E m \in done : offset'[c] = at[c][m] /\ \A n \in {} : at[c][m] < at[c][n]
  <2>1. PICK rest \in SUBSET Messages : rest = {}
    BY Zenon
  <2>2. PICK d : Commit(c, done, rest, d)
    BY <1>3, <2>1, Zenon
  <2> QED BY <2>1, <2>2, Commits, Zenon
<1>7. /\ settled' \in [Queues -> SUBSET Messages] /\ settled'[c] = settled[c] \cup done
      /\ \A q \in Queues \ {c} : settled'[q] = settled[q]
  BY <1>3, Zenon DEF HubInv, Typed
<1>8. SendsOnly(c)
  BY <1>1, <1>3, <1>5, <1>6, <1>7, Zenon DEF SendsOnly, HubInv, Typed
<1>9. Done(c) \subseteq Done(c)' /\ InPump(c) \subseteq Done(c)'
  BY <1>1, <1>2, <1>3, <1>7, Zenon DEF Done
<1>10. Laid(c)' /\ ReadOn(c)'
  <2>1. done \in SUBSET InPump(c) /\ saved'[c] \in Int /\ offset'[c] \in Int
    BY <1>1, <1>2, <1>6, Zenon
  <2> QED BY <1>3, <1>5, <1>6, <1>9, <2>1, CommitsOn, Zenon
<1>11. Pumping(e)'
  BY <1>4, <1>5, Zenon DEF Pumping
<1> QED BY <1>1, <1>8, <1>10, <1>11, OneQueue, Zenon
=============================================================================
