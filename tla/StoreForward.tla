---------------------------- MODULE StoreForward ----------------------------
(***************************************************************************)
(* Store and forward of the Edge Hub.  A message that a route matches is   *)
(* put in the store once, counted by the queues that refer to it, and      *)
(* every queue, of one endpoint and one priority, holds a reference to it. *)
(* The pump of an endpoint reads its queues, the highest priority first,   *)
(* and has the state machine of the queue send what it read, retry what    *)
(* failed and move the checkpoint.  A cleanup removes what is processed or *)
(* expired.  References, bodies and checkpoints survive a crash.           *)
(***************************************************************************)
EXTENDS Integers, FiniteSets

CONSTANTS
  Messages,         \* messages, numbered in the order in which they are sent
  Endpoints,        \* endpoints of the routes
  CloudEndpoints,   \* those of them that are the upstream hub
  Priorities,       \* priorities of the routes; the smallest goes first
  Route,            \* the queues that the routes give each message
  ClientOf,         \* the client that sent a message
  Expiring,         \* messages whose time to live may end
  BatchSize,        \* messages that a pump sends at once
  CheckEntireQueue, \* whether a cleanup looks behind the head of a queue
  MaxCrashes,       \* crashes of the hub
  MaxFaults         \* failed store writes and errors that are not transient

Queues == Endpoints \X Priorities
None == 0

ASSUME StoreForwardAssumption ==
  /\ Messages \subseteq Nat \ {0} /\ IsFiniteSet(Messages)
  /\ IsFiniteSet(Endpoints)
  /\ Priorities \subseteq Nat /\ IsFiniteSet(Priorities) /\ Priorities # {}
  /\ CloudEndpoints \subseteq Endpoints
  /\ Route \in [Messages -> SUBSET Queues]
  /\ Expiring \subseteq Messages
  /\ BatchSize \in Nat \ {0}
  /\ CheckEntireQueue \in BOOLEAN
  /\ MaxCrashes \in Nat /\ MaxFaults \in Nat

VARIABLES
  body,       \* disk: messages whose body is in the entity store
  count,      \* disk: RefCount of a body
  stored,     \* disk: messages that a queue refers to
  at,         \* disk: offset of a message in a queue, -1 before it is appended
  saved,      \* disk: checkpoint of a queue
  savedDead,  \* disk: whether the checkpoint has a LastFailedRevivalTime
  head, tail, \* offsets of the sequential store of a queue
  offset,     \* Checkpointer.Offset of a queue
  dead,       \* whether the state machine of a queue is DeadIdle
  reader,     \* StoreMessagesProvider of a queue
  pump,       \* SendMessagesPump of an endpoint with its current command
  toPut,      \* dispatched messages whose body is to be put
  toAppend,   \* dispatched messages whose reference is to be appended
  cleaner,    \* CleanupProcessor
  sent,       \* messages that were routed
  settled,    \* messages that a queue has sent, found invalid or dropped
  expired,    \* messages whose time to live in a queue is over
  torn,       \* messages of which a change of several writes was interrupted
  earlier,    \* messages that were appended to a queue before a message
  overtaken,  \* batches sent while a queue of higher priority was waiting
  crashes, faults

disk == <<body, count, stored, at, saved, savedDead>>
sending == <<offset, dead, reader, pump>>
past == <<settled, expired, torn, earlier, overtaken, crashes, faults>>
vars == <<disk, head, tail, sending, toPut, toAppend, cleaner, sent, past>>

MinOf(S) == CHOOSE x \in S : \A y \in S : x <= y
MaxOf(S) == CHOOSE x \in S : \A y \in S : x >= y

Reader(s, n, b) == [state |-> s, next |-> n, batch |-> b]
Pump(s, p, b, f) == [state |-> s, priority |-> p, batch |-> b, failed |-> f]
Cleaner(s, q, u, m, e, t) == [state |-> s, queue |-> q, upto |-> u, msg |-> m, end |-> e, todo |-> t]

NewReader(checkpoint) == Reader("none", checkpoint + 1, {})
Looking(p) == Pump("look", p, {}, {})
Resting == Looking(MinOf(Priorities))
NotCleaning == Cleaner("idle", None, -1, None, "head", {})

Init ==
  /\ body = {}
  /\ count = [m \in Messages |-> 0]
  /\ stored = [q \in Queues |-> {}]
  /\ at = [q \in Queues |-> [m \in Messages |-> -1]]
  /\ saved = [q \in Queues |-> -1]
  /\ savedDead = [q \in Queues |-> FALSE]
  /\ head = [q \in Queues |-> 0]
  /\ tail = [q \in Queues |-> -1]
  /\ offset = [q \in Queues |-> -1]
  /\ dead = [q \in Queues |-> FALSE]
  /\ reader = [q \in Queues |-> NewReader(-1)]
  /\ pump = [e \in Endpoints |-> Resting]
  /\ toPut = {} /\ toAppend = {}
  /\ cleaner = NotCleaning
  /\ sent = {}
  /\ settled = [q \in Queues |-> {}]
  /\ expired = [q \in Queues |-> {}]
  /\ torn = {}
  /\ earlier = [q \in Queues |-> [m \in Messages |-> {}]]
  /\ overtaken = [q \in Queues |-> 0]
  /\ crashes = 0 /\ faults = 0

-----------------------------------------------------------------------------
(* A message is routed: Dispatcher.DispatchAsync invokes the executors of   *)
(* all its endpoints at once, and each adds it to its queue.                *)

Dispatch(m) ==
  /\ m \notin sent
  /\ \A n \in Messages : n < m => n \in sent
  /\ sent' = sent \cup {m}
  /\ toPut' = toPut \cup ({m} \X Route[m])
  /\ UNCHANGED <<disk, head, tail, sending, toAppend, cleaner, past>>

(* The body is put with one reference, or counts one more reference.  A     *)
(* body whose removal the cleanup has already decided is torn.              *)
PutBody(m, q) ==
  /\ <<m, q>> \in toPut
  /\ toPut' = toPut \ {<<m, q>>}
  /\ toAppend' = toAppend \cup {<<m, q>>}
  /\ body' = body \cup {m}
  /\ count' = [count EXCEPT ![m] = IF m \in body THEN @ + 1 ELSE 1]
  /\ torn' = IF cleaner.state = "body" /\ cleaner.msg = m THEN torn \cup {m} ELSE torn
  /\ UNCHANGED <<stored, at, saved, savedDead, head, tail, sending, cleaner, sent,
                 settled, expired, earlier, overtaken, crashes, faults>>

(* The cleanup holds the lock of the tail while it removes the last entry.  *)
TailFree(q) ==
  ~ (cleaner.state \in {"body", "entry"} /\ cleaner.queue = q /\ cleaner.end = "tail")

AppendRef(m, q) ==
  /\ <<m, q>> \in toAppend
  /\ TailFree(q)
  /\ toAppend' = toAppend \ {<<m, q>>}
  /\ stored' = [stored EXCEPT ![q] = @ \cup {m}]
  /\ at' = [at EXCEPT ![q][m] = tail[q] + 1]
  /\ tail' = [tail EXCEPT ![q] = @ + 1]
  /\ earlier' = [earlier EXCEPT ![q][m] = {n \in Messages : at[q][n] >= 0}]
  /\ UNCHANGED <<body, count, saved, savedDead, head, sending, toPut, cleaner, sent,
                 settled, expired, torn, overtaken, crashes, faults>>

(* The reference cannot be written: the body goes, whoever else refers to   *)
(* it, and the sender is told.                                              *)
AppendRefFails(m, q) ==
  /\ <<m, q>> \in toAppend
  /\ TailFree(q)
  /\ faults < MaxFaults
  /\ faults' = faults + 1
  /\ toAppend' = toAppend \ {<<m, q>>}
  /\ body' = body \ {m}
  /\ torn' = torn \cup {m}
  /\ UNCHANGED <<count, stored, at, saved, savedDead, head, tail, sending, toPut, cleaner, sent,
                 settled, expired, earlier, overtaken, crashes>>

(* The time to live of a reference has passed.                             *)
Expire(m, q) ==
  /\ m \in Expiring \cap stored[q]
  /\ m \notin expired[q]
  /\ expired' = [expired EXCEPT ![q] = @ \cup {m}]
  /\ UNCHANGED <<disk, head, tail, sending, toPut, toAppend, cleaner, sent,
                 settled, torn, earlier, overtaken, crashes, faults>>

-----------------------------------------------------------------------------
(* The reader of a queue, which fetches a batch ahead of the pump.          *)

First(q, S, n) == {m \in S : Cardinality({k \in S : at[q][k] < at[q][m]}) < n}

(* SequentialStore.GetBatch: at most n references from an offset on.        *)
GetBatch(q, start, n) ==
  LET from == IF start < head[q] THEN head[q] ELSE start
  IN IF head[q] > tail[q] \/ tail[q] < from THEN {}
     ELSE First(q, {m \in stored[q] : at[q][m] >= from}, n)

(* MessageIterator.GetNext skips what expired and what has no body; the     *)
(* batch is complete when it is full or nothing more is found.              *)
GetNext(q) ==
  LET r == reader[q]
      refs == GetBatch(q, r.next, BatchSize - Cardinality(r.batch))
      found == (refs \ expired[q]) \cap body
  IN \/ /\ refs = {}
        /\ reader' = [reader EXCEPT ![q] = Reader("done", r.next, r.batch)]
     \/ \E last \in refs :
          /\ \A m \in refs : at[q][m] <= at[q][last]
          /\ reader' = [reader EXCEPT ![q] = Reader(
               IF found = {} \/ Cardinality(r.batch \cup found) = BatchSize THEN "done" ELSE "running",
               at[q][last] + 1, r.batch \cup found)]

Current(e) == <<e, pump[e].priority>>
PumpTo(e, s) ==
  pump' = [pump EXCEPT ![e] = Pump(s, pump[e].priority, pump[e].batch, pump[e].failed)]

(* The first look of the pump at a queue makes its reader.                  *)
Fetch(q) ==
  /\ \/ reader[q].state = "running"
     \/ reader[q].state = "none" /\ pump[q[1]].state = "look" /\ Current(q[1]) = q
  /\ GetNext(q)
  /\ UNCHANGED <<disk, head, tail, offset, dead, pump, toPut, toAppend, cleaner, sent, past>>

-----------------------------------------------------------------------------
(* The pump of an endpoint.  It starts to look when a message was added or  *)
(* the batch timeout is over, so that it may look at any time.              *)

(* The prefetched batch only, even if it is empty.                          *)
MutReadAgain(e) ==
  LET q == Current(e) IN
  /\ pump[e].state = "look"
  /\ reader[q].state = "done" /\ reader[q].batch = {}
  /\ PumpTo(e, "reread")
  /\ UNCHANGED <<disk, head, tail, offset, dead, reader, toPut, toAppend, cleaner, sent, past>>

(* Where the fetch found nothing, the pump reads once more itself.          *)
ReadAgain(e) ==
  LET q == Current(e) IN
  /\ pump[e].state = "look"
  /\ reader[q].state = "done" /\ reader[q].batch = {}
  /\ GetNext(q)
  /\ PumpTo(e, "reread")
  /\ UNCHANGED <<disk, head, tail, offset, dead, toPut, toAppend, cleaner, sent, past>>

Unread(q) ==
  \E m \in stored[q] \cap body : at[q][m] >= reader[q].next \/ m \in reader[q].batch

Waiting(e, p) == {q \in Queues : q[1] = e /\ q[2] < p /\ expired[q] = {} /\ Unread(q)}

(* A batch is taken; the next one is fetched while it is sent, unless it    *)
(* took a second read.                                                      *)
Take(e) ==
  LET q == Current(e) IN
  /\ pump[e].state \in {"look", "reread"}
  /\ reader[q].state = "done" /\ reader[q].batch # {}
  /\ pump' = [pump EXCEPT ![e] = Pump("sending", pump[e].priority, reader[q].batch, {})]
  /\ reader' = [reader EXCEPT ![q] =
       Reader(IF pump[e].state = "look" THEN "running" ELSE "done", reader[q].next, {})]
  /\ overtaken' = [r \in Queues |-> IF r = q THEN 0
                                    ELSE IF r \in Waiting(e, q[2]) /\ overtaken[r] < 2 THEN overtaken[r] + 1
                                    ELSE overtaken[r]]
  /\ UNCHANGED <<disk, head, tail, offset, dead, toPut, toAppend, cleaner, sent,
                 settled, expired, torn, earlier, crashes, faults>>

(* An empty queue: on to the next priority, or wait.                        *)
NextPriority(e) ==
  LET q == Current(e)
      lower == {p \in Priorities : p > q[2]}
  IN
  /\ pump[e].state = "reread"
  /\ reader[q].state = "done" /\ reader[q].batch = {}
  /\ pump' = [pump EXCEPT ![e] = IF lower = {} THEN Resting ELSE Looking(MinOf(lower))]
  /\ UNCHANGED <<disk, head, tail, offset, dead, reader, toPut, toAppend, cleaner, sent, past>>

-----------------------------------------------------------------------------
(* The state machine of a queue, for the batch of its pump.                 *)

Admitted(e) == {m \in pump[e].batch : at[Current(e)][m] > offset[Current(e)]}

SameLane(e, m, n) == e \notin CloudEndpoints \/ ClientOf[m] = ClientOf[n]

(* Goes on behind a failure.                                                *)
MutFailures(e) == SUBSET Admitted(e)

(* What an endpoint can fail: after a failure the rest of the messages of   *)
(* the client, for a module of all clients, is not tried.                   *)
Failures(e) ==
  {F \in SUBSET Admitted(e) :
     \A m \in F : \A n \in Admitted(e) :
       SameLane(e, m, n) /\ at[Current(e)][n] > at[Current(e)][m] => n \in F}

(* The endpoint gets the admitted messages, finds them invalid or fails.    *)
Send(e, F) ==
  LET q == Current(e) IN
  /\ pump[e].state = "sending" /\ ~dead[q]
  /\ F \in Failures(e)
  /\ settled' = [settled EXCEPT ![q] = @ \cup (Admitted(e) \ F)]
  /\ pump' = [pump EXCEPT ![e] = Pump("checkpointing", pump[e].priority, pump[e].batch, F)]
  /\ UNCHANGED <<disk, head, tail, offset, dead, reader, toPut, toAppend, cleaner, sent,
                 expired, torn, earlier, overtaken, crashes, faults>>

(* The checkpoint is in memory even if it cannot be written.                *)
SaveCheckpoint(q, o, d) ==
  \/ /\ saved' = [saved EXCEPT ![q] = o]
     /\ savedDead' = [savedDead EXCEPT ![q] = d]
     /\ UNCHANGED faults
  \/ /\ faults < MaxFaults
     /\ faults' = faults + 1
     /\ UNCHANGED <<saved, savedDead>>

(* Up to the last message that was sent.                                    *)
MutCommit(q, done, remaining, d) ==
  \/ /\ \A m \in done : at[q][m] <= offset[q]
     /\ UNCHANGED <<offset, saved, savedDead, faults>>
  \/ \E last \in done :
       /\ at[q][last] > offset[q]
       /\ \A m \in done : at[q][m] <= at[q][last]
       /\ offset' = [offset EXCEPT ![q] = at[q][last]]
       /\ SaveCheckpoint(q, at[q][last], d)

(* Checkpointer.CommitAsync: up to before the first message that remains.   *)
Commit(q, done, remaining, d) ==
  LET low == {m \in done : \A n \in remaining : at[q][m] < at[q][n]}
  IN \/ /\ \A m \in low : at[q][m] <= offset[q]
        /\ UNCHANGED <<offset, saved, savedDead, faults>>
     \/ \E last \in low :
          /\ at[q][last] > offset[q]
          /\ \A m \in low : at[q][m] <= at[q][last]
          /\ offset' = [offset EXCEPT ![q] = at[q][last]]
          /\ SaveCheckpoint(q, at[q][last], d)

(* Empties a queue before the pump looks at the others again.               *)
MutCheckpoint(e) ==
  LET p == pump[e] IN
  /\ p.state = "checkpointing"
  /\ Commit(Current(e), Admitted(e) \ p.failed, p.failed, FALSE)
  /\ pump' = [pump EXCEPT ![e] =
       IF p.failed = {} THEN Looking(p.priority)
       ELSE Pump("failing", p.priority, p.failed, {})]
  /\ UNCHANGED <<body, count, stored, at, head, tail, dead, reader, toPut, toAppend, cleaner, sent,
                 settled, expired, torn, earlier, overtaken, crashes>>

Checkpoint(e) ==
  LET p == pump[e] IN
  /\ p.state = "checkpointing"
  /\ Commit(Current(e), Admitted(e) \ p.failed, p.failed, FALSE)
  /\ pump' = [pump EXCEPT ![e] =
       IF p.failed = {} THEN Resting
       ELSE Pump("failing", p.priority, p.failed, {})]
  /\ UNCHANGED <<body, count, stored, at, head, tail, dead, reader, toPut, toAppend, cleaner, sent,
                 settled, expired, torn, earlier, overtaken, crashes>>

(* The timer of the retry fires.                                            *)
Retry(e) ==
  /\ pump[e].state = "failing"
  /\ PumpTo(e, "sending")
  /\ UNCHANGED <<disk, head, tail, offset, dead, reader, toPut, toAppend, cleaner, sent, past>>

(* An error that is not transient: the machine dies and drops its batch.    *)
Die(e) ==
  LET q == Current(e) IN
  /\ pump[e].state = "sending" /\ ~dead[q] /\ Admitted(e) # {}
  /\ faults < MaxFaults
  /\ faults' = faults + 1
  /\ dead' = [dead EXCEPT ![q] = TRUE]
  /\ UNCHANGED <<disk, head, tail, offset, reader, pump, toPut, toAppend, cleaner, sent,
                 settled, expired, torn, earlier, overtaken, crashes>>

(* A dead machine drops what it is to send until the revive period is over. *)
Drop(e) ==
  LET q == Current(e)
      batch == pump[e].batch
  IN
  /\ pump[e].state = "sending" /\ dead[q]
  /\ settled' = [settled EXCEPT ![q] = @ \cup batch]
  /\ Commit(q, batch, {}, TRUE)
  /\ pump' = [pump EXCEPT ![e] = Resting]
  /\ UNCHANGED <<body, count, stored, at, head, tail, dead, reader, toPut, toAppend, cleaner, sent,
                 expired, torn, earlier, overtaken, crashes>>

Revive(e) ==
  LET q == Current(e) IN
  /\ pump[e].state = "sending" /\ dead[q]
  /\ dead' = [dead EXCEPT ![q] = FALSE]
  /\ UNCHANGED <<disk, head, tail, offset, reader, pump, toPut, toAppend, cleaner, sent, past>>

(* A new endpoint is set once the lock of the machine is free: a batch that *)
(* failed is tried at once, and a dead machine is alive again.              *)
UpdateEndpoint(q) ==
  LET e == q[1]
      current == Current(e) = q
  IN
  /\ ~(current /\ pump[e].state \in {"sending", "checkpointing"})
  /\ dead[q] \/ (current /\ pump[e].state = "failing")
  /\ dead' = [dead EXCEPT ![q] = FALSE]
  /\ PumpTo(e, IF current /\ pump[e].state = "failing" THEN "sending" ELSE pump[e].state)
  /\ UNCHANGED <<disk, head, tail, offset, reader, toPut, toAppend, cleaner, sent, past>>

-----------------------------------------------------------------------------
(* The cleanup, queue by queue.                                             *)

CleanQueue(q) ==
  /\ cleaner.state = "idle"
  /\ cleaner' = Cleaner("look", q, saved[q], None, "head",
                         IF CheckEntireQueue THEN GetBatch(q, head[q], Cardinality(Messages)) ELSE {})
  /\ UNCHANGED <<disk, head, tail, sending, toPut, toAppend, sent, past>>

(* The next entry that the cleanup looks at, if there is one.               *)
Candidates ==
  LET q == cleaner.queue IN
  IF head[q] > tail[q] THEN {}
  ELSE IF CheckEntireQueue THEN stored[q] \cap First(q, cleaner.todo, 1)
  ELSE {m \in stored[q] : at[q][m] = head[q]}

Removable(q, m) == at[q][m] <= cleaner.upto \/ m \in expired[q]

EndOf(q, m) ==
  IF at[q][m] = head[q] THEN "head" ELSE IF at[q][m] = tail[q] THEN "tail" ELSE "middle"

(* The reference of a removable entry is counted off, and the last one is   *)
(* followed by the removal of the body.                                     *)
CountOff ==
  LET q == cleaner.queue IN
  /\ cleaner.state = "look"
  /\ \E m \in Candidates :
       /\ Removable(q, m)
       /\ m \in body
       /\ count' = [count EXCEPT ![m] = IF @ > 0 THEN @ - 1 ELSE @]
       /\ cleaner' = Cleaner(IF count'[m] = 0 THEN "body" ELSE "entry", q, cleaner.upto,
                             m, EndOf(q, m), cleaner.todo)
  /\ UNCHANGED <<body, stored, at, saved, savedDead, head, tail, sending, toPut, toAppend, sent, past>>

RemoveBody ==
  /\ cleaner.state = "body"
  /\ body' = body \ {cleaner.msg}
  /\ cleaner' = Cleaner("entry", cleaner.queue, cleaner.upto, cleaner.msg, cleaner.end, cleaner.todo)
  /\ UNCHANGED <<count, stored, at, saved, savedDead, head, tail, sending, toPut, toAppend, sent, past>>

RemoveEntry ==
  LET q == cleaner.queue IN
  /\ cleaner.state = "entry"
  /\ stored' = [stored EXCEPT ![q] = @ \ {cleaner.msg}]
  /\ head' = [head EXCEPT ![q] = IF cleaner.end = "head" THEN @ + 1 ELSE @]
  /\ tail' = [tail EXCEPT ![q] = IF cleaner.end = "tail" THEN @ - 1 ELSE @]
  /\ cleaner' = Cleaner("look", q, cleaner.upto, None, cleaner.end, cleaner.todo \ {cleaner.msg})
  /\ UNCHANGED <<body, count, at, saved, savedDead, sending, toPut, toAppend, sent, past>>

(* An entry that is kept ends the queue, or is passed over; the missing     *)
(* body of one that is not ends it with an exception.                       *)
KeepEntry ==
  LET q == cleaner.queue IN
  /\ cleaner.state = "look"
  /\ \A m \in Candidates : ~(Removable(q, m) /\ m \in body)
  /\ LET broken == \E m \in Candidates : Removable(q, m) IN
     cleaner' = IF ~broken /\ cleaner.todo # {} 
                THEN Cleaner("look", q, cleaner.upto, cleaner.msg, cleaner.end,
                             cleaner.todo \ First(q, cleaner.todo, 1))
                ELSE NotCleaning
  /\ UNCHANGED <<disk, head, tail, sending, toPut, toAppend, sent, past>>

-----------------------------------------------------------------------------
(* The hub ends at any point and starts again with what is on disk.         *)

Crash ==
  /\ crashes < MaxCrashes
  /\ crashes' = crashes + 1
  /\ torn' = IF cleaner.state \in {"body", "entry"} THEN torn \cup {cleaner.msg} ELSE torn
  /\ head' = [q \in Queues |-> IF stored[q] = {} THEN saved[q] + 1 ELSE MinOf({at[q][m] : m \in stored[q]})]
  /\ tail' = [q \in Queues |-> IF stored[q] = {} THEN saved[q] ELSE MaxOf({at[q][m] : m \in stored[q]})]
  /\ offset' = saved
  /\ dead' = savedDead
  /\ reader' = [q \in Queues |-> NewReader(saved[q])]
  /\ pump' = [e \in Endpoints |-> Resting]
  /\ toPut' = {} /\ toAppend' = {}
  /\ cleaner' = NotCleaning
  /\ UNCHANGED <<disk, sent, settled, expired, earlier, overtaken, faults>>

Next ==
  \/ \E m \in Messages : Dispatch(m)
  \/ \E m \in Messages, q \in Queues :
       PutBody(m, q) \/ AppendRef(m, q) \/ AppendRefFails(m, q) \/ Expire(m, q)
  \/ \E q \in Queues : Fetch(q) \/ UpdateEndpoint(q) \/ CleanQueue(q)
  \/ \E e \in Endpoints :
       \/ ReadAgain(e) \/ Take(e) \/ NextPriority(e)
       \/ \E F \in SUBSET Messages : Send(e, F)
       \/ Checkpoint(e) \/ Retry(e) \/ Die(e) \/ Drop(e) \/ Revive(e)
  \/ CountOff \/ RemoveBody \/ RemoveEntry \/ KeepEntry
  \/ Crash

Fairness ==
  /\ \A m \in Messages, q \in Queues : WF_vars(PutBody(m, q)) /\ WF_vars(AppendRef(m, q))
  /\ \A q \in Queues : WF_vars(Fetch(q)) /\ SF_vars(CleanQueue(q))
  /\ \A e \in Endpoints :
       /\ WF_vars(ReadAgain(e) \/ Take(e) \/ NextPriority(e) \/ Checkpoint(e) \/ Retry(e) \/ Drop(e))
       /\ SF_vars(Send(e, {}))
  /\ WF_vars(CountOff \/ RemoveBody \/ RemoveEntry \/ KeepEntry)

Spec == Init /\ [][Next]_vars /\ Fairness

-----------------------------------------------------------------------------
TypeOK ==
  /\ body \subseteq Messages /\ count \in [Messages -> Nat]
  /\ stored \in [Queues -> SUBSET Messages]
  /\ at \in [Queues -> [Messages -> Int]]
  /\ saved \in [Queues -> Int] /\ savedDead \in [Queues -> BOOLEAN]
  /\ head \in [Queues -> Int] /\ tail \in [Queues -> Int]
  /\ offset \in [Queues -> Int] /\ dead \in [Queues -> BOOLEAN]
  /\ toPut \subseteq Messages \X Queues /\ toAppend \subseteq Messages \X Queues

(* What a queue is done with: sent, found invalid, dropped while its        *)
(* endpoint is dead, expired, or torn.                                      *)
Done(q) == settled[q] \cup expired[q] \cup torn

(* No message is lost: until a queue is done with a message, the reference, *)
(* the body and a checkpoint before it are on disk, through crashes, failed *)
(* writes and cleanups that run beside the dispatch (MessageStore.Add,      *)
(* CleanQueue and Checkpointer.CommitAsync).  Only torn messages are        *)
(* excepted: those whose cleanup was cut off between two of its writes, or  *)
(* met the dispatch of the same message, or whose sender got an error.      *)
(* It does not hold if messages expire and CheckEntireQueue is set: an      *)
(* expired entry is then taken from the tail, and the next message gets its *)
(* offset, which a checkpoint may have passed.                              *)
Kept ==
  \A q \in DOMAIN at : \A m \in DOMAIN at[q] :
    at[q][m] >= 0 /\ m \notin Done(q) =>
      m \in stored[q] /\ m \in body /\ at[q][m] > saved[q]

(* A body is deleted only when every queue that refers to it is done with   *)
(* it, as the comment on CleanupMessages says, torn or not.                 *)
DeletedWhenDelivered ==
  \A q \in DOMAIN stored : \A m \in stored[q] : m \in settled[q] \cup expired[q] \cup body

(* Messages of one client, and for a module all messages, get to an         *)
(* endpoint in the order of the queue, whatever fails and is sent again     *)
(* (ProcessClientMessages, EnterCheckpointingHelper).                       *)
OrderKept ==
  \A q \in DOMAIN settled : \A m \in settled[q] : \A n \in earlier[q][m] :
    SameLane(q[1], m, n) => n \in Done(q)

(* A queue that waits lets one batch of lower priorities pass, the one that *)
(* the pump had found before; SendMessagesPump starts over after a batch.   *)
PriorityFirst == \A q \in DOMAIN overtaken : overtaken[q] < 2

(* Once no more messages come, every queue gets done with every message it  *)
(* was given, as long as its endpoint takes what it is offered again and    *)
(* again, and the cleanup removes every entry that the checkpoint covers,   *)
(* if no missing body stops it (SendMessagesPump, RetryAsync, CleanQueue).  *)
Settles ==
  <>[](\A q \in Queues, m \in Messages :
         at[q][m] >= 0 =>
           /\ m \in Done(q)
           /\ m \in stored[q] /\ at[q][m] <= saved[q] => torn # {})
=============================================================================
