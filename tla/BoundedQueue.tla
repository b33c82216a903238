---------------------------- MODULE BoundedQueue ----------------------------
(***************************************************************************)
(* The queue of publications of a session, bounded by count and by total   *)
(* payload size (mqtt-broker/src/session/state/queue.rs).  A queue is a    *)
(* record of its publications, oldest first, and of the running total of   *)
(* their payload lengths that the code maintains beside them.  All that    *)
(* the queue reads of a publication is its payload length, `len'.          *)
(***************************************************************************)
EXTENDS Integers, Sequences

CONSTANTS
  MaxLen,    \* Option<NonZeroUsize>: the most publications, 0 for None
  MaxSize,   \* Option<NonZeroUsize>: the most payload bytes, 0 for None
  WhenFull   \* QueueFullAction

ASSUME QueueAssumption ==
  /\ MaxLen \in Nat
  /\ MaxSize \in Nat
  /\ WhenFull \in {"DropNew", "DropOld"}

EmptyQueue == [inner |-> << >>, current_size |-> 0]

PushBack(q, p) ==
  [inner |-> Append(q.inner, p), current_size |-> q.current_size + p.len]

(* Mutant: the total is left as it was.                                    *)
MutDequeue(q) == IF q.inner = << >> THEN q ELSE [q EXCEPT !.inner = Tail(@)]

Dequeue(q) ==
  IF q.inner = << >>
    THEN q
    ELSE [inner |-> Tail(q.inner),
          current_size |-> q.current_size - Head(q.inner).len]

(* Either limit stops the publication; the length is tested first.         *)
LimitReached(q, p) ==
  \/ MaxLen > 0 /\ Len(q.inner) >= MaxLen
  \/ MaxSize > 0 /\ q.current_size + p.len > MaxSize

(* DropOld makes room by removing one publication, whatever its length,    *)
(* and then adds the new one without looking at the limits again.          *)
HandleQueueLimit(q, p) ==
  IF WhenFull = "DropNew" THEN q ELSE PushBack(Dequeue(q), p)

Enqueue(q, p) ==
  IF LimitReached(q, p) THEN HandleQueueLimit(q, p) ELSE PushBack(q, p)
=============================================================================
