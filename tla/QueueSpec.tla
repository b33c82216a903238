----------------------------- MODULE QueueSpec -----------------------------
(***************************************************************************)
(* The life of one BoundedQueue: publications of any length are enqueued   *)
(* and dequeued in any order.  They are numbered as they are enqueued.     *)
(***************************************************************************)
EXTENDS Integers, Sequences, SequencesExt

CONSTANTS
  MaxLen,    \* the limits of BoundedQueue
  MaxSize,
  Lengths,   \* payload lengths
  MaxAdded   \* bound: publications enqueued

VARIABLES
  queue,
  when_full,  \* the QueueFullAction it was made with
  added       \* number of publications enqueued

vars == <<queue, when_full, added>>

INSTANCE BoundedQueue WITH WhenFull <- when_full

Init ==
  /\ queue = EmptyQueue
  /\ when_full \in {"DropNew", "DropOld"}
  /\ added = 0

Add(len) ==
  /\ added < MaxAdded
  /\ added' = added + 1
  /\ queue' = Enqueue(queue, [n |-> added + 1, len |-> len])
  /\ UNCHANGED when_full

Take ==
  /\ queue' = Dequeue(queue)
  /\ UNCHANGED <<when_full, added>>

Next == (\E len \in Lengths : Add(len)) \/ Take

Spec == Init /\ [][Next]_vars
-----------------------------------------------------------------------------
(* The running total is the sum of the payload lengths in the queue, after *)
(* every mix of enqueueing, dropping and dequeueing.                       *)
SizeExact ==
  queue.current_size = FoldLeft(LAMBDA sum, p : sum + p.len, 0, queue.inner)

(* With DropNew the total payload size stays within max_size.  DropOld     *)
(* makes room by one publication only, and may exceed it.                  *)
SizeBounded == MaxSize > 0 /\ when_full = "DropNew" => queue.current_size <= MaxSize

(* Publications leave the queue in the order in which they entered it, and *)
(* with DropOld it holds the latest ones, without gaps: what is dropped is *)
(* older than all that is kept.                                            *)
LatestInOrder ==
  /\ \A i, j \in DOMAIN queue.inner : i < j => queue.inner[i].n < queue.inner[j].n
  /\ when_full = "DropOld" =>
       \A i \in DOMAIN queue.inner : queue.inner[i].n = added - Len(queue.inner) + i
=============================================================================
