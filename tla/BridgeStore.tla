----------------------------- MODULE BridgeStore -----------------------------
(***************************************************************************)
(* The store between the pumps of a bridge (mqtt-bridge/src/persist:       *)
(* publication_store.rs, loader.rs, waking_state/memory.rs) and the egress *)
(* of the pump that empties it (pump/egress.rs).  Both pumps run in one    *)
(* task, so push and a poll of the loader are atomic for each other.       *)
(***************************************************************************)
EXTENDS Naturals, Sequences, FiniteSets, Functions

CONSTANTS
  BatchSize,
  MAX_IN_FLIGHT,
  MaxOffset      \* bound: publications pushed

ASSUME StoreAssumption == BatchSize \in Nat \ {0} /\ MAX_IN_FLIGHT \in Nat /\ MaxOffset \in Nat

VARIABLES
  queue, loaded, waker, offset, \* PublicationStore and WakingMemoryStore
  batch,                        \* MessageLoader
  in_flight,   \* publications being published
  published,   \* published, and not removed yet
  awake,       \* egress is to be polled
  started      \* history: the publications in the order they were started

kept == <<queue, loaded, waker, offset>>
svars == <<kept, batch, in_flight, published, awake, started>>

(* push and insert.                                                        *)
Push ==
  /\ offset < MaxOffset
  /\ queue' = Append(queue, offset)
  /\ offset' = offset + 1
  /\ awake' = (awake \/ waker)
  /\ waker' = FALSE
  /\ UNCHANGED <<loaded, batch, in_flight, published, started>>

Start(s) ==
  /\ in_flight' = in_flight \cup {Head(s)}
  /\ started' = Append(started, Head(s))
  /\ batch' = Tail(s)

(* Mutant: a new batch replaces what is left of the last one.              *)
MutRefresh ==
  LET count == IF BatchSize < Len(queue) THEN BatchSize ELSE Len(queue) IN
    /\ queue # << >>
    /\ queue' = SubSeq(queue, count + 1, Len(queue))
    /\ loaded' = loaded \cup {queue[i] : i \in 1..count}
    /\ Start(SubSeq(queue, 1, count))

(* poll_next with an empty batch that finds publications, and batch.       *)
NextBatch ==
  LET count == IF BatchSize < Len(queue) THEN BatchSize ELSE Len(queue) IN
    /\ batch = << >> /\ queue # << >>
    /\ queue' = SubSeq(queue, count + 1, Len(queue))
    /\ loaded' = loaded \cup {queue[i] : i \in 1..count}
    /\ Start(SubSeq(queue, 1, count))

(* egress polls the loader as long as less than MAX_IN_FLIGHT publications *)
(* are in flight.                                                          *)
PollLoader ==
  /\ awake
  /\ Cardinality(in_flight) < MAX_IN_FLIGHT
  /\ \/ batch # << >> /\ Start(batch) /\ UNCHANGED <<queue, loaded>>
     \/ NextBatch
  /\ UNCHANGED <<waker, offset, published, awake>>

(* Nothing is left to do: the loader leaves its waker if it was polled.    *)
Sleep ==
  /\ awake /\ published = {}
  /\ \/ Cardinality(in_flight) = MAX_IN_FLIGHT /\ UNCHANGED waker
     \/ Cardinality(in_flight) < MAX_IN_FLIGHT /\ batch = << >> /\ queue = << >> /\ waker' = TRUE
  /\ awake' = FALSE
  /\ UNCHANGED <<queue, loaded, offset, batch, in_flight, published, started>>

(* try_publish ends, with or without an error, in any order: external.     *)
Publish(k) ==
  /\ k \in in_flight
  /\ in_flight' = in_flight \ {k}
  /\ published' = published \cup {k}
  /\ awake' = TRUE
  /\ UNCHANGED <<kept, batch, started>>

(* egress removes a publication; one that is not loaded is an error.       *)
RemoveKey(k) ==
  /\ awake
  /\ k \in published
  /\ published' = published \ {k}
  /\ loaded' = loaded \ {k}
  /\ UNCHANGED <<queue, waker, offset, batch, in_flight, awake, started>>

SInit ==
  /\ queue = << >> /\ loaded = {} /\ waker = FALSE /\ offset = 0
  /\ batch = << >> /\ in_flight = {} /\ published = {} /\ awake = TRUE /\ started = << >>

(* The task of the bridge runs, and the broker answers.                    *)
Egress == PollLoader \/ Sleep \/ (\E k \in published : RemoveKey(k)) \/ (\E k \in in_flight : Publish(k))

SNext == Push \/ Egress

SSpec == SInit /\ [][SNext]_svars

-----------------------------------------------------------------------------
(* What is removed is in the store: exactly the publications of the batch, *)
(* in flight and published are loaded, and the queue has only others.      *)
LoadedExact ==
  /\ loaded = Range(batch) \cup in_flight \cup published
  /\ Range(queue) \cap loaded = {}

(* Publications are started in the order they were pushed in, and none is  *)
(* left out, across batches of any size.                                   *)
StartedInOrder == started \o batch \o queue = [i \in 1..offset |-> i - 1]

(* LoadedExact and StartedInOrder: no publication is skipped, repeated or  *)
(* removed before its time.                                                *)
StoreExact == LoadedExact /\ StartedInOrder

(* Everything that was pushed in is published and removed.                 *)
Emptied == Len(started) = offset /\ loaded = {}
=============================================================================
