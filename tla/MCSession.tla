------------------------------ MODULE MCSession ------------------------------
(***************************************************************************)
(* What a session does and what becomes of it, on small instances.  which  *)
(* tells the part that moves: a session with one topic and two filters     *)
(* that match it, the queue of a session, a session with a client that is  *)
(* subscribed to everything, and the persistor of snapshots.               *)
(***************************************************************************)
EXTENDS SessionDelivery, FilePersistor

MCGrants == {<<"f", 1>>, <<"#", 2>>}
MCMatches == {<<"f", 1>>, <<"#", 1>>}
MCPublications == {[topic |-> 1, qos |-> q, len |-> 1] : q \in QoS}
MCInbound == {[topic |-> 1, qos |-> q, len |-> 1] : q \in {1, 2}}

VARIABLES which, queue, when_full, added

Queue == INSTANCE QueueSpec
  WITH MaxLen <- 3, MaxSize <- 4, Lengths <- {0, 1, 2, 4, 5}, MaxAdded <- 5
Full == INSTANCE SessionDelivery
  WITH WhenFull <- "DropNew", Matches <- {"#"} \X Topics, MaxInserted <- 12,
       Publications <- [topic : Topics, qos : QoS, len : {1}]

qvars == <<queue, when_full, added>>
own == <<out, wire, acks, stale, client, made, dropped>>
mcvars == <<dvars, fvars, qvars, which>>

MCInit ==
  /\ which \in {"session", "queue", "delivery", "persistor"}
  /\ IF which = "session" THEN Init /\ ClientInit ELSE DInit
  /\ FInit
  /\ Queue!Init /\ (which # "queue" => when_full = "DropNew")

OfSession == which = "session" /\ Next /\ UNCHANGED <<own, fvars, qvars, which>>
OfQueue == which = "queue" /\ Queue!Next /\ UNCHANGED <<dvars, fvars, which>>
OfDelivery == which = "delivery" /\ Full!DNext /\ UNCHANGED <<fvars, qvars, which>>
OfPersistor == which = "persistor" /\ FNext /\ UNCHANGED <<dvars, qvars, which>>

MCNext == OfSession \/ OfQueue \/ OfDelivery \/ OfPersistor

(* The steps of Fairness.                                                  *)
Others == which = "delivery" /\ UNCHANGED <<fvars, qvars, which>>
MCHandle == Others /\ Full!HandleNext
MCStale == Others /\ Full!HandleStale
MCWrite == Others /\ Full!Write
MCReceive == Others /\ Full!Receive
MCDrop == Others /\ Full!Drop
MCReconnect == Others /\ Full!Reconnect
MCLoops == Others /\ Full!IntoOnlineLoops
MCDrain == Others /\ Full!DrainQueued
MCSend == Others /\ Full!SendCollected

MCSpec ==
  /\ MCInit /\ [][MCNext]_mcvars
  /\ WF_mcvars(MCHandle) /\ WF_mcvars(MCStale) /\ WF_mcvars(MCWrite) /\ WF_mcvars(MCReceive)
  /\ WF_mcvars(MCDrop) /\ WF_mcvars(MCReconnect) /\ WF_mcvars(MCLoops) /\ WF_mcvars(MCDrain)
  /\ WF_mcvars(MCSend)
-----------------------------------------------------------------------------
(* SizeExact, SizeBounded and LatestInOrder of the queue of a session.     *)
QueueExact == Queue!SizeExact /\ Queue!SizeBounded /\ Queue!LatestInOrder

(* NothingStranded for the session with a client; on its own a session     *)
(* also gets acknowledgements nobody sent.                                 *)
MCNothingStranded == which = "delivery" => NothingStranded
=============================================================================
