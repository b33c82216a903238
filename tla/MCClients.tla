------------------------------ MODULE MCClients ------------------------------
(***************************************************************************)
(* Clients of the broker on small instances.  which tells the part that    *)
(* moves: InboundDelivery with a publication of QoS 2 and one of QoS 0 or  *)
(* 1, two losses and a restart ("two"); with four publications, which is   *)
(* more than there are packet identifiers, and one loss ("many"), either   *)
(* of which gets a publication of QoS 2 that frees one of its identifiers; *)
(* or Broker with three connections of one client ("connections").         *)
(***************************************************************************)
EXTENDS Broker

VARIABLES
  which,
  state, status, cursor, pending, events, forwarded, published, kind, ids, to_ack, to_complete,
  clean, requested, confirmed, up, sent, stale, back, passed, again, freed, losses, restarts

PublicationsOn(topics, qos) == [topic : topics, qos : qos, len : {1}]

Two == INSTANCE InboundDelivery
  WITH MaxLen <- 1, MaxSize <- 0, WhenFull <- "DropNew", MaxId <- 2, MaxInflight <- 1,
       Topics <- 1 .. 2, Grants <- {}, Matches <- {}, Publications <- {},
       Inbound <- PublicationsOn({1}, {2}) \cup PublicationsOn({2}, {0, 1}), InboundIds <- {},
       MaxPublished <- 0, MaxInserted <- 20,
       MaxLosses <- 2, MaxRestarts <- 1, Resets <- TRUE, MaxFreed <- 1
Many == INSTANCE InboundDelivery
  WITH MaxLen <- 1, MaxSize <- 0, WhenFull <- "DropNew", MaxId <- 2, MaxInflight <- 1,
       Topics <- 1 .. 4, Grants <- {}, Matches <- {}, Publications <- {},
       Inbound <- PublicationsOn(1 .. 3, {1, 2}) \cup PublicationsOn({4}, {1}), InboundIds <- {},
       MaxPublished <- 0, MaxInserted <- 20,
       MaxLosses <- 1, MaxRestarts <- 0, Resets <- TRUE, MaxFreed <- 1

ivars == <<state, status, cursor, pending, events, forwarded, published, kind, ids, to_ack,
           to_complete, clean, requested, confirmed, up, sent, stale, back, passed, again,
           freed, losses, restarts>>

MCInit == which \in {"two", "many", "connections"} /\ Two!IInit /\ Init

MCNext ==
  \/ which = "two" /\ Two!INext /\ UNCHANGED <<vars, which>>
  \/ which = "many" /\ Many!INext /\ UNCHANGED <<vars, which>>
  \/ which = "connections" /\ Next /\ UNCHANGED <<ivars, which>>

MCSpec == MCInit /\ [][MCNext]_<<ivars, vars, which>>
-----------------------------------------------------------------------------
(* ConfirmedPassed as long as no packet identifier is used twice: with     *)
(* many, the answer to a packet left by an old connection would be taken   *)
(* for that to the publication that has the identifier by now.             *)
MCConfirmedPassed == which = "two" => Two!ConfirmedPassed

(* ForgottenAtMostFreed for both clients that publish.                     *)
ForgottenAtMostFreed == Two!ForgottenAtMostFreed
=============================================================================
