------------------------------ MODULE MCBroker ------------------------------
(***************************************************************************)
(* Connections of clients on small instances.  which tells the part that   *)
(* moves: Broker with two clients that subscribe ("topics"), or            *)
(* SessionDelivery to a client that is subscribed to everything and may be *)
(* back before the broker has dropped its old connection ("takeover").     *)
(***************************************************************************)
EXTENDS Broker

VARIABLES
  which,
  state, status, cursor, pending, events, forwarded, published, out, wire, acks, stale, up,
  released, delivered, made, dropped, losses

D == INSTANCE SessionDelivery
  WITH MaxLen <- 1, MaxSize <- 0, WhenFull <- "DropNew", MaxId <- 3, MaxInflight <- 1,
       Topics <- 1 .. 2, Grants <- {<<"#", 2>>}, Matches <- {"#"} \X (1 .. 2),
       Publications <- [topic : 1 .. 2, qos : {1, 2}, len : {1}], Inbound <- {},
       InboundIds <- {}, MaxPublished <- 2, MaxInserted <- 12, MaxLosses <- 2,
       Takeovers <- TRUE

dvars == <<state, status, cursor, pending, events, forwarded, published, out, wire, acks, stale,
           up, released, delivered, made, dropped, losses>>
mcvars == <<vars, dvars, which>>

MCInit == which \in {"topics", "takeover"} /\ Init /\ D!DInit

MCNext ==
  \/ which = "topics" /\ Next /\ UNCHANGED <<dvars, which>>
  \/ which = "takeover" /\ D!DNext /\ UNCHANGED <<vars, which>>

MCSpec == MCInit /\ [][MCNext]_mcvars
-----------------------------------------------------------------------------
(* ExactlyOnce and NoOvertaking across takeovers: the client gets nothing  *)
(* twice and nothing out of turn.                                          *)
OnceInTurn == D!ExactlyOnce /\ D!NoOvertaking
=============================================================================
