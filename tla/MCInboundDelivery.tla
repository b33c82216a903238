------------------------- MODULE MCInboundDelivery -------------------------
(* InboundDelivery for a client that publishes with all qualities.         *)
EXTENDS InboundDelivery

MCInbound == [topic : Topics, qos : QoS, len : {1}]
=============================================================================
