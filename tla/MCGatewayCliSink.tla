-------------------------- MODULE MCGatewayCliSink --------------------------
(* An instance of GatewayCliSink for TLC: two events, one of them heard by  *)
(* way of two last hops.                                                    *)
EXTENDS GatewayCliSink

Inbound(i, hop, seq) ==
    [raw_frame |-> [event_id |-> i, garbled |-> FALSE],
     last_hop_label |-> hop, packet_seq |-> seq]

MCInbounds ==
    {Inbound(1, "NodeB", 1), Inbound(1, "NodeC", 2), Inbound(2, "NodeB", 3)}
=============================================================================
