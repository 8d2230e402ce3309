--------------------------- MODULE FakeGatewaySink --------------------------
(***************************************************************************)
(* The storing node (ignirelay_lab/actors.py, class FakeGatewaySink): every *)
(* inbound event is a route, and the first route of an event id makes its  *)
(* canonical row.                                                          *)
(***************************************************************************)
EXTENDS Sequences

VARIABLES
    events,    \* event id -> canonical row
    routes     \* the inbound events, in the order they came

GatewayInit == events = << >> /\ routes = << >>

\* last_hop, packet_seq and ttl stay with the route.
Row(inbound) ==
    [event_id |-> inbound.event_id, event_type |-> inbound.event_type,
     priority |-> inbound.priority, source |-> inbound.src_node,
     anon |-> inbound.anon]

Bug_LastRouteWins(inbound) ==
    /\ routes' = Append(routes, inbound)
    /\ events' = [i \in DOMAIN events \cup {inbound.event_id} |->
                    IF i = inbound.event_id THEN Row(inbound) ELSE events[i]]

GatewayReceive(inbound) ==
    /\ routes' = Append(routes, inbound)
    /\ events' = [i \in DOMAIN events \cup {inbound.event_id} |->
                    IF i \in DOMAIN events THEN events[i] ELSE Row(inbound)]
=============================================================================
