---------------------------- MODULE ScenarioPorts ----------------------------
(***************************************************************************)
(* The UDP ports of the real-stack scenarios (ignirelay_lab/               *)
(* e2e_real_stack.py, make_ports and SCENARIO_PORT_BASE): a run binds the  *)
(* ports of its scenario when it starts and frees them when it ends.       *)
(***************************************************************************)
EXTENDS Naturals

SCENARIO_PORT_BASE ==
    [e2e_real_stack |-> 0, loss_50 |-> 20, partition_heal |-> 40,
     asymmetric_link |-> 60, loss_20_realstack |-> 80, c4_live |-> 100]

Scenarios == DOMAIN SCENARIO_PORT_BASE

\* make_ports: the hub, a LoRa port and a BLE port for each of two nodes.
make_ports(base) ==
    {9300 + base} \cup {9400 + n + base : n \in 1..2} \cup {9500 + n + base : n \in 1..2}

PortsOf(name) == make_ports(SCENARIO_PORT_BASE[name])

VARIABLE running    \* the scenarios that are running

Init == running = {}

Begins(name) == name \notin running /\ running' = running \cup {name}
Ends(name) == name \in running /\ running' = running \ {name}

Next == \E name \in Scenarios : Begins(name) \/ Ends(name)

Spec == Init /\ [][Next]_running

-----------------------------------------------------------------------------
(* Scenarios that overlap by accident cannot collide: no two of them have a *)
(* port in common, as the comment above PortLayout says.                    *)
OverlapCannotCollide ==
    \A s, t \in running : s # t => PortsOf(s) \cap PortsOf(t) = {}
=============================================================================
