----------------------------- MODULE LoRaUdpHub -----------------------------
(***************************************************************************)
(* The shared medium of the real stack (ignirelay_lab/e2e_real_stack.py,   *)
(* class LoRaUdpHub): a frame that arrives from a node's port is tapped to *)
(* the gateway feed and sent on to every other node, each of them a radio  *)
(* receiver of its own with its own loss and corruption.  A partition      *)
(* takes frames away from all of them: the first ones, or those of a span  *)
(* of time after the injection.                                            *)
(***************************************************************************)
EXTENDS Integers, Sequences, FiniteSets

CONSTANT Nodes    \* node ids, one UDP port each

VARIABLES
    profile,          \* of its ChannelProfile: packet_loss_percent, corrupt_percent,
                      \* drop_first_frames (0 for no such window), timed (there is a
                      \* window in milliseconds), down (the links that are)
    window,           \* of the timed window: "ahead", "open" or "past"
    hub_in,           \* datagrams in the hub's socket, not yet read
    node_in,          \* node -> datagrams in that node's LoRa socket
    stats,            \* frames read; at the tap and at the nodes, how many met each fate
    taps,             \* the tapped frames
    live_out          \* the lines of the live feed file

routeVars == <<hub_in, node_in, stats, taps, live_out>>
hubVars == <<profile, window, routeVars>>

\* What becomes of a frame on its way to one receiver.
Fates == {"intact", "corrupt", "loss", "partition", "asymmetric"}

HubInit ==
    /\ window = "ahead" /\ hub_in = <<>> /\ node_in = [n \in Nodes |-> <<>>] /\ taps = <<>>
    /\ stats = [rx_from_nodes |-> 0, tap |-> [f \in Fates |-> 0], fanout |-> [f \in Fates |-> 0]]

Hit(percent) == {hit \in BOOLEAN : IF hit THEN percent > 0 ELSE percent < 100}

\* The loss draw, then the draw of _maybe_corrupt.
RadioFates ==
    UNION {IF lost THEN {"loss"} ELSE {IF hit THEN "corrupt" ELSE "intact" :
                                         hit \in Hit(profile.corrupt_percent)} :
             lost \in Hit(profile.packet_loss_percent)}

\* One octet past the header is flipped, for this receiver only.
Copies(frame, fate) ==
    CASE fate = "intact" -> <<frame>>
      [] fate = "corrupt" -> <<[frame EXCEPT !.garbled = TRUE]>>
      [] OTHER -> <<>>

\* _partitioned: the frame in hand is counted already.
Partitioned == stats.rx_from_nodes + 1 <= profile.drop_first_frames \/ window = "open"

TapFates == IF Partitioned THEN {"partition"} ELSE RadioFates

Bug_TapOnlyPartition(frame, dst) ==
    IF <<frame.src, dst>> \in profile.down THEN {"asymmetric"} ELSE RadioFates

FatesAt(frame, dst) ==
    IF Partitioned THEN {"partition"}
    ELSE IF <<frame.src, dst>> \in profile.down THEN {"asymmetric"} ELSE RadioFates

\* One turn of pump: read a frame, tap it, fan it out.  A copy sent to the port of
\* a node that is not running is lost.
Route(listening, streaming) ==
    /\ hub_in # <<>>
    /\ hub_in' = Tail(hub_in)
    /\ LET frame == Head(hub_in)
           others == Nodes \ {frame.src}
       IN \E tapped \in TapFates : \E met \in [others -> Fates] :
             /\ \A dst \in others : met[dst] \in FatesAt(frame, dst)
             /\ taps' = taps \o Copies(frame, tapped)
             /\ live_out' = IF streaming THEN live_out \o Copies(frame, tapped) ELSE live_out
             /\ node_in' = [n \in Nodes |->
                   IF n \in others /\ listening[n] THEN node_in[n] \o Copies(frame, met[n])
                                                   ELSE node_in[n]]
             /\ stats' =
                   [rx_from_nodes |-> stats.rx_from_nodes + 1,
                    tap |-> [stats.tap EXCEPT ![tapped] = @ + 1],
                    fanout |-> [f \in Fates |->
                        stats.fanout[f] + Cardinality({dst \in others : met[dst] = f})]]
    /\ UNCHANGED <<profile, window>>

\* The timed window opens, or is over.
WindowMoves ==
    /\ profile.timed /\ window # "past"
    /\ window' = IF window = "ahead" THEN "open" ELSE "past"
    /\ UNCHANGED <<profile, routeVars>>

\* replay_to_node: past the medium, straight to the node's port.
ReplayTo(frame, n) ==
    /\ node_in' = [node_in EXCEPT ![n] = Append(@, frame)]
    /\ UNCHANGED <<profile, window, hub_in, stats, taps, live_out>>
=============================================================================
