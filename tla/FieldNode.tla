------------------------------ MODULE FieldNode ------------------------------
(***************************************************************************)
(* The C field-node program, as the lab uses it: a process that prints a   *)
(* ready line, takes batches of envelopes on its BLE port, puts each event *)
(* on air up to three times, the most severe first, stops early when it    *)
(* hears another node repeat it, and relays in the same way what it hears  *)
(* for the first time.  What it has seen and what it still has to put on   *)
(* air is in its journal: a restarted process resumes it, unless the       *)
(* journal is lost.  The program is not part of this repository.           *)
(*                                                                         *)
(* The ACK frame it answers an EVENT frame with is left out: the lab reads *)
(* the EVENT frames only, and a node that an ACK stops does what one does  *)
(* that waits until the run is over.                                       *)
(***************************************************************************)
EXTENDS LoRaUdpHub

CONSTANTS
    Events,           \* event ids
    Priority(_),      \* the wire priority of an event, 1 the most severe
    MAX_ATTEMPTS      \* transmissions of an own event

ASSUME FieldNodeAssumption == MAX_ATTEMPTS \in Nat \ {0}

VARIABLES
    up,         \* node -> its process runs
    ready,      \* node -> its process has printed the ready line
    out,        \* node -> the lines of its output file
    seen,       \* node -> the events it knows
    held,       \* node -> the events it still has to put on air
    ble_in      \* node -> batches in its BLE socket

nodeVars == <<up, ready, out, seen, held, ble_in>>

Held == [id : Events, relay : BOOLEAN, tries : 0..MAX_ATTEMPTS]

\* The process starts with the journal of its predecessor, or without one.
Spawn(nodes) ==
    /\ up' = [n \in Nodes |-> up[n] \/ n \in nodes]
    /\ \E lost \in SUBSET nodes :
          /\ seen' = [n \in Nodes |-> IF n \in lost THEN {} ELSE seen[n]]
          /\ held' = [n \in Nodes |-> IF n \in lost THEN {} ELSE held[n]]
    /\ UNCHANGED <<ready, out, ble_in>>

\* The process is gone, and its sockets with it; its journal stays.
Kill(nodes) ==
    /\ up' = [n \in Nodes |-> up[n] /\ n \notin nodes]
    /\ ready' = [n \in Nodes |-> ready[n] /\ n \notin nodes]
    /\ ble_in' = [n \in Nodes |-> IF n \in nodes THEN <<>> ELSE ble_in[n]]
    /\ node_in' = [n \in Nodes |-> IF n \in nodes THEN <<>> ELSE node_in[n]]
    /\ UNCHANGED <<out, seen, held, profile, window, hub_in, stats, taps, live_out>>

GetsReady(n) ==
    /\ up[n] /\ ~ready[n]
    /\ ready' = [ready EXCEPT ![n] = TRUE]
    /\ out' = [out EXCEPT ![n] = Append(@, "ready")]
    /\ UNCHANGED <<up, seen, held, ble_in, hubVars>>

\* One datagram of the BLE socket is one batch; all of it is queued at once, and
\* each envelope answered with a receipt.
TakesBatch(n) ==
    /\ ready[n] /\ ble_in[n] # <<>>
    /\ LET new == Head(ble_in[n]) \ seen[n]
       IN /\ held' = [held EXCEPT ![n] = @ \cup
                        [id : new, relay : {FALSE}, tries : {0}]]
          /\ seen' = [seen EXCEPT ![n] = @ \cup new]
    /\ ble_in' = [ble_in EXCEPT ![n] = Tail(@)]
    /\ out' = [out EXCEPT ![n] = @ \o [k \in 1..Cardinality(Head(ble_in[n])) |-> "receipt"]]
    /\ UNCHANGED <<up, ready, hubVars>>

\* First attempts go in order of priority; a repeat comes when its backoff ends.
Transmits(n, e) ==
    /\ ready[n] /\ e \in held[n]
    /\ e.tries = 0 =>
          \A f \in held[n] : f.tries = 0 => Priority(e.id) <= Priority(f.id)
    /\ held' = [held EXCEPT ![n] = (@ \ {e}) \cup
                  IF e.tries + 1 = MAX_ATTEMPTS THEN {}
                  ELSE {[e EXCEPT !.tries = e.tries + 1]}]
    /\ hub_in' = Append(hub_in, [src |-> n, event_id |-> e.id, garbled |-> FALSE])
    /\ out' = [out EXCEPT ![n] = Append(@, IF e.tries = 0 THEN "transmit" ELSE "retransmit")]
    /\ UNCHANGED <<up, ready, seen, ble_in, profile, window, node_in, stats, taps, live_out>>

\* An echo of an own event acknowledges it; a garbled frame fails its CRC.
Hears(n) ==
    /\ ready[n] /\ node_in[n] # <<>>
    /\ LET frame == Head(node_in[n])
           i == frame.event_id
       IN \/ frame.garbled /\ UNCHANGED <<seen, held>>
          \/ /\ ~frame.garbled /\ i \in seen[n]
             /\ held' = [held EXCEPT ![n] = {e \in @ : e.relay \/ e.tries = 0 \/ e.id # i}]
             /\ UNCHANGED seen
          \/ /\ ~frame.garbled /\ i \notin seen[n]
             /\ seen' = [seen EXCEPT ![n] = @ \cup {i}]
             /\ held' = [held EXCEPT ![n] = @ \cup {[id |-> i, relay |-> TRUE, tries |-> 0]}]
    /\ node_in' = [node_in EXCEPT ![n] = Tail(@)]
    /\ UNCHANGED <<up, ready, out, ble_in, profile, window, hub_in, stats, taps, live_out>>

FieldNodeStep ==
    \E n \in Nodes :
        \/ GetsReady(n) \/ TakesBatch(n) \/ Hears(n)
        \/ \E e \in held[n] : Transmits(n, e)
=============================================================================
