------------------------------ MODULE RelayLab ------------------------------
(***************************************************************************)
(* The store-and-forward path of the lab: phone, NodeA, the radio, NodeB   *)
(* and the gateway, as ignirelay_lab/scenario.py wires them, under a       *)
(* driver that makes the calls in any order, at any instant, and reboots   *)
(* either node between any two of them.  RunScenario is the driver the lab *)
(* runs.                                                                   *)
(*                                                                         *)
(* NodeA is the SimNode whose fields have the plain names; of NodeB, which *)
(* only receives, all but the replay ring stays as it was constructed.     *)
(***************************************************************************)
EXTENDS SimNode, FakeLoRaChannel, FakeGatewaySink

CONSTANTS
    Times,           \* the instants a call is made at
    MaxPacketSeq,    \* bound: transmission attempts of NodeA
    MaxOnAir,        \* bound: frames on air when NodeA transmits
    MaxWipes         \* bound: reboots of NodeB that lose its replay ring

ASSUME LabAssumption == Times \subseteq Nat

VARIABLES
    b_seen_lora,     \* NodeB's replay ring
    inbox,           \* the frames drained from the channel, not yet received
    handed,          \* what receive_lora returned, not yet given to the gateway
    accepted,        \* history: the rows of the events NodeA accepted
    sent,            \* history: ids SENT since NodeA's dedupe ring was empty
    sent_before,     \* history: ids SENT before that
    wipes            \* history: reboots of NodeB that lost its replay ring

NodeB == INSTANCE SimNode WITH
    queue <- {}, seen_ble <- {}, seen_lora <- b_seen_lora,
    retry <- [i \in Ids |-> NoRetry], packet_seq <- 0, dropped_events <- {},
    anon_by_author <- [a \in Authors |-> ZeroAnon]

historyVars == <<accepted, sent, sent_before, wipes>>
farVars == <<b_seen_lora, inbox, handed, events, routes>>
vars == <<nodeVars, channelVars, farVars, historyVars>>

Init ==
    /\ NodeInit /\ ChannelInit /\ GatewayInit
    /\ b_seen_lora = {} /\ inbox = <<>> /\ handed = {}
    /\ accepted = {} /\ sent = {} /\ sent_before = {} /\ wipes = 0

Frame(event) == BuildFrame("NodeA", "NodeB", event)

\* The row the gateway should make of an event.
RowOf(event) ==
    [event_id |-> event.id, event_type |-> event.event_type,
     priority |-> event.priority, source |-> "NodeA", anon |-> event.anon]

PhoneSends(t, env) ==
    /\ UNCHANGED <<channelVars, farVars, sent, sent_before, wipes>>
    /\ \/ IngestAccepted(t, env) /\ accepted' = accepted \cup {RowOf(Queued(env))}
       \/ UNCHANGED accepted /\ (IngestUntranslatable(t, env) \/ IngestRefused(t, env))

NodeATransmits(t) ==
    /\ UNCHANGED <<farVars, accepted, sent_before, wipes>>
    /\ \/ /\ TransmitIdle(t) \/ TransmitGivesUp(t)
          /\ UNCHANGED <<channelVars, sent>>
       \/ /\ packet_seq < MaxPacketSeq /\ Len(pending) <= MaxOnAir
          /\ \E best \in queue :
                \/ /\ TransmitSent(t, best) /\ ChannelSent(t, Frame(best))
                   /\ sent' = sent \cup {best.id}
                \/ /\ TransmitBusy(t, best) /\ ChannelBusy(Frame(best))
                   /\ UNCHANGED sent
                \/ /\ TransmitLost(t, best) /\ ChannelLost(t, Frame(best))
                   /\ UNCHANGED sent

ChannelDrains(t) ==
    /\ inbox = <<>>
    /\ inbox' = Ready(t) /\ Drain(t)
    /\ UNCHANGED <<nodeVars, b_seen_lora, handed, events, routes, historyVars>>

NodeBTakes ==
    /\ inbox' = Tail(inbox)
    /\ UNCHANGED <<nodeVars, channelVars, historyVars>>

NodeBAccepts(t) ==
    /\ inbox # <<>> /\ NodeB!ReceiveAccepted("NodeB", Head(inbox), t)
    /\ NodeBTakes

NodeBIgnores(t) ==
    /\ inbox # <<>> /\ NodeB!ReceiveIgnored("NodeB", Head(inbox), t)
    /\ NodeBTakes

\* What receive_lora returns if NodeB accepts.
Handed == NodeB!Inbound("NodeB", Head(inbox))

Bug_HandsOnTheLast(t) ==
    /\ \/ NodeBAccepts(t) /\ handed' = {Handed}
       \/ NodeBIgnores(t) /\ UNCHANGED handed
    /\ UNCHANGED <<events, routes>>

\* The driver receives the next frame when it has handed on the last.
NodeBReceives(t) ==
    /\ handed = {}
    /\ \/ NodeBAccepts(t) /\ handed' = {Handed}
       \/ NodeBIgnores(t) /\ UNCHANGED handed
    /\ UNCHANGED <<events, routes>>

DriverHandsOn ==
    /\ \E inbound \in handed : GatewayReceive(inbound)
    /\ handed' = {}
    /\ UNCHANGED <<nodeVars, channelVars, b_seen_lora, inbox, historyVars>>

NodeAReboots(preserve_seen) ==
    /\ Reboot(preserve_seen)
    /\ sent' = IF preserve_seen THEN sent ELSE {}
    /\ sent_before' = IF preserve_seen THEN sent_before ELSE sent_before \cup sent
    /\ UNCHANGED <<channelVars, farVars, accepted, wipes>>

NodeBReboots(preserve_seen) ==
    /\ NodeB!Reboot(preserve_seen)
    /\ wipes' = IF preserve_seen THEN wipes ELSE wipes + 1
    /\ UNCHANGED <<nodeVars, channelVars, inbox, handed, events, routes, accepted,
                   sent, sent_before>>

Next ==
    \/ \E t \in Times :
          \/ \E env \in Envelopes : PhoneSends(t, env)
          \/ NodeATransmits(t)
          \/ ChannelDrains(t)
          \/ NodeBReceives(t)
    \/ DriverHandsOn
    \/ \E preserve_seen \in BOOLEAN :
          \/ NodeAReboots(preserve_seen)
          \/ (preserve_seen \/ wipes < MaxWipes) /\ NodeBReboots(preserve_seen)

Spec == Init /\ [][Next]_vars

-----------------------------------------------------------------------------
Frames ==
    [src : {"NodeA"}, dst : {"NodeB"}, ttl : Nat, packet_seq : Nat,
     corrupted : BOOLEAN,
     raw : [event_id : Ids, event_type : EventTypes, priority : WirePriority,
            hlc_ms : Nat, anon : AnonIds \cup {GARBLED}, ttl : 0..BYTE - 1,
            packet_seq : 0..U16 - 1]]

Inbounds ==
    [event_id : Ids, event_type : EventTypes, priority : WirePriority,
     src_node : {"NodeA"}, last_hop : {"NodeB"}, anon : AnonIds \cup {GARBLED},
     ttl : -1..BYTE - 2, packet_seq : 0..U16 - 1]

\* What the envelopes can become: an SOS may carry any anon8 announced.
Translations ==
    {QueuedAs(env, anon) :
        env \in {v \in Envelopes : v.priority \in WirePriority}, anon \in AnonIds}

(* The fields have the types the code gives them. *)
TypeOK ==
    /\ queue \subseteq Translations /\ dropped_events \subseteq Translations
    /\ seen_ble \subseteq Ids /\ seen_lora = {} /\ b_seen_lora \subseteq Ids
    /\ retry \in [Ids -> RetryState] /\ packet_seq \in Nat
    /\ anon_by_author \in [Authors -> AnonIds]
    /\ profile \in Profiles
    /\ pending \in Seq([due_ms : Nat, frame : Frames])
    /\ inbox \in Seq(Frames)
    /\ handed \subseteq Inbounds /\ \A one, other \in handed : one = other
    /\ DOMAIN events \subseteq Ids /\ DOMAIN routes = 1..Len(routes) /\ Len(routes) \in Nat
    /\ wipes \in Nat

\* The ids of the intact frames that have left NodeA and not reached NodeB.
Carried(frames) == {frames[i].raw.event_id : i \in {j \in DOMAIN frames : ~frames[j].corrupted}}
OnAir == Carried([i \in DOMAIN pending |-> pending[i].frame]) \cup Carried(inbox)

InHand == {inbound.event_id : inbound \in handed}

\* The ids that got through to NodeB for good.
Arrived == InHand \cup DOMAIN events

(* An event the channel took is never lost after that: its id is on air, in *)
(* the driver's hands or in the gateway, whatever garbled copies,           *)
(* duplicates, reorderings and reboots of NodeB come in between.            *)
SentIsCarried == sent \cup sent_before \subseteq OnAir \cup Arrived

(* NodeA retransmits only what never got through: while it remembers having *)
(* accepted an event that still waits, no intact copy of it is on air, in   *)
(* the driver's hands or in the gateway, so LOST never hides a delivery.    *)
WaitingIsUndelivered ==
    \A e \in queue :
        /\ e.id \notin sent
        /\ e.id \in OnAir \cup Arrived => e.id \in sent_before

(* The gateway hears of an event once for each time NodeB lost its replay   *)
(* ring, and once more: duplicates of the radio and retransmissions of      *)
(* NodeA add no route.                                                      *)
OneRoutePerRing ==
    \A i \in Ids :
        Cardinality({k \in DOMAIN routes : routes[k].event_id = i}) <= 1 + wipes

(* The replay ring is written before the gateway hears of the frame, but    *)
(* never runs away from it: what NodeB refuses as a duplicate is stored, or *)
(* in the driver's hands and about to be, also across reboots of NodeB      *)
(* between the two calls.                                                   *)
RingIsStored == b_seen_lora \subseteq Arrived

(* The path as a whole stores each accepted event once and unchanged. *)
Store == INSTANCE EventStore WITH
    Rows <- {RowOf(event) : event \in Translations},
    stored <- {events[i] : i \in DOMAIN events}

StoreSpec == Store!Spec
=============================================================================
