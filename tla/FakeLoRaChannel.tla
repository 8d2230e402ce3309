--------------------------- MODULE FakeLoRaChannel --------------------------
(***************************************************************************)
(* The radio between two nodes (ignirelay_lab/channel.py): a list of       *)
(* deliveries with a due time, to which transmit adds the frame, a garbled *)
(* copy of it or nothing, and which may be reordered at each addition.     *)
(***************************************************************************)
EXTENDS Subsequences, Functions

CONSTANT Profiles   \* the profiles a channel may be made with

\* Of the fields of a ChannelProfile the channel reads these, delays being the
\* ones drawn from delay_ms_min..delay_ms_max.
ASSUME ChannelAssumption ==
    \A p \in Profiles :
        /\ {p.packet_loss_percent, p.duplicate_percent, p.reorder_percent,
            p.corrupt_percent, p.channel_busy_percent} \subseteq 0..100
        /\ p.delays # {} /\ p.delays \subseteq Nat

VARIABLES
    profile,    \* the channel's
    pending     \* the deliveries on air, in the order they will drain

channelVars == <<profile, pending>>

ChannelInit == profile \in Profiles /\ pending = <<>>

\* The outcomes a draw can have: 0% never hits, 100% always does.
Hit(percent) == {hit \in BOOLEAN : IF hit THEN percent > 0 ELSE percent < 100}

Delivery(due_ms, frame) == [due_ms |-> due_ms, frame |-> frame]

Bug_FlipsNothing(frame) == frame

\* One byte flipped past the header, which the anon8 stands for: the length, CRC
\* or MAC check refuses the frame.
GARBLED == -1
Corrupt(frame) == [frame EXCEPT !.corrupted = TRUE, !.raw.anon = GARBLED]

\* Where the delivery at place i goes when a list is sorted by due time.
Place(deliveries, i) ==
    Cardinality({j \in DOMAIN deliveries :
        \/ deliveries[j].due_ms < deliveries[i].due_ms
        \/ deliveries[j].due_ms = deliveries[i].due_ms /\ j <= i})

SortedByDue(deliveries) ==
    [k \in DOMAIN deliveries |->
        deliveries[CHOOSE i \in DOMAIN deliveries : Place(deliveries, i) = k]]

Shuffles(deliveries) ==
    LET places == DOMAIN deliveries
    IN {[k \in places |-> deliveries[p[k]]] : p \in Bijection(places, places)}

\* _reorder: any order at all, or by due time.
Reordered(deliveries) ==
    UNION {IF hit THEN Shuffles(deliveries) ELSE {SortedByDue(deliveries)} :
             hit \in Hit(profile.reorder_percent)}

\* BUSY: nothing goes on air.
ChannelBusy(frame) ==
    /\ frame.ttl > 0
    /\ TRUE \in Hit(profile.channel_busy_percent)
    /\ UNCHANGED channelVars

\* The frame reaches the loss draw.
Clear(frame) == frame.ttl > 0 /\ FALSE \in Hit(profile.channel_busy_percent)

\* LOST: the ttl is spent, or the packet is lost, or it goes on air garbled.
ChannelLost(now, frame) ==
    /\ UNCHANGED profile
    /\ \/ frame.ttl <= 0 /\ UNCHANGED pending
       \/ /\ Clear(frame) /\ TRUE \in Hit(profile.packet_loss_percent)
          /\ UNCHANGED pending
       \/ /\ Clear(frame) /\ FALSE \in Hit(profile.packet_loss_percent)
          /\ TRUE \in Hit(profile.corrupt_percent)
          /\ \E delay \in profile.delays :
                pending' \in Reordered(
                    Append(pending, Delivery(now + delay, Corrupt(frame))))

\* SENT: the frame goes on air, and perhaps a second copy of it just after.
ChannelSent(now, frame) ==
    /\ Clear(frame) /\ FALSE \in Hit(profile.packet_loss_percent)
    /\ FALSE \in Hit(profile.corrupt_percent)
    /\ UNCHANGED profile
    /\ \E delay \in profile.delays, twice \in Hit(profile.duplicate_percent) :
          LET copy == Delivery(now + delay, frame)
              echo == Delivery(now + delay + 1, frame)
          IN pending' \in Reordered(pending \o IF twice THEN <<copy, echo>>
                                                       ELSE <<copy>>)

\* The places of the deliveries that are due.
Due(now) == {i \in DOMAIN pending : pending[i].due_ms <= now}

\* drain_ready: the frames that are due, in the order of the list.
Ready(now) ==
    LET due == Subsequence(pending, Due(now))
    IN [k \in DOMAIN due |-> due[k].frame]

Bug_DrainForgets(now) == pending' = <<>> /\ UNCHANGED profile

Drain(now) ==
    /\ pending' = Subsequence(pending, DOMAIN pending \ Due(now))
    /\ UNCHANGED profile
=============================================================================
