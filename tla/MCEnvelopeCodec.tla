--------------------------- MODULE MCEnvelopeCodec --------------------------
(* An instance of EnvelopeCodec for TLC: octets of two groups of eight      *)
(* values, integers of twenty bits, and samples of every message.           *)
EXTENDS EnvelopeCodec

Largest == U64 - 1
Hlc(ms, counter) == [ms |-> ms, counter |-> counter]
Hlcs == {Hlc(0, 0), Hlc(0, 1), Hlc(GROUP - 1, GROUP), Hlc(Largest, 0)}

Location(lat, lng, at, bearing) ==
    [source |-> 1, frame |-> 0, lat_e7 |-> lat, lng_e7 |-> lng, accuracy_m |-> 12,
     observed_at |-> at, anchor_node_id |-> IF bearing = <<>> THEN <<>> ELSE <<5, 6>>,
     distance_from_anchor_m |-> 0, bearing_deg |-> bearing]
Coordinates == {0, 1, -1, GROUP, -GROUP, U64 \div 2 - 1, -(U64 \div 2)}
Locations ==
    {Location(lat, 1 - lat, Hlc(7, 0), <<>>) : lat \in Coordinates \ {-(U64 \div 2)}}
        \cup {Location(-(U64 \div 2), 0, Hlc(0, 0), <<0>>), Location(3, -3, Hlc(0, 9), <<359>>)}
Somewhere == Location(-70, 9, Hlc(70, 0), <<0>>)

Need(at) == [category |-> 2, severity |-> 0, expires_at |-> at]

Envelope(payload, hops, relay, mac) ==
    [protocol_version |-> 3, envelope_id |-> <<9, 1>>, event_type |-> 102, priority |-> 1,
     created_at_hlc |-> <<Hlc(0, 0)>>, expires_at_hlc |-> <<Hlc(90, 0)>>, max_hops |-> hops,
     author_key |-> <<8, 15>>, sig_algo |-> <<1>>, signature |-> <<1, 2, 3>>,
     payload |-> <<payload>>, last_relay_id |-> relay, is_experimental |-> relay # <<>>,
     field_id |-> <<0, 0>>, field_mac |-> mac]

Of(type, messages) == {[type |-> type, message |-> m] : m \in messages}

MCMessages ==
    Of("HlcTimestamp", Hlcs) \cup Of("LocationEvidence", Locations)
    \cup Of("NeedEntry", {Need(at) : at \in Hlcs})
    \cup Of("StatusUpdateData",
            {[safety_state |-> 4, needs |-> needs, location |-> at] :
                needs \in {<<>>, <<Need(Hlc(0, 0)), Need(Hlc(64, 1))>>},
                at \in {<<>>, <<Blank("LocationEvidence")>>, <<Somewhere>>}})
    \cup Of("PresenceData",
            {[anon_user_id |-> id, location |-> at, battery_hint |-> 87] :
                id \in {<<>>, <<0>>, <<15, 8, 0>>},
                at \in {Blank("LocationEvidence"), Somewhere}})
    \cup Of("CheckpointData",
            {[anon_user_id |-> <<1>>, checkpoint_id |-> <<3, 0>>, location |-> Somewhere]})
    \cup Of("HazardMarkerData",
            {[hazard_id |-> <<1>>, hazard_type |-> 0, severity |-> 300, location |-> Somewhere,
              description |-> text, is_confirmation |-> text = <<>>] : text \in {<<>>, <<0, 7>>}})
    \cup Of("AdminBroadcastData",
            {[scope |-> 1, message |-> <<2>>, expires_at |-> at] : at \in Hlcs})
    \cup Of("NodeReceiptData",
            {[ref_envelope_id |-> ref, status |-> 2, queue_depth |-> 8] : ref \in {<<>>, <<9, 1>>}})
    \cup Of("EventEnvelopeV2",
            {Envelope(<<>>, 0, <<>>, <<>>), Envelope(<<8, 1>>, 255, <<4>>, <<6, 15, 6>>)})

MCLaterFields ==
    {write_tag(16, WIRE_VARINT) \o write_varint(Largest), write_tag(16, 1) \o <<8, 8, 8, 8, 8, 8, 8, 8>>,
     write_tag(20, WIRE_LEN) \o <<2, 15, 8>>, write_tag(16, 5) \o <<8, 1, 8, 2>>}
=============================================================================
