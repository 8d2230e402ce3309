------------------------------- MODULE LoraWire -------------------------------
(***************************************************************************)
(* The LORA-WIRE frames (ignirelay_lab/wire/lora_v1.py): what encoding     *)
(* keeps of a frame's fields, and the receive pipeline with its checks in  *)
(* their order and the replay ring behind them.  A frame is its header,    *)
(* its body, its size in octets and its two seals; a seal holds of nothing *)
(* but what it was computed over.                                          *)
(***************************************************************************)
EXTENDS Integers, Sequences

CONSTANTS
    BYTE, U16, U48,          \* widths of the wire fields
    HLC_REPLAY_WINDOW_MS,
    LORA_MAC_KEY,            \* the key of the receiver's field
    Headers,                 \* header fields a sender asks for
    EventBodies, AckBodies,  \* body fields a sender asks for
    Keys,                    \* keys of the senders in range
    Clocks                   \* the receiver's estimates of the time, or NO_CLOCK

NO_CLOCK == -1
ON_AIR == "on-air"
ACCEPTED == "accepted"
NONE == "none"
WIRE_VERSION == 1
PTYPE_EVENT == 1
PTYPE_ACK == 2
HDR_BYTES == 11
SEAL_BYTES == 8 + 2
ACK_FRAME_BYTES == 32
MAX_PAYLOAD_BYTES == 64
EVENT_MIN_FRAME_BYTES == HDR_BYTES + 27 + SEAL_BYTES

FLIPPED == "flipped"

ASSUME WireAssumption ==
    /\ BYTE \in Nat /\ BYTE > MAX_PAYLOAD_BYTES /\ BYTE % 2 = 0
    /\ U16 \in Nat \ {0} /\ U48 \in Nat \ {0}
    /\ HLC_REPLAY_WINDOW_MS \in Nat /\ LORA_MAC_KEY \in Keys /\ FLIPPED \notin Keys

\* What a sender may ask for; a number stands for an id and for a payload.
ASSUME SendersAssumption ==
    /\ Headers \subseteq [hlc_synced : BOOLEAN, packet_seq : Nat, ttl : Nat]
    /\ EventBodies \subseteq [event_id : Nat, priority : Nat, hlc_ms : Nat,
                              payload_len : Nat, payload : Nat]
    /\ AckBodies \subseteq [ack_seq : Nat, event_id_prefix : Nat, status : Nat]

VARIABLES
    frame,     \* the frame on air, or the last one received
    asked,     \* history: the header, body and key its sender asked for
    damage,    \* history: what the radio did to it: NONE, FLIPPED or "cut"
    reason,    \* the verdict on it: ON_AIR, ACCEPTED, or the drop reason
    seen       \* the receiver's replay ring

vars == <<frame, asked, damage, reason, seen>>

\* _seal
Seal(hdr, body, size, key) ==
    LET mac == [key |-> key, over |-> <<hdr, body>>]
    IN [hdr |-> hdr, body |-> body, size |-> size, mac |-> mac,
        crc |-> <<hdr, body, mac>>]

\* _hdr: the header fields are cut to their width.
Header(h, ptype) ==
    [version |-> WIRE_VERSION, ptype |-> ptype, hlc_synced |-> h.hlc_synced,
     packet_seq |-> h.packet_seq % U16, ttl |-> h.ttl % BYTE]

EventBody(b) ==
    [event_id |-> b.event_id, priority |-> b.priority % BYTE, hlc_ms |-> b.hlc_ms % U48,
     payload_len |-> b.payload_len % BYTE, payload |-> b.payload]

\* encode_event_frame with allow_oversize_payload, of which the payloads of at
\* most MAX_PAYLOAD_BYTES are what it encodes without: a payload longer than its
\* octet can count goes out whole.
EventFrame(h, b, key) ==
    Seal(Header(h, PTYPE_EVENT), EventBody(b), EVENT_MIN_FRAME_BYTES + b.payload_len, key)

\* encode_ack_frame
AckFrame(h, b, key) ==
    Seal(Header(h, PTYPE_ACK),
         [ack_seq |-> b.ack_seq % U16, event_id_prefix |-> b.event_id_prefix,
          status |-> b.status % BYTE],
         ACK_FRAME_BYTES, key)

\* What another version of the protocol, or a frame type of a later one, may send.
OtherFrames(h, b, key) ==
    LET hdr == Header(h, PTYPE_EVENT)
    IN {Seal(other, EventBody(b), EVENT_MIN_FRAME_BYTES + b.payload_len, key) :
          other \in {[hdr EXCEPT !.version = WIRE_VERSION + 1], [hdr EXCEPT !.ptype = PTYPE_ACK + 1]}}

\* FakeLoRaChannel._corrupt: an octet of a body field, the low one for instance, is
\* flipped, or one of the MAC.
FlipOctet(v) == v + BYTE - 1 - 2 * (v % BYTE)

Garblings(f) ==
    {[f EXCEPT !.mac.key = FLIPPED]} \cup
    {[f EXCEPT !.body[field] = FlipOctet(@)] : field \in
        {g \in DOMAIN f.body : g = "payload" => f.body.payload_len > 0}}

-----------------------------------------------------------------------------
Distance(a, b) == IF a < b THEN b - a ELSE a - b

IsEvent(f) == f.hdr.ptype = PTYPE_EVENT
LeastSize(f) == IF IsEvent(f) THEN EVENT_MIN_FRAME_BYTES ELSE ACK_FRAME_BYTES
ExpectedSize(f) ==
    IF IsEvent(f) THEN EVENT_MIN_FRAME_BYTES + f.body.payload_len ELSE ACK_FRAME_BYTES

Bug_NoMacCheck(f) == TRUE
MacHolds(f) == f.mac = [key |-> LORA_MAC_KEY, over |-> <<f.hdr, f.body>>]
CrcHolds(f) == f.crc = <<f.hdr, f.body, f.mac>>

\* The checks of the pipeline, in its order, each with the reason it drops for.
Checks(f, local_est_ms) ==
    << <<"truncated", f.size < HDR_BYTES>>,
       <<"unknown-version", f.hdr.version # WIRE_VERSION>>,
       <<"unknown-ptype", f.hdr.ptype \notin {PTYPE_EVENT, PTYPE_ACK}>>,
       <<"truncated", f.size < LeastSize(f)>>,
       <<"payload-too-long", IsEvent(f) /\ f.body.payload_len > MAX_PAYLOAD_BYTES>>,
       <<"truncated", f.size < ExpectedSize(f)>>,
       <<"length-mismatch", f.size # ExpectedSize(f)>>,
       <<"crc-mismatch", ~CrcHolds(f)>>,
       <<"mac-mismatch", ~MacHolds(f)>>,
       <<"ttl-expired", f.hdr.ttl = 0>>,
       <<"replay-window",
            /\ IsEvent(f) /\ f.hdr.hlc_synced /\ local_est_ms # NO_CLOCK
            /\ Distance(f.body.hlc_ms, local_est_ms) > HLC_REPLAY_WINDOW_MS>>,
       <<"replay-duplicate", IsEvent(f) /\ f.body.event_id \in seen>> >>

\* The first check that fails names the reason; none accepts the frame.
Verdict(f, local_est_ms) ==
    LET checks == Checks(f, local_est_ms)
        failing == {k \in DOMAIN checks : checks[k][2]}
    IN IF failing = {} THEN ACCEPTED
       ELSE checks[CHOOSE k \in failing : \A j \in failing : k <= j][1]

-----------------------------------------------------------------------------
\* A frame nobody has received yet is lost when the next one is sent.
Asks(h, b, key) ==
    /\ asked' = [hdr |-> h, body |-> b, key |-> key]
    /\ damage' = NONE /\ reason' = ON_AIR
    /\ UNCHANGED seen

\* A sender puts a frame on air; one with a longer payload only when it says so.
SendsEvent ==
    \E h \in Headers, b \in EventBodies, key \in Keys :
        frame' = EventFrame(h, b, key) /\ Asks(h, b, key)

SendsAck ==
    \E h \in Headers, b \in AckBodies, key \in Keys :
        frame' = AckFrame(h, b, key) /\ Asks(h, b, key)

SendsOther ==
    \E h \in Headers, b \in EventBodies, key \in Keys :
        frame' \in OtherFrames(h, b, key) /\ Asks(h, b, key)

Garbles ==
    /\ reason = ON_AIR /\ damage = NONE
    /\ frame' \in Garblings(frame) /\ damage' = FLIPPED
    /\ UNCHANGED <<asked, reason, seen>>

\* A frame in hand that lacks its end.
CutShort ==
    /\ reason = ON_AIR /\ damage = NONE
    /\ \E size \in {0, HDR_BYTES, frame.size - 1} : frame' = [frame EXCEPT !.size = size]
    /\ damage' = "cut"
    /\ UNCHANGED <<asked, reason, seen>>

Bug_RingBeforeVerdict(local_est_ms) ==
    /\ reason = ON_AIR
    /\ reason' = Verdict(frame, local_est_ms)
    /\ seen' = IF IsEvent(frame) THEN seen \cup {frame.body.event_id} ELSE seen
    /\ UNCHANGED <<frame, asked, damage>>

\* verify_lora_frame: an accepted EVENT enters the ring.
Receives(local_est_ms) ==
    /\ reason = ON_AIR
    /\ reason' = Verdict(frame, local_est_ms)
    /\ seen' = IF reason' = ACCEPTED /\ IsEvent(frame) THEN seen \cup {frame.body.event_id} ELSE seen
    /\ UNCHANGED <<frame, asked, damage>>

\* The same octets once more: a duplicate of the radio, or a replay.
ComesAgain ==
    /\ reason # ON_AIR /\ reason' = ON_AIR
    /\ UNCHANGED <<frame, asked, damage, seen>>

Init ==
    /\ \E h \in Headers, b \in EventBodies, key \in Keys :
          frame = EventFrame(h, b, key) /\ asked = [hdr |-> h, body |-> b, key |-> key]
    /\ damage = NONE /\ reason = ON_AIR /\ seen = {}

Next ==
    \/ SendsEvent \/ SendsAck \/ SendsOther \/ Garbles \/ CutShort \/ ComesAgain
    \/ \E local_est_ms \in Clocks : Receives(local_est_ms)

Spec == Init /\ [][Next]_vars

-----------------------------------------------------------------------------
(* What is accepted is what a sender of the receiver's own field asked to   *)
(* send, whole: no damaged frame, no other field's, none without hops left, *)
(* no payload longer than the wire carries or than its octet can count.     *)
AcceptedIsAsAsked ==
    reason = ACCEPTED =>
        /\ damage = NONE /\ asked.key = LORA_MAC_KEY
        /\ frame.hdr.version = WIRE_VERSION
        /\ asked.hdr.ttl > 0 /\ frame.hdr.ttl > 0
        /\ IsEvent(frame) =>
              /\ frame.body.event_id = asked.body.event_id
              /\ frame.body.payload_len = asked.body.payload_len
              /\ asked.body.payload_len <= MAX_PAYLOAD_BYTES

(* The ring only learns an EVENT whose every check passed, so a refused     *)
(* frame never makes a later good one a duplicate.                          *)
RingLearnsAcceptedOnly ==
    [][seen' # seen =>
          /\ reason' = ACCEPTED /\ seen' = seen \cup {asked.body.event_id}
          /\ asked.body.event_id \notin seen]_vars

(* A frame of which the channel flipped an octet is refused by its CRC or   *)
(* its MAC, as the comment in FakeLoRaChannel._corrupt says.                *)
FlipFailsASeal ==
    damage = FLIPPED /\ reason # ON_AIR /\ IsEvent(frame)
        /\ frame.hdr.version = WIRE_VERSION /\ asked.body.payload_len <= MAX_PAYLOAD_BYTES
    => reason \in {"crc-mismatch", "mac-mismatch"}
=============================================================================
