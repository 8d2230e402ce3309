--------------------------- MODULE EnvelopeSchema ----------------------------
(***************************************************************************)
(* The messages of the envelope codec (ignirelay_lab/wire/envelope_v3.py)  *)
(* as lists of fields.  The encode and decode methods of the classes differ*)
(* in their fields only, so the codec (EnvelopeV3) reads and writes them   *)
(* all by these lists.                                                     *)
(*                                                                         *)
(* A message is a record of field names; a field that may be absent, or be *)
(* repeated, is a sequence.  A text is its octets, ASCII in the lab.       *)
(***************************************************************************)
EXTENDS Integers, SequencesExt

CONSTANTS
    GROUP,            \* values of the lower bits of a varint's octet
    U64,              \* modulus of what is written as a varint
    VARINT_OCTETS,    \* octets of the longest varint a reader takes
    FIXED64, FIXED32, \* octets skipped for the wire types 1 and 5
    ID_BYTES, KEY_BYTES, SIGNATURE_BYTES, MAC_BYTES

ASSUME CodecAssumption ==
    /\ GROUP \in Nat \ {0, 1} /\ VARINT_OCTETS \in Nat \ {0} /\ U64 \in Nat
    /\ FIXED64 \in Nat /\ FIXED32 \in Nat
    /\ {ID_BYTES, KEY_BYTES, SIGNATURE_BYTES, MAC_BYTES} \subseteq Nat \ {0}

WIRE_VARINT == 0
WIRE_LEN == 2

\* How a field is written and read: "uint" and "sint" unless zero, "seen" an
\* integer whose absence is told from zero when read, "bearing" one more than
\* an optional integer, "text" and "bytes" unless empty, "raw" octets even if
\* empty, "message" unless its encoding is empty, "always" a message even then,
\* "some" an optional message, "each" repeated ones.
Field(kind, name) == [name |-> name, kind |-> kind, of |-> "none"]
Nested(kind, of, name) == [name |-> name, kind |-> kind, of |-> of]

\* The fields of each message, in the order of their numbers.
HlcTimestamp == <<Field("uint", "ms"), Field("uint", "counter")>>
LocationEvidence ==
    <<Field("uint", "source"), Field("uint", "frame"), Field("sint", "lat_e7"),
      Field("sint", "lng_e7"), Field("uint", "accuracy_m"),
      Nested("message", "HlcTimestamp", "observed_at"), Field("text", "anchor_node_id"),
      Field("uint", "distance_from_anchor_m"), Field("bearing", "bearing_deg")>>
NeedEntry ==
    <<Field("uint", "category"), Field("uint", "severity"),
      Nested("always", "HlcTimestamp", "expires_at")>>
StatusUpdateData ==
    <<Field("uint", "safety_state"), Nested("each", "NeedEntry", "needs"),
      Nested("some", "LocationEvidence", "location")>>
PresenceData ==
    <<Field("bytes", "anon_user_id"), Nested("message", "LocationEvidence", "location"),
      Field("uint", "battery_hint")>>
CheckpointData ==
    <<Field("bytes", "anon_user_id"), Field("text", "checkpoint_id"),
      Nested("message", "LocationEvidence", "location")>>
HazardMarkerData ==
    <<Field("text", "hazard_id"), Field("uint", "hazard_type"), Field("uint", "severity"),
      Nested("message", "LocationEvidence", "location"), Field("text", "description"),
      Field("bool", "is_confirmation")>>
AdminBroadcastData ==
    <<Field("uint", "scope"), Field("text", "message"),
      Nested("message", "HlcTimestamp", "expires_at")>>
NodeReceiptData ==
    <<Field("bytes", "ref_envelope_id"), Field("uint", "status"),
      Field("uint", "queue_depth")>>
EventEnvelopeV2 ==
    <<Field("uint", "protocol_version"), Field("bytes", "envelope_id"),
      Field("uint", "event_type"), Field("uint", "priority"),
      Nested("some", "HlcTimestamp", "created_at_hlc"),
      Nested("some", "HlcTimestamp", "expires_at_hlc"), Field("uint", "max_hops"),
      Field("bytes", "author_key"), Field("seen", "sig_algo"), Field("bytes", "signature"),
      Field("raw", "payload"), Field("text", "last_relay_id"),
      Field("bool", "is_experimental"), Field("bytes", "field_id"),
      Field("bytes", "field_mac")>>

Schema ==
    [HlcTimestamp |-> HlcTimestamp,
     LocationEvidence |-> LocationEvidence,
     NeedEntry |-> NeedEntry,
     StatusUpdateData |-> StatusUpdateData,
     PresenceData |-> PresenceData,
     CheckpointData |-> CheckpointData,
     HazardMarkerData |-> HazardMarkerData,
     AdminBroadcastData |-> AdminBroadcastData,
     NodeReceiptData |-> NodeReceiptData,
     EventEnvelopeV2 |-> EventEnvelopeV2]

Wire(field) ==
    IF field.kind \in {"uint", "sint", "bool", "seen", "bearing"} THEN WIRE_VARINT ELSE WIRE_LEN

\* What a text becomes whose octets are not one; the reader raises
\* UnicodeDecodeError.
NOT_TEXT == <<-1>>

\* The fields without which an envelope is malformed, and their sizes.
Required(env) ==
    /\ env.protocol_version # 0 /\ env.event_type # 0 /\ env.priority # 0
    /\ Len(env.envelope_id) = ID_BYTES /\ Len(env.field_id) = ID_BYTES
    /\ env.created_at_hlc # <<>> /\ env.expires_at_hlc # <<>>
    /\ Len(env.author_key) = KEY_BYTES /\ Len(env.signature) = SIGNATURE_BYTES
    /\ env.sig_algo # <<>> /\ env.payload # <<>>
    /\ Len(env.field_mac) \in {0, MAC_BYTES}
=============================================================================
