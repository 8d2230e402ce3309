---------------------------- MODULE CompactPayload ----------------------------
(***************************************************************************)
(* The compact payloads (ignirelay_lab/wire/compact.py): what a node makes *)
(* of the typed fields of a verified event before they go on air, octet by *)
(* octet, and what a reader of the frame gets back.                        *)
(***************************************************************************)
EXTENDS Integers, Sequences

CONSTANTS
    BYTE,          \* values of an octet
    ANON8_BYTES,   \* octets of an anonymous id on air
    SECOND_MS      \* milliseconds in a second

ASSUME CompactAssumption ==
    BYTE \in Nat \ {0, 1} /\ ANON8_BYTES \in Nat /\ SECOND_MS \in Nat \ {0}

LOC_SRC_UNKNOWN == 0
LOC13_BYTES == 13
U16_MAX == BYTE * BYTE - 1
U32 == BYTE * BYTE * BYTE * BYTE

\* v & 0xFF, of a negative v too.
Octet(v) == v % BYTE
u16le(v) == <<Octet(v), Octet(v \div BYTE)>>
i32le(v) == u16le(v) \o u16le(v \div (BYTE * BYTE))

rd_u16le(b, off) == b[off + 1] + BYTE * b[off + 2]

Bug_ReadsUnsigned(b, off) == rd_u16le(b, off) + BYTE * BYTE * rd_u16le(b, off + 2)

\* The upper half of the unsigned values stands for the negative ones.
rd_i32le(b, off) ==
    LET u == rd_u16le(b, off) + BYTE * BYTE * rd_u16le(b, off + 2)
    IN IF 2 * u >= U32 THEN u - U32 ELSE u

sat_u16(v) == IF v < 0 THEN 0 ELSE IF v <= U16_MAX THEN v ELSE U16_MAX

\* _anon8: cut to so many octets, or padded with zeros.
anon8(id) == [k \in 1..ANON8_BYTES |-> IF k <= Len(id) THEN id[k] ELSE 0]

age_seconds(observed_ms, now_ms) == sat_u16((now_ms - observed_ms) \div SECOND_MS)

encode_loc13(src, lat_e7, lng_e7, acc_m, age_s) ==
    <<Octet(src)>> \o i32le(lat_e7) \o i32le(lng_e7)
        \o u16le(sat_u16(acc_m)) \o u16le(sat_u16(age_s))

\* An optional location is a sequence of at most one.
loc13_from_evidence(location, now_ms) ==
    IF location = <<>> THEN encode_loc13(LOC_SRC_UNKNOWN, 0, 0, 0, 0)
    ELSE LET loc == location[1]
         IN encode_loc13(loc.source, loc.lat_e7, loc.lng_e7, loc.accuracy_m,
                         age_seconds(loc.observed_at.ms, now_ms))

presence_from_typed(p) == anon8(p.anon_user_id) \o <<Octet(p.battery_hint), Octet(p.location.source)>>

sos_from_typed(s, anon, now_ms) ==
    anon8(anon) \o <<Octet(s.safety_state)>> \o loc13_from_evidence(s.location, now_ms)

checkpoint_from_typed(c, checkpoint_node) == anon8(c.anon_user_id) \o u16le(checkpoint_node)

decode_loc13(b, off) ==
    [src |-> b[off + 1], lat_e7 |-> rd_i32le(b, off + 1), lng_e7 |-> rd_i32le(b, off + 5),
     acc_m |-> rd_u16le(b, off + 9), age_s |-> rd_u16le(b, off + 11)]

\* What a decoder makes of b: nothing, if b has not the size of its kind.
Sized(b, size, reading) == IF Len(b) = size THEN {reading} ELSE {}

decode_presence(b) ==
    Sized(b, ANON8_BYTES + 2,
          [anon8 |-> SubSeq(b, 1, ANON8_BYTES), battery |-> b[ANON8_BYTES + 1],
           evid_src |-> b[ANON8_BYTES + 2]])

decode_sos(b) ==
    Sized(b, ANON8_BYTES + 1 + LOC13_BYTES,
          [anon8 |-> SubSeq(b, 1, ANON8_BYTES), safety |-> b[ANON8_BYTES + 1],
           loc |-> decode_loc13(b, ANON8_BYTES + 1)])

decode_checkpoint(b) ==
    Sized(b, ANON8_BYTES + 2,
          [anon8 |-> SubSeq(b, 1, ANON8_BYTES), checkpoint_node |-> rd_u16le(b, ANON8_BYTES)])
=============================================================================
