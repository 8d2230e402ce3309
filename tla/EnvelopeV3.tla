----------------------------- MODULE EnvelopeV3 -----------------------------
(***************************************************************************)
(* The envelope codec (ignirelay_lab/wire/envelope_v3.py): a hand-written  *)
(* protobuf writer and reader of the messages of EnvelopeSchema.           *)
(***************************************************************************)
EXTENDS EnvelopeSchema

RECURSIVE Blank(_)

\* The message of no fields at all: every field has its default.
Blank(type) ==
    LET fields == Schema[type]
        Default(field) ==
            CASE field.kind \in {"uint", "sint"} -> 0
              [] field.kind = "bool" -> FALSE
              [] field.kind \in {"message", "always"} -> Blank(field.of)
              [] OTHER -> <<>>
    IN [name \in {fields[k].name : k \in DOMAIN fields} |->
            Default(fields[CHOOSE k \in DOMAIN fields : fields[k].name = name])]

-----------------------------------------------------------------------------
(* ProtoWriter *)

Bug_NoSign(v) == 2 * (IF v < 0 THEN -v ELSE v)

zigzag_encode64(v) == (IF v < 0 THEN -2 * v - 1 ELSE 2 * v) % U64
zigzag_decode64(u) == IF u % 2 = 0 THEN u \div 2 ELSE -(u \div 2) - 1

\* The lowest group first; every octet but the last has the upper bit set.
Varint[v \in Nat] ==
    IF v < GROUP THEN <<v>> ELSE <<GROUP + (v % GROUP)>> \o Varint[v \div GROUP]

write_varint(v) == Varint[v % U64]

write_tag(number, wire) == write_varint(8 * number + wire)

NotZero(v) == v # 0
NotEmpty(octets) == octets # <<>>

RECURSIVE Encode(_, _)

\* What is written of a field: an integer or a string of octets each time.
Written(field, v) ==
    CASE field.kind = "uint" -> SelectSeq(<<v>>, NotZero)
      [] field.kind = "seen" -> SelectSeq(v, NotZero)
      [] field.kind = "sint" -> SelectSeq(<<zigzag_encode64(v)>>, NotZero)
      [] field.kind = "bool" -> IF v THEN <<1>> ELSE <<>>
      [] field.kind = "bearing" -> [k \in DOMAIN v |-> v[k] + 1]
      [] field.kind \in {"bytes", "text"} -> SelectSeq(<<v>>, NotEmpty)
      [] field.kind = "raw" -> v
      [] field.kind = "message" -> SelectSeq(<<Encode(field.of, v)>>, NotEmpty)
      [] field.kind = "always" -> <<Encode(field.of, v)>>
      [] field.kind \in {"some", "each"} -> [k \in DOMAIN v |-> Encode(field.of, v[k])]

\* encode: the fields in the order of their numbers.
Encode(type, message) ==
    LET Octets(number, field, x) ==
            write_tag(number, Wire(field)) \o
                IF Wire(field) = WIRE_VARINT THEN write_varint(x) ELSE write_varint(Len(x)) \o x
        Fields(number) ==
            LET field == Schema[type][number]
                values == Written(field, message[field.name])
            IN FlattenSeq([k \in DOMAIN values |-> Octets(number, field, values[k])])
    IN FlattenSeq([number \in DOMAIN Schema[type] |-> Fields(number)])

-----------------------------------------------------------------------------
(* ProtoReader: a reading is a set, empty where the reader raises a        *)
(* ProtoDecodeError.                                                       *)

\* Where the varint that starts at pos ends, if it does and is not too long.
VarintEnds(data, pos) ==
    {n \in pos..pos + VARINT_OCTETS - 1 :
        /\ n <= Len(data) /\ data[n] < GROUP
        /\ \A k \in pos..n - 1 : data[k] >= GROUP}

\* An integer of up to VARINT_OCTETS groups, which may be U64 or more.
read_varint(data, pos) ==
    {[value |-> FoldRight(LAMBDA octet, v : (octet % GROUP) + GROUP * v,
                          SubSeq(data, pos, n), 0),
      next |-> n + 1] : n \in VarintEnds(data, pos)}

Bug_TakesWhatIsThere(data, pos) ==
    {[value |-> SubSeq(data, n.next, IF n.next + n.value > Len(data) THEN Len(data)
                                                                   ELSE n.next + n.value - 1),
      next |-> n.next + n.value] : n \in read_varint(data, pos)}

read_len_delimited(data, pos) ==
    {[value |-> SubSeq(data, n.next, n.next + n.value - 1), next |-> n.next + n.value] :
        n \in {m \in read_varint(data, pos) : m.next + m.value <= Len(data) + 1}}

\* A known field is read as its number says, whatever wire type its tag has; an
\* unknown one is skipped as its wire type says, fixed sizes past the end too.
Value(wire, data, pos) ==
    CASE wire = WIRE_VARINT -> read_varint(data, pos)
      [] wire = WIRE_LEN -> read_len_delimited(data, pos)
      [] wire = 1 -> {[next |-> pos + FIXED64]}
      [] wire = 5 -> {[next |-> pos + FIXED32]}
      [] OTHER -> {}

RECURSIVE Decode(_, _)

\* What the value of a field means to the message read so far.
Meaning(field, x, before) ==
    CASE field.kind = "sint" -> {zigzag_decode64(x)}
      [] field.kind = "bool" -> {x # 0}
      [] field.kind \in {"seen", "raw"} -> {<<x>>}
      [] field.kind = "bearing" -> {IF x = 0 THEN <<>> ELSE <<x - 1>>}
      [] field.kind = "text" -> {IF \E k \in DOMAIN x : x[k] >= GROUP THEN NOT_TEXT ELSE x}
      [] field.kind \in {"message", "always"} -> Decode(field.of, x)
      [] field.kind = "some" -> {<<m>> : m \in Decode(field.of, x)}
      [] field.kind = "each" -> {Append(before, m) : m \in Decode(field.of, x)}
      [] OTHER -> {x}

RECURSIVE ReadFrom(_, _, _, _)

\* The loop of decode: the last of several fields of one number wins.
ReadFrom(type, data, pos, message) ==
    IF pos > Len(data) THEN {message}
    ELSE UNION {
        LET number == tag.value \div 8
        IN IF number \notin DOMAIN Schema[type]
           THEN UNION {ReadFrom(type, data, v.next, message) :
                         v \in Value(tag.value % 8, data, tag.next)}
           ELSE LET field == Schema[type][number]
                    name == field.name
                IN UNION {
                    UNION {LET now == [message EXCEPT ![name] = x]
                           IN IF field.kind = "text" /\ x = NOT_TEXT THEN {now}
                              ELSE ReadFrom(type, data, v.next, now) :
                             x \in Meaning(field, v.value, message[name])} :
                      v \in Value(Wire(field), data, tag.next)} :
        tag \in read_varint(data, pos)}

Decode(type, data) == ReadFrom(type, data, 1, Blank(type))

\* EventEnvelopeV2.decode: an envelope, or one with NOT_TEXT where reading stopped.
DecodeEnvelope(data) ==
    {env \in Decode("EventEnvelopeV2", data) :
        env.last_relay_id = NOT_TEXT \/ Required(env)}
=============================================================================
