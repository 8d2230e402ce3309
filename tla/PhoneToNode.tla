---------------------------- MODULE PhoneToNode -----------------------------
(***************************************************************************)
(* The first hop in octets (ignirelay_lab/actors.py, FakePhone, FakeBleLink*)
(* and SimNode.ble_ingest): the phone builds and signs an envelope, a link *)
(* carries it, perhaps damaged, perhaps more than once; the node decodes,  *)
(* verifies and translates it, and answers with a receipt.                 *)
(*                                                                         *)
(* What ingest does to the node is SimNode's; this module says what        *)
(* envelope SimNode meets.  A seal is known by the signing it comes from:  *)
(* it holds of nothing else.  A hash stands for what was hashed.  The codec*)
(* is a parameter, which EnvelopeV3 gives: the assumptions say all that    *)
(* matters of it here.                                                     *)
(***************************************************************************)
EXTENDS EnvelopeSchema, CompactPayload

CONSTANTS
    Scripts,            \* what the phone may report, one after the other
    anon_user_id, author_key, field_id,    \* the phone's
    VALIDITY_MS,        \* _DEFAULT_VALIDITY_MS
    Extras,             \* octets of fields that a relay may append
    FlipsTo(_),         \* the octets that damage may make of an octet
    Clocks,             \* the instants of calls
    node_num, max_queue_size,
    \* The codec: the message of no fields, encode, and what decode may yield
    \* (for an envelope, only one with its required fields).
    blank(_), encode(_, _), decode(_, _), decode_envelope(_)

ASSUME FirstHopAssumption ==
    /\ BYTE = 2 * GROUP /\ Len(author_key) = KEY_BYTES /\ Len(field_id) = ID_BYTES
    /\ VALIDITY_MS \in Nat /\ Clocks \subseteq Nat \ {0} /\ node_num \in 0..BYTE * BYTE - 1
    /\ max_queue_size \in Nat \ {0}

VARIABLES
    queue, seen_ble, seen_lora, retry, packet_seq, dropped_events, anon_by_author,
    payloads,           \* event id -> its compact payload, and when it was made
    todo,               \* what the phone has yet to report
    counter,            \* the phone's _counter
    clock,              \* the instant of the last call
    signed,             \* history: the canonical inputs signed, in order
    reported,           \* history: event id -> what the phone reported
    datagram,           \* the octets the phone sends
    receipt             \* the octets the node answered with, until the phone has
                        \* read them; history: did it get what was sent?

\* A table with an entry put in, over what was there.
Put(table, i, entry) ==
    [j \in DOMAIN table \cup {i} |-> IF j = i THEN entry ELSE table[j]]

nodeVars == <<queue, seen_ble, seen_lora, retry, packet_seq, dropped_events, anon_by_author>>
phoneVars == <<todo, counter, signed, reported>>
vars == <<nodeVars, payloads, phoneVars, clock, datagram, receipt>>

\* An octet string as a number, the first octet the most significant: the heap
\* orders ids so.
Number(octets) == FoldLeft(LAMBDA n, octet : n * BYTE + octet, 0, octets)

EventTypes == [sos |-> 1, presence |-> 3, checkpoint |-> 4]
KindOf(event_type) ==
    IF \E kind \in DOMAIN EventTypes : EventTypes[kind] = event_type
    THEN CHOOSE kind \in DOMAIN EventTypes : EventTypes[kind] = event_type ELSE "other"

\* sha256 of the phone, the event type and the counter, cut to ID_BYTES.
EnvelopeId(event_type, n) ==
    [k \in 1..ID_BYTES |-> IF k = 1 THEN event_type ELSE IF k = 2 THEN n ELSE 0]

EventIds == {Number(EnvelopeId(e, n)) : e \in {1, 3, 4}, n \in 1..GROUP}

Node == INSTANCE SimNode WITH
    Ids <- EventIds, Authors <- {author_key}, Envelopes <- {}, U16 <- BYTE * BYTE,
    U48 <- (BYTE * BYTE * BYTE) * (BYTE * BYTE * BYTE),
    LOSS_BUDGET_CRITICAL <- 6, LOSS_BUDGET_DEFAULT <- 3, RETRY_BACKOFF_MS <- 100,
    RETRY_JITTER_MS <- 80, Jitters <- {0}, DEFAULT_TTL <- 6, HLC_REPLAY_WINDOW_MS <- 0

Init ==
    /\ Node!NodeInit /\ payloads = <<>>
    /\ todo \in Scripts /\ counter = 0 /\ clock = 0 /\ signed = <<>> /\ reported = <<>>
    /\ datagram = <<>> /\ receipt = <<>>

-----------------------------------------------------------------------------
(* FakePhone *)

Hlc(ms, n) == [ms |-> ms, counter |-> n]

\* _location
LocationOf(report, now) ==
    [blank("LocationEvidence") EXCEPT
        !.source = report.source, !.lat_e7 = report.lat_e7, !.lng_e7 = report.lng_e7,
        !.accuracy_m = report.acc_m, !.observed_at = Hlc(now, 0)]

PayloadType == [sos |-> "StatusUpdateData", presence |-> "PresenceData",
                checkpoint |-> "CheckpointData"]

\* The typed payload of presence, sos and checkpoint.
TypedPayload(report, now) ==
    CASE report.kind = "presence" ->
           [anon_user_id |-> anon_user_id, location |-> LocationOf(report, now),
            battery_hint |-> report.value]
      [] report.kind = "sos" ->
           [safety_state |-> report.value, needs |-> <<>>,
            location |-> <<LocationOf(report, now)>>]
      [] report.kind = "checkpoint" ->
           [anon_user_id |-> anon_user_id, checkpoint_id |-> <<1, 2>>,
            location |-> LocationOf(report, now)]

PriorityOf == [sos |-> Node!SOS_RED, presence |-> Node!ALERT, checkpoint |-> Node!STATUS]

\* What the signature and the MAC are computed over.
SignedFields ==
    {"protocol_version", "envelope_id", "field_id", "event_type", "priority",
     "created_at_hlc", "expires_at_hlc", "max_hops", "author_key", "sig_algo", "payload"}

Bug_MaxHopsUnsigned(env) == [f \in SignedFields \ {"max_hops"} |-> env[f]]

\* canonical_sig_input_v3
Canonical(env) == [f \in SignedFields |-> env[f]]

\* The octets of the n-th seal.
Seal(n, size) == [k \in 1..size |-> n]

\* _build, before the seals, of the n-th event; an expired SOS was made a moment
\* ago, for no time.
Unsealed(report, now, n) ==
    LET made_ms == IF report.expired THEN now - 1 ELSE now
        event_type == EventTypes[report.kind]
    IN [blank("EventEnvelopeV2") EXCEPT
          !.protocol_version = 3, !.envelope_id = EnvelopeId(event_type, n),
          !.event_type = event_type, !.priority = PriorityOf[report.kind],
          !.created_at_hlc = <<Hlc(made_ms, n)>>,
          !.expires_at_hlc = <<Hlc(IF report.expired THEN made_ms ELSE made_ms + VALIDITY_MS, 0)>>,
          !.author_key = author_key, !.sig_algo = <<1>>, !.field_id = field_id,
          !.payload = <<encode(PayloadType[report.kind], TypedPayload(report, now))>>]

Sealed(env, n) ==
    [env EXCEPT !.signature = Seal(n, SIGNATURE_BYTES), !.field_mac = Seal(n, MAC_BYTES)]

Builds(now) ==
    /\ todo # <<>> /\ receipt = <<>> /\ now >= clock /\ clock' = now
    /\ counter' = counter + 1
    /\ LET report == Head(todo)
           env == Unsealed(report, now, counter')
       IN /\ signed' = Append(signed, Canonical(env))
          /\ datagram' = encode("EventEnvelopeV2", Sealed(env, counter'))
          /\ reported' = Put(reported, Number(env.envelope_id),
                            [report |-> report, at |-> now, envelope |-> env])
    /\ todo' = Tail(todo)
    /\ UNCHANGED <<nodeVars, payloads, receipt>>

\* read_node_receipt
PhoneReads ==
    /\ receipt # <<>> /\ receipt' = <<>>
    /\ UNCHANGED <<nodeVars, payloads, phoneVars, clock, datagram>>

-----------------------------------------------------------------------------
(* The link *)

\* What may arrive of octets, each time they are sent.
Arrivals(octets) ==
    {octets} \cup {SubSeq(octets, 1, n) : n \in 0..Len(octets) - 1}
        \cup {octets \o extra : extra \in Extras}
        \cup UNION {{[octets EXCEPT ![n] = octet] : octet \in FlipsTo(octets[n])} :
                      n \in DOMAIN octets}

-----------------------------------------------------------------------------
(* SimNode.ble_ingest *)

\* struct.pack of the canonical input takes them: the others raise.
Packs(env) ==
    /\ {env.event_type, env.priority, env.max_hops, env.created_at_hlc[1].counter,
        env.expires_at_hlc[1].counter} \subseteq 0..U32 - 1
    /\ {env.created_at_hlc[1].ms, env.expires_at_hlc[1].ms} \subseteq 0..U64 - 1

SealHolds(seal, size, env) ==
    \E n \in DOMAIN signed : seal = Seal(n, size) /\ signed[n] = Canonical(env)

\* The first check that an envelope fails.
FaultOf(env) ==
    IF env.last_relay_id = NOT_TEXT THEN "raises"
    ELSE IF env.protocol_version # 3 THEN "unknown-protocol-version"
    ELSE IF env.sig_algo # <<1>> THEN "unknown-sig-algo"
    ELSE IF ~Packs(env) THEN "raises"
    ELSE IF ~SealHolds(env.signature, SIGNATURE_BYTES, env) THEN "signature-invalid"
    ELSE IF ~SealHolds(env.field_mac, MAC_BYTES, env) THEN "field-mac-invalid"
    ELSE "none"

\* The envelope as SimNode meets it.
Seen(env) ==
    LET kind == KindOf(env.event_type)
        announced == UNION {{anon8(p.anon_user_id) : p \in decode(PayloadType[kind], env.payload[1])} :
                              k \in {kind} \cap {"presence", "checkpoint"}}
    IN [id |-> Number(env.envelope_id), fault |-> FaultOf(env), event_type |-> kind,
        priority |-> env.priority, created_ms |-> env.created_at_hlc[1].ms,
        created_counter |-> env.created_at_hlc[1].counter,
        expires_ms |-> env.expires_at_hlc[1].ms, max_hops |-> env.max_hops,
        author |-> env.author_key,
        anon |-> IF announced = {} THEN 0 ELSE Number(CHOOSE a \in announced : TRUE)]

\* The status of a receipt; an accepted one is left out on the wire.
ACCEPTED == 0
DUPLICATE == 1
REJECTED == 2

NodeReceipt(ref, status, depth) ==
    encode("NodeReceiptData",
           [ref_envelope_id |-> ref, status |-> status, queue_depth |-> depth])

Bug_DepthBeforehand(octets, ref, status) ==
    receipt' = <<[octets |-> NodeReceipt(ref, status, Cardinality(queue)),
                  whole |-> octets = datagram]>>

Answers(octets, ref, status) ==
    receipt' = <<[octets |-> NodeReceipt(ref, status, Cardinality(queue')),
                  whole |-> octets = datagram]>>

Octets(number) == [k \in 1..ANON8_BYTES |-> (number \div BYTE^(ANON8_BYTES - k)) % BYTE]

\* _translate: the compact payloads of an envelope's typed one.
Translations(env, now) ==
    LET Typed(type) == decode(type, env.payload[1])
    IN CASE KindOf(env.event_type) = "presence" ->
              {presence_from_typed(p) : p \in Typed("PresenceData")}
         [] KindOf(env.event_type) = "checkpoint" ->
              {checkpoint_from_typed(c, node_num) : c \in Typed("CheckpointData")}
         [] KindOf(env.event_type) = "sos" ->
              {sos_from_typed(s, Octets(anon_by_author[env.author_key]), now) :
                 s \in Typed("StatusUpdateData")}

Ingests(octets, env, now) ==
    LET id == Number(env.envelope_id) IN
    \/ /\ Node!IngestAccepted(now, Seen(env))
       /\ \E compact \in Translations(env, now) :
             payloads' = Put(payloads, id, [octets |-> compact, at |-> now])
       /\ Answers(octets, env.envelope_id, ACCEPTED)
    \/ /\ Node!IngestRefused(now, Seen(env)) /\ UNCHANGED payloads
       /\ Answers(octets, env.envelope_id,
               IF FaultOf(env) = "none" /\ env.expires_at_hlc[1].ms >= now /\ id \in seen_ble
               THEN DUPLICATE ELSE REJECTED)

\* An exception other than ProtoDecodeError leaves the call with no receipt.
BleIngest(now) ==
    /\ datagram # <<>> /\ receipt = <<>> /\ now >= clock /\ clock' = now
    /\ \E octets \in Arrivals(datagram) :
          LET readings == decode_envelope(octets)
              raising == {env \in readings : FaultOf(env) = "raises"}
          IN \/ /\ readings = {} /\ UNCHANGED <<nodeVars, payloads>>
                /\ Answers(octets, <<>>, REJECTED)
             \/ raising # {} /\ UNCHANGED <<nodeVars, payloads, receipt>>
             \/ \E env \in readings \ raising : Ingests(octets, env, now)
    /\ UNCHANGED <<phoneVars, datagram>>

NodeReboots ==
    /\ \E preserve_seen \in BOOLEAN : Node!Reboot(preserve_seen)
    /\ receipt = <<>>
    /\ UNCHANGED <<payloads, phoneVars, clock, datagram, receipt>>

-----------------------------------------------------------------------------
(* The assumptions *)

\* What the phone may report, in fields that hold it.
Coordinates == -(U32 \div 2)..(U32 \div 2) - 1
Reports ==
    [kind : DOMAIN EventTypes, source : 0..BYTE - 1, lat_e7 : Coordinates,
     lng_e7 : Coordinates, acc_m : Nat, value : 0..BYTE - 1, expired : BOOLEAN]

ASSUME ScriptsAssumption ==
    /\ \A script \in Scripts :
          script \in Seq(Range(script)) /\ Range(script) \subseteq Reports /\ Len(script) <= GROUP
    /\ \A now \in Clocks : now + VALIDITY_MS < U64

\* Two hashes of different things differ, and a number stands for its octets.
ASSUME HashAssumption ==
    /\ \A kind, other \in DOMAIN EventTypes : \A n, m \in 1..GROUP :
          Number(EnvelopeId(EventTypes[kind], n)) = Number(EnvelopeId(EventTypes[other], m))
              => n = m
    /\ Octets(Number(anon8(anon_user_id))) = anon8(anon_user_id)

IdOctets == [1..ID_BYTES -> 0..BYTE - 1]

\* What is written of the n-th report is read as it was written; an id that is
\* read, of whatever arrives, is octets.
ReadAsWritten(report, now, n) ==
    LET env == Sealed(Unsealed(report, now, n), n)
        octets == encode("EventEnvelopeV2", env)
        typed == TypedPayload(report, now)
    IN /\ decode_envelope(octets) = {env}
       /\ decode(PayloadType[report.kind], encode(PayloadType[report.kind], typed)) = {typed}
       /\ \A arrival \in Arrivals(octets) : \A got \in decode_envelope(arrival) :
             got.envelope_id \in IdOctets

\* The fields have their defaults; reports and receipts are read as written.
ASSUME CodecContract ==
    /\ SignedFields \cup {"signature", "field_mac", "last_relay_id"}
          \subseteq DOMAIN blank("EventEnvelopeV2")
    /\ blank("EventEnvelopeV2").max_hops = 0 /\ blank("EventEnvelopeV2").last_relay_id = <<>>
    /\ {"source", "lat_e7", "lng_e7", "accuracy_m", "observed_at"}
          \subseteq DOMAIN blank("LocationEvidence")
    /\ \A script \in Scripts : \A n \in DOMAIN script : \A now \in Clocks :
          ReadAsWritten(script[n], now, n)
    /\ \A ref \in {<<>>} \cup IdOctets, status \in {ACCEPTED, DUPLICATE, REJECTED},
          depth \in 0..max_queue_size :
          decode("NodeReceiptData", NodeReceipt(ref, status, depth)) =
              {[ref_envelope_id |-> ref, status |-> status, queue_depth |-> depth]}

-----------------------------------------------------------------------------
Next ==
    \/ \E now \in Clocks : Builds(now) \/ BleIngest(now)
    \/ PhoneReads
    \/ NodeReboots

Spec == Init /\ [][Next]_vars

-----------------------------------------------------------------------------
(* Whatever the link does to the octets, and whatever a relay appends to    *)
(* them, every event the node queues is one the phone built, with the       *)
(* priority, the times and the hops the phone gave it.                      *)
OnlyWhatWasSigned ==
    \A e \in queue :
        /\ e.id \in DOMAIN reported
        /\ e = Node!QueuedAs(Seen(reported[e.id].envelope), e.anon)

(* What the phone reads in a receipt is so: an event said to be accepted is *)
(* queued and one said to be a duplicate is known, under the id the phone   *)
(* gave it; the depth is the queue's; and an envelope that came through     *)
(* whole is turned away, by its name, only if it expired or the queue is    *)
(* full.                                                                    *)
ReceiptIsTrue ==
    receipt # <<>> =>
        \E r \in decode("NodeReceiptData", receipt[1].octets) :
            LET id == Number(r.ref_envelope_id) IN
            /\ r.queue_depth = Cardinality(queue)
            /\ r.status = ACCEPTED => id \in Node!IdsOf(queue)
            /\ r.status = DUPLICATE => id \in seen_ble \cap DOMAIN reported
            /\ receipt[1].whole /\ r.status = REJECTED =>
                  /\ id \in DOMAIN reported
                  /\ \/ reported[id].envelope.expires_at_hlc[1].ms < clock
                     \/ Cardinality(queue) = max_queue_size

\* The most that two octets hold stands for what is more.
Fitting(v) == IF v > U16_MAX THEN U16_MAX ELSE v

\* What a reader of the compact payload of an event learns is what the phone
\* reported under its id.
ReadsAsReported(id) ==
    LET report == reported[id].report
        payload == payloads[id]
        own == anon8(anon_user_id)
        made_ms == reported[id].envelope.created_at_hlc[1].ms
    IN CASE report.kind = "presence" ->
              decode_presence(payload.octets) =
                {[anon8 |-> own, battery |-> report.value, evid_src |-> report.source]}
         [] report.kind = "checkpoint" ->
              decode_checkpoint(payload.octets) =
                {[anon8 |-> own, checkpoint_node |-> node_num]}
         [] report.kind = "sos" ->
              \E anon \in {own, Octets(0)} :
                decode_sos(payload.octets) =
                  {[anon8 |-> anon, safety |-> report.value,
                    loc |-> [src |-> report.source, lat_e7 |-> report.lat_e7,
                             lng_e7 |-> report.lng_e7, acc_m |-> Fitting(report.acc_m),
                             age_s |-> Fitting((payload.at - made_ms) \div SECOND_MS)]]}

(* What a reader of the compact payload of a queued event learns is what    *)
(* the phone reported: the source, the coordinates with their signs, the    *)
(* accuracy and the age the field can hold, the node that translated a      *)
(* checkpoint; and an SOS bears the phone's own anonymous id or none.       *)
ReadingIsFaithful == \A e \in queue : ReadsAsReported(e.id)
=============================================================================
