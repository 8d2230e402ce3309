-------------------------- MODULE PhoneToNodeProofs ---------------------------
(***************************************************************************)
(* The first hop, proved for every codec that keeps the contract of        *)
(* PhoneToNode, every script, clock, size and damage: what a node queues is*)
(* what the phone signed, what a receipt says is so, and what a reader of  *)
(* a queued event learns is what the phone reported.                       *)
(***************************************************************************)
EXTENDS PhoneToNode, FiniteSetTheorems, TLAPS

-----------------------------------------------------------------------------
(* What the phone builds *)

\* The n-th report of a script, made at an instant of the clock.
Occasion(report, at, n) ==
    at \in Clocks /\ \E script \in Scripts : n \in DOMAIN script /\ report = script[n]

\* A report is one of the kinds, in fields that hold it, and there is a seal for
\* it.
LEMMA OccasionTypes ==
    ASSUME NEW report, NEW at, NEW n, Occasion(report, at, n)
    PROVE  report \in Reports /\ at \in Nat \ {0} /\ n \in 1..GROUP
<1>1. PICK script \in Scripts : n \in DOMAIN script /\ report = script[n]
    BY DEF Occasion
<1>2. /\ script \in Seq(Range(script)) /\ Range(script) \subseteq Reports
      /\ Len(script) <= GROUP
    BY ScriptsAssumption
<1>3. report \in Range(script)
    BY <1>1 DEF Range
<1>4. n \in 1..Len(script) /\ Len(script) \in Nat
    BY <1>1, <1>2
<1>5. n \in 1..GROUP
    BY <1>2, <1>4, CodecAssumption
<1>. QED
    BY <1>2, <1>3, <1>5, FirstHopAssumption DEF Occasion

LEMMA Kinds == DOMAIN EventTypes = {"sos", "presence", "checkpoint"}
BY DEF EventTypes

\* The fields of an envelope, before its seals and after.
LEMMA EnvelopeFields ==
    ASSUME NEW report, NEW at, NEW n
    PROVE  LET env == Unsealed(report, at, n)
               made_ms == IF report.expired THEN at - 1 ELSE at
           IN /\ env.protocol_version = 3
              /\ env.envelope_id = EnvelopeId(EventTypes[report.kind], n)
              /\ env.event_type = EventTypes[report.kind]
              /\ env.priority = PriorityOf[report.kind]
              /\ env.created_at_hlc = <<Hlc(made_ms, n)>>
              /\ env.expires_at_hlc =
                    <<Hlc(IF report.expired THEN made_ms ELSE made_ms + VALIDITY_MS, 0)>>
              /\ env.author_key = author_key
              /\ env.sig_algo = <<1>>
              /\ env.payload =
                    <<encode(PayloadType[report.kind], TypedPayload(report, at))>>
              /\ env.max_hops = 0
              /\ env.last_relay_id = <<>>
<1>1. SignedFields \cup {"signature", "field_mac", "last_relay_id"}
         \subseteq DOMAIN blank("EventEnvelopeV2")
    BY CodecContract
<1>2. {"protocol_version", "envelope_id", "event_type", "priority", "created_at_hlc",
       "expires_at_hlc", "author_key", "sig_algo", "payload", "max_hops",
       "last_relay_id", "field_id"} \subseteq DOMAIN blank("EventEnvelopeV2")
    BY <1>1 DEF SignedFields
<1>3. blank("EventEnvelopeV2").max_hops = 0 /\ blank("EventEnvelopeV2").last_relay_id = <<>>
    BY CodecContract
<1>. QED
    BY <1>2, <1>3 DEF Unsealed

LEMMA SealsAreApart ==
    ASSUME NEW report, NEW at, NEW n
    PROVE  LET env == Unsealed(report, at, n)
               sealed == Sealed(env, n)
           IN /\ Canonical(sealed) = Canonical(env)
              /\ sealed.signature = Seal(n, SIGNATURE_BYTES)
              /\ sealed.field_mac = Seal(n, MAC_BYTES)
              /\ \A f \in SignedFields : sealed[f] = env[f]
              /\ sealed.last_relay_id = env.last_relay_id
<1>1. SignedFields \cup {"signature", "field_mac", "last_relay_id"}
         \subseteq DOMAIN blank("EventEnvelopeV2")
    BY CodecContract
<1>2. DOMAIN Unsealed(report, at, n) = DOMAIN blank("EventEnvelopeV2")
    BY DEF Unsealed
<1>. DEFINE env == Unsealed(report, at, n)
            sealed == Sealed(env, n)
<1>3. sealed.signature = Seal(n, SIGNATURE_BYTES) /\ sealed.field_mac = Seal(n, MAC_BYTES)
    BY <1>1, <1>2 DEF Sealed
<1>4. \A f \in DOMAIN env \ {"signature", "field_mac"} : sealed[f] = env[f]
    BY DEF Sealed
<1>5. \A f \in SignedFields \cup {"last_relay_id"} :
         f \in DOMAIN env \ {"signature", "field_mac"}
    BY <1>1, <1>2 DEF SignedFields
<1>6. \A f \in SignedFields : sealed[f] = env[f]
    BY <1>4, <1>5
<1>7. Canonical(sealed) = Canonical(env)
    BY <1>6 DEF Canonical
<1>8. sealed.last_relay_id = env.last_relay_id
    BY <1>4, <1>5
<1>. QED
    BY <1>3, <1>6, <1>7, <1>8

\* What is signed of an envelope says all of it that the node looks at.
LEMMA SignedSaysAll ==
    ASSUME NEW env, NEW other, Canonical(env) = Canonical(other)
    PROVE  /\ env.envelope_id = other.envelope_id /\ env.event_type = other.event_type
           /\ env.priority = other.priority /\ env.created_at_hlc = other.created_at_hlc
           /\ env.expires_at_hlc = other.expires_at_hlc /\ env.max_hops = other.max_hops
           /\ env.author_key = other.author_key /\ env.payload = other.payload
           /\ Seen(env).anon = Seen(other).anon
           /\ \A anon : Node!QueuedAs(Seen(env), anon) = Node!QueuedAs(Seen(other), anon)
<1>1. \A f \in SignedFields : env[f] = other[f]
    BY DEF Canonical
<1>2. /\ env.envelope_id = other.envelope_id /\ env.event_type = other.event_type
      /\ env.priority = other.priority /\ env.created_at_hlc = other.created_at_hlc
      /\ env.expires_at_hlc = other.expires_at_hlc /\ env.max_hops = other.max_hops
      /\ env.author_key = other.author_key /\ env.payload = other.payload
    BY <1>1 DEF SignedFields
<1>3. Seen(env).anon = Seen(other).anon
    BY <1>2 DEF Seen
<1>. QED
    BY <1>2, <1>3 DEF Node!QueuedAs, Seen

-----------------------------------------------------------------------------
(* What the phone has done *)

\* The phone has the rest of a script before it, and a signing for what is behind.
PhoneHolds ==
    /\ counter \in Nat /\ clock \in Nat
    /\ signed \in Seq(Range(signed)) /\ Len(signed) = counter
    /\ todo \in Seq(Range(todo))
    /\ \E script \in Scripts :
          /\ counter + Len(todo) = Len(script)
          /\ \A k \in DOMAIN todo : todo[k] = script[counter + k]

\* What is reported under an id is what was signed in the n-th signing.
IsSigning(id, n) ==
    /\ n \in DOMAIN signed
    /\ Occasion(reported[id].report, reported[id].at, n)
    /\ reported[id].at <= clock
    /\ reported[id].envelope = Unsealed(reported[id].report, reported[id].at, n)
    /\ id = Number(reported[id].envelope.envelope_id)
    /\ signed[n] = Canonical(reported[id].envelope)

\* Reports and signings are of each other.
ReportsAreSigned ==
    /\ \A id \in DOMAIN reported : \E n \in DOMAIN signed : IsSigning(id, n)
    /\ \A n \in DOMAIN signed : \E id \in DOMAIN reported : IsSigning(id, n)

\* What goes on the link is the last envelope, sealed.
DatagramIsSealed ==
    datagram # <<>> =>
        \E id \in DOMAIN reported : \E n \in DOMAIN signed :
            /\ IsSigning(id, n)
            /\ datagram = encode("EventEnvelopeV2", Sealed(reported[id].envelope, n))

PhoneInv == PhoneHolds /\ ReportsAreSigned /\ DatagramIsSealed

LEMMA PhoneStarts == Init => PhoneInv
<1>. SUFFICES ASSUME Init PROVE PhoneInv
    OBVIOUS
<1>1. PICK script \in Scripts : todo = script
    BY DEF Init
<1>2. script \in Seq(Range(script))
    BY ScriptsAssumption
<1>3. signed = <<>> /\ counter = 0 /\ clock = 0 /\ reported = <<>> /\ datagram = <<>>
    BY DEF Init
<1>4. signed \in Seq(Range(signed)) /\ Len(signed) = counter
    BY <1>3
<1>5. PhoneHolds
  <2>1. \A k \in DOMAIN todo : todo[k] = script[counter + k]
    BY <1>1, <1>2, <1>3
  <2>2. counter + Len(todo) = Len(script)
    BY <1>1, <1>2, <1>3
  <2>. QED
    BY <2>1, <2>2, <1>1, <1>2, <1>3, <1>4 DEF PhoneHolds
<1>6. DOMAIN reported = {} /\ DOMAIN signed = {}
    BY <1>3
<1>. QED
    BY <1>3, <1>5, <1>6 DEF PhoneInv, ReportsAreSigned, DatagramIsSealed

\* No two reports have one id.
LEMMA IdsAreApart ==
    ASSUME NEW report, NEW at, NEW n, Occasion(report, at, n),
           NEW other, NEW then, NEW m, Occasion(other, then, m), n # m
    PROVE  Number(Unsealed(report, at, n).envelope_id)
             # Number(Unsealed(other, then, m).envelope_id)
<1>1. report \in Reports /\ other \in Reports /\ n \in 1..GROUP /\ m \in 1..GROUP
    BY OccasionTypes
<1>2. report.kind \in DOMAIN EventTypes /\ other.kind \in DOMAIN EventTypes
    BY <1>1 DEF Reports
<1>3. /\ Unsealed(report, at, n).envelope_id = EnvelopeId(EventTypes[report.kind], n)
      /\ Unsealed(other, then, m).envelope_id = EnvelopeId(EventTypes[other.kind], m)
    BY EnvelopeFields
<1>. QED
    BY <1>1, <1>2, <1>3, HashAssumption

\* The next report is on an occasion of its own.
LEMMA BuildIsAnOccasion ==
    ASSUME PhoneHolds, NEW now \in Clocks, todo # <<>>
    PROVE  /\ Occasion(Head(todo), now, counter + 1)
           /\ counter + 1 = Len(signed) + 1
           /\ counter + 1 \notin DOMAIN signed
<1>1. /\ counter \in Nat /\ signed \in Seq(Range(signed)) /\ Len(signed) = counter
      /\ todo \in Seq(Range(todo))
    BY DEF PhoneHolds
<1>2. PICK script \in Scripts :
         /\ counter + Len(todo) = Len(script)
         /\ \A k \in DOMAIN todo : todo[k] = script[counter + k]
    BY DEF PhoneHolds
<1>3. script \in Seq(Range(script))
    BY ScriptsAssumption
<1>4. Len(todo) >= 1 /\ 1 \in DOMAIN todo /\ Head(todo) = todo[1] /\ Len(todo) \in Nat
    BY <1>1
<1>5. Head(todo) = script[counter + 1]
    BY <1>2, <1>4
<1>6. counter + 1 \in 1..Len(script)
    BY <1>1, <1>2, <1>4
<1>7. counter + 1 \in DOMAIN script
    BY <1>3, <1>6
<1>8. counter + 1 \notin DOMAIN signed
    BY <1>1
<1>. QED
    BY <1>1, <1>5, <1>7, <1>8 DEF Occasion

LEMMA BuildKeepsPhone ==
    ASSUME PhoneInv, NEW now \in Clocks, Builds(now)
    PROVE  PhoneInv'
<1>a. PICK report, n : report = Head(todo) /\ n = counter + 1
    OBVIOUS
<1>b. PICK env : env = Unsealed(report, now, n)
    OBVIOUS
<1>c. PICK id, entry :
         /\ id = Number(env.envelope_id)
         /\ entry = [report |-> report, at |-> now, envelope |-> env]
    OBVIOUS
<1>1. /\ todo # <<>> /\ now >= clock /\ clock' = now /\ counter' = n
      /\ signed' = Append(signed, Canonical(env))
      /\ datagram' = encode("EventEnvelopeV2", Sealed(env, n))
      /\ reported' = Put(reported, id, entry)
      /\ todo' = Tail(todo)
    BY <1>a, <1>b, <1>c DEF Builds
<1>2. PhoneHolds /\ ReportsAreSigned
    BY DEF PhoneInv
<1>3. Occasion(report, now, n) /\ n = Len(signed) + 1 /\ n \notin DOMAIN signed
    BY <1>1, <1>2, <1>a, BuildIsAnOccasion
<1>4. now \in Nat /\ clock \in Nat /\ counter \in Nat
    BY <1>2, FirstHopAssumption DEF PhoneHolds
<1>5. signed \in Seq(Range(signed)) /\ Len(signed) = counter /\ todo \in Seq(Range(todo))
    BY <1>2 DEF PhoneHolds
<1>6. /\ signed' \in Seq(Range(signed')) /\ Len(signed') = n
      /\ DOMAIN signed' = DOMAIN signed \cup {n} /\ signed'[n] = Canonical(env)
      /\ \A m \in DOMAIN signed : signed'[m] = signed[m]
  <2>. DEFINE c == Canonical(env)
  <2>. HIDE DEF c
  <2>1. signed' = Append(signed, c)
    BY <1>1 DEF c
  <2>2. /\ Len(signed') = Len(signed) + 1
        /\ \A k \in 1..Len(signed) + 1 :
              signed'[k] = IF k <= Len(signed) THEN signed[k] ELSE c
        /\ DOMAIN signed' = 1..Len(signed) + 1
    BY <1>5, <2>1
  <2>3. DOMAIN signed = 1..Len(signed) /\ Len(signed) \in Nat
    BY <1>5
  <2>4. \A k \in 1..Len(signed) + 1 : signed'[k] \in Range(signed')
    BY <2>2 DEF Range
  <2>5. signed' \in Seq(Range(signed) \cup {c})
    BY <1>5, <2>1
  <2>6. signed' \in Seq(Range(signed'))
    BY <2>2, <2>4, <2>5
  <2>. QED
    BY <2>2, <2>3, <2>6, <1>3 DEF c
<1>7. PhoneHolds'
  <2>1. PICK script \in Scripts :
           /\ counter + Len(todo) = Len(script)
           /\ \A k \in DOMAIN todo : todo[k] = script[counter + k]
    BY <1>2 DEF PhoneHolds
  <2>2. /\ Len(todo) \in Nat \ {0} /\ Len(todo') = Len(todo) - 1
        /\ DOMAIN todo' = 1..Len(todo) - 1 /\ DOMAIN todo = 1..Len(todo)
        /\ \A k \in 1..Len(todo) - 1 : todo'[k] = todo[k + 1]
    BY <1>1, <1>5
  <2>3. todo' \in Seq(Range(todo))
    BY <1>1, <1>5
  <2>4. \A k \in 1..Len(todo) - 1 : todo'[k] \in Range(todo')
    BY <2>2 DEF Range
  <2>5. todo' \in Seq(Range(todo'))
    BY <2>2, <2>3, <2>4
  <2>6. \A k \in DOMAIN todo' : todo'[k] = script[counter' + k]
    <3>1. TAKE k \in DOMAIN todo'
    <3>2. k \in Nat /\ k + 1 \in DOMAIN todo /\ todo'[k] = todo[k + 1]
        BY <2>2
    <3>3. todo[k + 1] = script[counter + (k + 1)]
        BY <2>1, <3>2
    <3>4. counter + (k + 1) = counter' + k
        BY <1>1, <1>a, <1>4, <3>2
    <3>. QED
        BY <3>2, <3>3, <3>4
  <2>7. counter' + Len(todo') = Len(script)
    BY <1>1, <1>a, <1>4, <2>1, <2>2
  <2>8. counter' \in Nat /\ clock' \in Nat /\ Len(signed') = counter'
    BY <1>1, <1>a, <1>4, <1>6
  <2>9. \E other \in Scripts :
           /\ counter' + Len(todo') = Len(other)
           /\ \A k \in DOMAIN todo' : todo'[k] = other[counter' + k]
    BY <2>6, <2>7
  <2>. QED
    BY <1>6, <2>5, <2>8, <2>9 DEF PhoneHolds
<1>8. DOMAIN reported' = DOMAIN reported \cup {id} /\ reported'[id] = entry
    BY <1>1 DEF Put
<1>9. \A other \in DOMAIN reported : other # id /\ reported'[other] = reported[other]
  <2>1. TAKE other \in DOMAIN reported
  <2>2. PICK m \in DOMAIN signed : IsSigning(other, m)
    BY <1>2 DEF ReportsAreSigned
  <2>3. m # n
    BY <1>3
  <2>4. other # id
    BY <1>3, <1>b, <1>c, <2>2, <2>3, IdsAreApart DEF IsSigning
  <2>. QED
    BY <2>4, <1>1 DEF Put
<1>10. IsSigning(id, n)'
  <2>1. reported'[id].report = report /\ reported'[id].at = now /\ reported'[id].envelope = env
    BY <1>8, <1>c
  <2>2. n \in DOMAIN signed' /\ signed'[n] = Canonical(env) /\ now <= clock'
    BY <1>1, <1>4, <1>6
  <2>. QED
    BY <2>1, <2>2, <1>3, <1>b, <1>c DEF IsSigning
<1>11. \A other \in DOMAIN reported : \A m \in DOMAIN signed :
          IsSigning(other, m) => IsSigning(other, m)'
  <2>1. TAKE other \in DOMAIN reported
  <2>2. TAKE m \in DOMAIN signed
  <2>3. HAVE IsSigning(other, m)
  <2>4. reported'[other] = reported[other] /\ signed'[m] = signed[m] /\ m \in DOMAIN signed'
    BY <1>6, <1>9
  <2>5. reported[other].at \in Nat
    BY <2>3, OccasionTypes DEF IsSigning
  <2>6. reported'[other].at <= clock'
    BY <2>3, <2>4, <2>5, <1>1, <1>4 DEF IsSigning
  <2>. QED
    BY <2>3, <2>4, <2>6 DEF IsSigning
<1>12. ReportsAreSigned'
    BY <1>2, <1>6, <1>8, <1>10, <1>11 DEF ReportsAreSigned
<1>13. DatagramIsSealed'
  <2>1. datagram' = encode("EventEnvelopeV2", Sealed(reported'[id].envelope, n))
    BY <1>1, <1>8, <1>c
  <2>. QED
    BY <2>1, <1>6, <1>8, <1>10 DEF DatagramIsSealed
<1>. QED
    BY <1>7, <1>12, <1>13 DEF PhoneInv

\* A call of the node may move the clock, and nothing else of it.
LEMMA ClockKeepsPhone ==
    ASSUME PhoneInv, UNCHANGED <<todo, counter, signed, reported, datagram>>,
           clock' \in Nat, clock' >= clock
    PROVE  PhoneInv'
<1>1. PhoneHolds'
    BY DEF PhoneInv, PhoneHolds
<1>2. \A id \in DOMAIN reported : \A n : IsSigning(id, n) => IsSigning(id, n)'
  <2>1. TAKE id \in DOMAIN reported
  <2>2. SUFFICES ASSUME NEW n, IsSigning(id, n) PROVE IsSigning(id, n)'
    OBVIOUS
  <2>3. reported[id].at \in Nat /\ clock \in Nat
    BY <2>2, OccasionTypes DEF IsSigning, PhoneInv, PhoneHolds
  <2>4. reported[id].at <= clock'
    BY <2>2, <2>3 DEF IsSigning
  <2>. QED
    BY <2>2, <2>4 DEF IsSigning
<1>. QED
    BY <1>1, <1>2 DEF PhoneInv, ReportsAreSigned, DatagramIsSealed

-----------------------------------------------------------------------------
(* What the node makes of it *)

OwnAnon == Number(anon8(anon_user_id))

\* SimNode's count is the library's.
LEMMA NodeCounts == \A S : Node!Cardinality(S) = Cardinality(S)
BY DEF Node!Cardinality, Cardinality

\* The payload of an event says what the phone reported under its id.
IsPayload(id) ==
    LET report == reported[id].report
        typed == TypedPayload(report, reported[id].at)
        payload == payloads[id]
    IN /\ id \in DOMAIN payloads /\ id \in DOMAIN reported
       /\ ~report.expired
       /\ payload.at \in Nat /\ payload.at >= reported[id].at
       /\ \/ report.kind = "presence" /\ payload.octets = presence_from_typed(typed)
          \/ report.kind = "checkpoint"
                /\ payload.octets = checkpoint_from_typed(typed, node_num)
          \/ report.kind = "sos" /\ \E anon \in {0, OwnAnon} :
                payload.octets = sos_from_typed(typed, Octets(anon), payload.at)

\* The node holds no more than it may, and knows the phone's anonymous id or none.
NodeHolds ==
    /\ IsFiniteSet(queue) /\ Cardinality(queue) \in 0..max_queue_size
    /\ DOMAIN anon_by_author = {author_key}
    /\ anon_by_author[author_key] \in {0, OwnAnon}
    /\ \A e \in queue : IsPayload(e.id)

\* What is queued of an envelope, whatever its checks say.
QueuedFrom(env, anon) ==
    [id |-> Number(env.envelope_id), event_type |-> KindOf(env.event_type),
     priority |-> env.priority, created_ms |-> env.created_at_hlc[1].ms,
     created_counter |-> env.created_at_hlc[1].counter,
     ttl |-> IF env.max_hops > 0 THEN env.max_hops ELSE 6,
     author |-> env.author_key, anon |-> anon]

QueueIsReported ==
    \A e \in queue : /\ e.id \in DOMAIN reported
                      /\ e = QueuedFrom(reported[e.id].envelope, e.anon)

LEMMA QueuedAsSeen ==
    \A env, anon : Node!QueuedAs(Seen(env), anon) = QueuedFrom(env, anon)
BY DEF Node!QueuedAs, Seen, QueuedFrom

Inv == PhoneInv /\ NodeHolds /\ QueueIsReported /\ ReceiptIsTrue

\* An envelope that passes every check is one that the phone signed.
LEMMA GenuineIsSigned ==
    ASSUME PhoneInv, NEW env, FaultOf(env) = "none"
    PROVE  \E id \in DOMAIN reported : \E n \in DOMAIN signed :
              /\ IsSigning(id, n)
              /\ id = Number(env.envelope_id)
              /\ Canonical(env) = Canonical(reported[id].envelope)
<1>1. SealHolds(env.signature, SIGNATURE_BYTES, env)
    BY DEF FaultOf
<1>2. PICK n \in DOMAIN signed : signed[n] = Canonical(env)
    BY <1>1 DEF SealHolds
<1>3. PICK id \in DOMAIN reported : IsSigning(id, n)
    BY <1>2 DEF PhoneInv, ReportsAreSigned
<1>4. Canonical(env) = Canonical(reported[id].envelope)
    BY <1>2, <1>3 DEF IsSigning
<1>5. env.envelope_id = reported[id].envelope.envelope_id
    BY <1>4, SignedSaysAll
<1>. QED
    BY <1>2, <1>3, <1>4, <1>5 DEF IsSigning

LEMMA KindOfItsNumber ==
    \A kind \in DOMAIN EventTypes : KindOf(EventTypes[kind]) = kind
<1>1. \A kind, other \in DOMAIN EventTypes : EventTypes[kind] = EventTypes[other] => kind = other
    BY DEF EventTypes
<1>. QED
    BY <1>1 DEF KindOf

\* What the fields of a report's envelope are to the node.
LEMMA ReportSeen ==
    ASSUME NEW report, NEW at, NEW n, Occasion(report, at, n)
    PROVE  LET env == Unsealed(report, at, n)
           IN /\ KindOf(env.event_type) = report.kind
              /\ report.kind \in {"sos", "presence", "checkpoint"}
              /\ env.author_key = author_key
              /\ env.priority \in Node!WirePriority
              /\ env.expires_at_hlc[1].ms \in Nat
              /\ env.created_at_hlc[1].ms \in Nat
              /\ report.expired => env.expires_at_hlc[1].ms < at
              /\ ~report.expired => env.created_at_hlc[1].ms = at
              /\ decode(PayloadType[report.kind], env.payload[1])
                    = {TypedPayload(report, at)}
<1>. DEFINE env == Unsealed(report, at, n)
<1>1. report \in Reports /\ at \in Nat \ {0} /\ n \in 1..GROUP
    BY OccasionTypes
<1>2. report.kind \in DOMAIN EventTypes /\ report.kind \in {"sos", "presence", "checkpoint"}
    BY <1>1, Kinds DEF Reports
<1>3. KindOf(env.event_type) = report.kind
    BY <1>2, EnvelopeFields, KindOfItsNumber
<1>4. env.priority \in Node!WirePriority
  <2>1. env.priority = PriorityOf[report.kind]
    BY EnvelopeFields
  <2>2. PriorityOf[report.kind] \in {1, 3, 4}
    BY <1>2 DEF PriorityOf, Node!SOS_RED, Node!ALERT, Node!STATUS
  <2>. QED
    BY <2>1, <2>2 DEF Node!WirePriority, Node!SOS_RED, Node!NORMAL
<1>5. /\ env.expires_at_hlc[1].ms = IF report.expired THEN at - 1 ELSE at + VALIDITY_MS
      /\ env.created_at_hlc[1].ms = IF report.expired THEN at - 1 ELSE at
  <2>1. PICK made_ms : made_ms = IF report.expired THEN at - 1 ELSE at
    OBVIOUS
  <2>2. /\ env.created_at_hlc = <<Hlc(made_ms, n)>>
        /\ env.expires_at_hlc =
              <<Hlc(IF report.expired THEN made_ms ELSE made_ms + VALIDITY_MS, 0)>>
    BY <2>1, EnvelopeFields
  <2>3. \A ms, k : <<Hlc(ms, k)>>[1].ms = ms
    BY DEF Hlc
  <2>4. /\ env.created_at_hlc[1].ms = made_ms
        /\ env.expires_at_hlc[1].ms =
              IF report.expired THEN made_ms ELSE made_ms + VALIDITY_MS
    BY <2>2, <2>3
  <2>. QED
    BY <2>1, <2>4
<1>6. VALIDITY_MS \in Nat
    BY FirstHopAssumption
<1>7. decode(PayloadType[report.kind], env.payload[1]) = {TypedPayload(report, at)}
  <2>1. PICK script \in Scripts : n \in DOMAIN script /\ report = script[n]
    BY DEF Occasion
  <2>2. at \in Clocks
    BY DEF Occasion
  <2>3. ReadAsWritten(report, at, n)
    BY <2>1, <2>2, CodecContract
  <2>4. env.payload[1] = encode(PayloadType[report.kind], TypedPayload(report, at))
    BY EnvelopeFields
  <2>. QED
    BY <2>3, <2>4 DEF ReadAsWritten
<1>8. env.author_key = author_key
    BY EnvelopeFields
<1>9. report.expired \in BOOLEAN
    BY <1>1 DEF Reports
<1>. HIDE DEF env
<1>10. /\ env.expires_at_hlc[1].ms \in Nat
       /\ env.created_at_hlc[1].ms \in Nat
       /\ report.expired => env.expires_at_hlc[1].ms < at
       /\ ~report.expired => env.created_at_hlc[1].ms = at
    BY <1>1, <1>5, <1>6, <1>9
<1>. QED
    BY <1>2, <1>3, <1>4, <1>7, <1>8, <1>10 DEF env

\* An event that is queued is the report of its id, and its payload is too.
LEMMA AcceptedIsReported ==
    ASSUME Inv, NEW now \in Clocks, now >= clock, NEW env,
           Node!IngestAccepted(now, Seen(env)),
           NEW compact \in Translations(env, now),
           payloads' = Put(payloads, Number(env.envelope_id), [octets |-> compact, at |-> now]),
           UNCHANGED <<todo, counter, signed, reported, datagram>>
    PROVE  NodeHolds' /\ QueueIsReported'
<1>1. PhoneInv /\ NodeHolds /\ QueueIsReported
    BY DEF Inv
<1>2. now \in Nat \ {0} /\ clock \in Nat /\ max_queue_size \in Nat \ {0}
    BY <1>1, FirstHopAssumption DEF PhoneInv, PhoneHolds
<1>3. FaultOf(env) = "none" /\ env.expires_at_hlc[1].ms >= now
    BY DEF Node!IngestAccepted, Node!Admissible, Seen
<1>4. PICK id \in DOMAIN reported, n \in DOMAIN signed :
         /\ IsSigning(id, n)
         /\ id = Number(env.envelope_id)
         /\ Canonical(env) = Canonical(reported[id].envelope)
    BY <1>1, <1>3, GenuineIsSigned
<1>5. PICK report, at, made :
         /\ report = reported[id].report /\ at = reported[id].at
         /\ made = reported[id].envelope
    OBVIOUS
<1>6. /\ Occasion(report, at, n) /\ made = Unsealed(report, at, n) /\ at <= clock
      /\ at \in Nat
    BY <1>4, <1>5, OccasionTypes DEF IsSigning
<1>7. /\ KindOf(made.event_type) = report.kind
      /\ report.kind \in {"sos", "presence", "checkpoint"}
      /\ made.author_key = author_key
      /\ made.expires_at_hlc[1].ms \in Nat
      /\ report.expired => made.expires_at_hlc[1].ms < at
      /\ decode(PayloadType[report.kind], made.payload[1]) = {TypedPayload(report, at)}
    BY <1>6, ReportSeen
<1>8. /\ env.event_type = made.event_type /\ env.payload = made.payload
      /\ env.author_key = made.author_key /\ env.expires_at_hlc = made.expires_at_hlc
      /\ \A anon : QueuedFrom(env, anon) = QueuedFrom(made, anon)
    BY <1>4, <1>5, SignedSaysAll, QueuedAsSeen
<1>9. ~report.expired
    BY <1>2, <1>3, <1>6, <1>7, <1>8
<1>10. PICK kept \in Node!RoomFor(Seen(env)) :
          queue' = kept \cup {Node!Queued(Seen(env))}
    BY DEF Node!IngestAccepted
<1>11. PICK anon : Node!Queued(Seen(env)) = QueuedFrom(env, anon)
    BY QueuedAsSeen DEF Node!Queued
<1>12. kept \subseteq queue /\ IsFiniteSet(kept) /\ Cardinality(kept) \in 0..max_queue_size - 1
  <2>1. IsFiniteSet(queue) /\ Cardinality(queue) \in 0..max_queue_size
    BY <1>1 DEF NodeHolds
  <2>2. CASE Cardinality(queue) >= max_queue_size
    <3>1. PICK w \in queue : kept = queue \ {w}
        BY <2>2, NodeCounts DEF Node!RoomFor, Node!LeastSevere
    <3>2. IsFiniteSet(kept) /\ Cardinality(kept) = Cardinality(queue) - 1
        BY <2>1, <3>1, FS_RemoveElement
    <3>. QED
        BY <1>2, <2>1, <2>2, <3>1, <3>2
  <2>3. CASE ~(Cardinality(queue) >= max_queue_size)
    <3>1. kept = queue
        BY <2>3, NodeCounts DEF Node!RoomFor
    <3>. QED
        BY <1>2, <2>1, <2>3, <3>1
  <2>. QED
    BY <2>2, <2>3
<1>13. IsFiniteSet(queue') /\ Cardinality(queue') \in 0..max_queue_size
  <2>1. /\ IsFiniteSet(queue')
        /\ Cardinality(queue') \in {Cardinality(kept), Cardinality(kept) + 1}
    BY <1>10, <1>12, FS_AddElement
  <2>. QED
    BY <2>1, <1>2, <1>12
<1>14. QueueIsReported'
  <2>1. PICK new : new = QueuedFrom(env, anon)
    OBVIOUS
  <2>2. new.id = id /\ new.anon = anon /\ new.id \in DOMAIN reported'
    BY <2>1, <1>4 DEF QueuedFrom
  <2>3. new = QueuedFrom(reported'[new.id].envelope, new.anon)
    BY <2>1, <2>2, <1>5, <1>8
  <2>4. \A e \in kept : /\ e.id \in DOMAIN reported'
                        /\ e = QueuedFrom(reported'[e.id].envelope, e.anon)
    BY <1>1, <1>12 DEF QueueIsReported
  <2>5. queue' = kept \cup {new}
    BY <1>10, <1>11, <2>1
  <2>. QED
    BY <2>2, <2>3, <2>4, <2>5 DEF QueueIsReported
<1>15. DOMAIN anon_by_author' = {author_key} /\ anon_by_author'[author_key] \in {0, OwnAnon}
  <2>1. DOMAIN anon_by_author = {author_key} /\ anon_by_author[author_key] \in {0, OwnAnon}
    BY <1>1 DEF NodeHolds
  <2>2. CASE ~Node!Announces(Seen(env))
    BY <2>1, <2>2 DEF Node!IngestAccepted
  <2>3. CASE Node!Announces(Seen(env))
    <3>1. KindOf(env.event_type) \in {"presence", "checkpoint"}
        BY <2>3 DEF Node!Announces, Seen
    <3>2. report.kind \in {"presence", "checkpoint"} /\ KindOf(env.event_type) = report.kind
        BY <3>1, <1>7, <1>8
    <3>3. decode(PayloadType[report.kind], env.payload[1]) = {TypedPayload(report, at)}
        BY <1>7, <1>8
    <3>4. TypedPayload(report, at).anon_user_id = anon_user_id
        BY <3>2 DEF TypedPayload
    <3>5. Seen(env).anon = OwnAnon
      <4>. DEFINE announced ==
              UNION {{anon8(p.anon_user_id) : p \in decode(PayloadType[report.kind], env.payload[1])} :
                         k \in {report.kind} \cap {"presence", "checkpoint"}}
      <4>1. announced = {anon8(anon_user_id)}
        <5>1. {anon8(p.anon_user_id) : p \in decode(PayloadType[report.kind], env.payload[1])}
                 = {anon8(anon_user_id)}
            BY <3>3, <3>4
        <5>2. {report.kind} \cap {"presence", "checkpoint"} = {report.kind}
            BY <3>2
        <5>. QED
            BY <5>1, <5>2
      <4>2. Seen(env).anon =
               IF announced = {} THEN 0 ELSE Number(CHOOSE a \in announced : TRUE)
        BY <3>2 DEF Seen
      <4>. HIDE DEF announced
      <4>3. (CHOOSE a \in announced : TRUE) = anon8(anon_user_id)
        BY <4>1
      <4>. QED
        BY <4>1, <4>2, <4>3 DEF OwnAnon
    <3>6. Seen(env).author = author_key
        BY <1>7, <1>8 DEF Seen
    <3>7. anon_by_author' = [anon_by_author EXCEPT ![author_key] = OwnAnon]
        BY <2>3, <3>5, <3>6 DEF Node!IngestAccepted
    <3>. QED
        BY <2>1, <3>7
  <2>. QED
    BY <2>2, <2>3
<1>16. IsPayload(id)'
  <2>1. payloads'[id] = [octets |-> compact, at |-> now] /\ id \in DOMAIN payloads'
    BY <1>4 DEF Put
  <2>2. reported' = reported
    OBVIOUS
  <2>3. PICK typed : typed = TypedPayload(report, at)
    OBVIOUS
  <2>4. decode(PayloadType[report.kind], env.payload[1]) = {typed}
    BY <1>7, <1>8, <2>3
  <2>5. KindOf(env.event_type) = report.kind /\ env.author_key = author_key
    BY <1>7, <1>8
  <2>6. \/ report.kind = "presence" /\ compact = presence_from_typed(typed)
        \/ report.kind = "checkpoint" /\ compact = checkpoint_from_typed(typed, node_num)
        \/ report.kind = "sos"
              /\ compact = sos_from_typed(typed, Octets(anon_by_author[author_key]), now)
    <3>1. CASE report.kind = "presence"
        BY <3>1, <2>4, <2>5 DEF Translations, PayloadType
    <3>2. CASE report.kind = "checkpoint"
        BY <3>2, <2>4, <2>5 DEF Translations, PayloadType
    <3>3. CASE report.kind = "sos"
        BY <3>3, <2>4, <2>5 DEF Translations, PayloadType
    <3>. QED
        BY <1>7, <3>1, <3>2, <3>3
  <2>7. anon_by_author[author_key] \in {0, OwnAnon}
    BY <1>1 DEF NodeHolds
  <2>8. payloads'[id].octets = compact /\ payloads'[id].at = now
    BY <2>1
  <2>9. now >= at
    BY <1>2, <1>6
  <2>10. /\ reported'[id].report = report /\ reported'[id].at = at /\ id \in DOMAIN reported'
    BY <1>5, <2>2
  <2>11. \/ report.kind = "presence" /\ payloads'[id].octets = presence_from_typed(typed)
         \/ report.kind = "checkpoint"
               /\ payloads'[id].octets = checkpoint_from_typed(typed, node_num)
         \/ report.kind = "sos" /\ \E other \in {0, OwnAnon} :
               payloads'[id].octets = sos_from_typed(typed, Octets(other), payloads'[id].at)
    BY <2>6, <2>7, <2>8
  <2>. QED
    BY <1>2, <1>9, <2>1, <2>3, <2>8, <2>9, <2>10, <2>11 DEF IsPayload
<1>17. \A e \in queue' : IsPayload(e.id)'
  <2>1. \A other : other # id /\ IsPayload(other) => IsPayload(other)'
    <3>1. TAKE other
    <3>2. HAVE other # id /\ IsPayload(other)
    <3>3. other \in DOMAIN payloads' /\ payloads'[other] = payloads[other]
        BY <3>2, <1>4 DEF Put, IsPayload
    <3>. QED
        BY <3>2, <3>3 DEF IsPayload
  <2>2. \A e \in kept : IsPayload(e.id)
    BY <1>1, <1>12 DEF NodeHolds
  <2>3. QueuedFrom(env, anon).id = id
    BY <1>4 DEF QueuedFrom
  <2>. QED
    BY <1>10, <1>11, <1>16, <2>1, <2>2, <2>3
<1>. QED
    BY <1>13, <1>14, <1>15, <1>17 DEF NodeHolds

-----------------------------------------------------------------------------
(* What the receipt says *)

\* Four octets have room for what the phone counts.
LEMMA FourOctets == U32 \in Nat /\ GROUP < U32 /\ 4 < U32 /\ BYTE \in Nat /\ BYTE * BYTE \in Nat
<1>1. BYTE \in Nat /\ BYTE >= 4 /\ BYTE >= GROUP /\ GROUP \in Nat
    BY FirstHopAssumption, CodecAssumption
<1>2. \A x, y \in Nat : y >= 1 => x * y \in Nat /\ x * y >= x
    OBVIOUS
<1>3. BYTE * BYTE \in Nat /\ BYTE * BYTE >= BYTE
    BY <1>1, <1>2
<1>4. BYTE * BYTE * BYTE \in Nat /\ BYTE * BYTE * BYTE >= BYTE * BYTE
    BY <1>1, <1>2, <1>3
<1>5. \A x \in Nat : x * BYTE \in Nat /\ x * BYTE >= 4 * x
    BY <1>1
<1>6. U32 \in Nat /\ U32 >= 4 * (BYTE * BYTE * BYTE)
    BY <1>4, <1>5 DEF U32
<1>. QED
    BY <1>1, <1>3, <1>4, <1>6

\* An envelope that comes through whole passes every check.
LEMMA WholePasses ==
    ASSUME PhoneInv, NEW id, NEW n, IsSigning(id, n)
    PROVE  FaultOf(Sealed(reported[id].envelope, n)) = "none"
<1>1. PICK report, at, env, sealed :
         /\ report = reported[id].report /\ at = reported[id].at
         /\ env = Unsealed(report, at, n) /\ sealed = Sealed(env, n)
    OBVIOUS
<1>2. /\ Occasion(report, at, n) /\ env = reported[id].envelope
      /\ n \in DOMAIN signed /\ signed[n] = Canonical(env)
    BY <1>1 DEF IsSigning
<1>3. report \in Reports /\ at \in Nat \ {0} /\ n \in 1..GROUP /\ at \in Clocks
    BY <1>2, OccasionTypes DEF Occasion
<1>4. /\ Canonical(sealed) = Canonical(env)
      /\ sealed.signature = Seal(n, SIGNATURE_BYTES)
      /\ sealed.field_mac = Seal(n, MAC_BYTES)
      /\ \A f \in SignedFields : sealed[f] = env[f]
      /\ sealed.last_relay_id = env.last_relay_id
    BY <1>1, SealsAreApart
<1>5. /\ sealed.protocol_version = env.protocol_version /\ sealed.sig_algo = env.sig_algo
      /\ sealed.event_type = env.event_type /\ sealed.priority = env.priority
      /\ sealed.max_hops = env.max_hops /\ sealed.created_at_hlc = env.created_at_hlc
      /\ sealed.expires_at_hlc = env.expires_at_hlc
    BY <1>4 DEF SignedFields
<1>6. SealHolds(sealed.signature, SIGNATURE_BYTES, sealed)
      /\ SealHolds(sealed.field_mac, MAC_BYTES, sealed)
    BY <1>2, <1>4 DEF SealHolds
<1>7. /\ env.protocol_version = 3 /\ env.sig_algo = <<1>> /\ env.last_relay_id = <<>>
      /\ env.max_hops = 0 /\ env.event_type = EventTypes[report.kind]
      /\ env.priority = PriorityOf[report.kind]
    BY <1>1, EnvelopeFields
<1>8. PICK made_ms, expires_ms :
         /\ made_ms = IF report.expired THEN at - 1 ELSE at
         /\ expires_ms = IF report.expired THEN made_ms ELSE made_ms + VALIDITY_MS
    OBVIOUS
<1>9. env.created_at_hlc = <<Hlc(made_ms, n)>> /\ env.expires_at_hlc = <<Hlc(expires_ms, 0)>>
    BY <1>1, <1>8, EnvelopeFields
<1>10. \A ms, k : <<Hlc(ms, k)>>[1].ms = ms /\ <<Hlc(ms, k)>>[1].counter = k
    BY DEF Hlc
<1>11. report.kind \in {"sos", "presence", "checkpoint"}
    BY <1>3, Kinds DEF Reports
<1>12. env.event_type \in {1, 3, 4} /\ env.priority \in {1, 3, 4}
    BY <1>7, <1>11 DEF EventTypes, PriorityOf, Node!SOS_RED, Node!ALERT, Node!STATUS
<1>13. {sealed.event_type, sealed.priority, sealed.max_hops,
        sealed.created_at_hlc[1].counter, sealed.expires_at_hlc[1].counter} \subseteq 0..U32 - 1
  <2>1. \A v \in {0, 1, 3, 4} : v \in 0..U32 - 1
    BY FourOctets
  <2>2. n \in 0..U32 - 1
    BY <1>3, FourOctets, CodecAssumption
  <2>3. sealed.created_at_hlc[1].counter = n /\ sealed.expires_at_hlc[1].counter = 0
    BY <1>5, <1>9, <1>10
  <2>4. sealed.event_type \in {1, 3, 4} /\ sealed.priority \in {1, 3, 4} /\ sealed.max_hops = 0
    BY <1>5, <1>7, <1>12
  <2>. QED
    BY <2>1, <2>2, <2>3, <2>4
<1>14. {sealed.created_at_hlc[1].ms, sealed.expires_at_hlc[1].ms} \subseteq 0..U64 - 1
  <2>1. at + VALIDITY_MS < U64 /\ VALIDITY_MS \in Nat /\ U64 \in Nat
    BY <1>3, ScriptsAssumption, FirstHopAssumption, CodecAssumption
  <2>2. report.expired \in BOOLEAN
    BY <1>3 DEF Reports
  <2>3. made_ms \in 0..U64 - 1 /\ expires_ms \in 0..U64 - 1
    BY <1>3, <1>8, <2>1, <2>2
  <2>4. sealed.created_at_hlc[1].ms = made_ms /\ sealed.expires_at_hlc[1].ms = expires_ms
    BY <1>5, <1>9, <1>10
  <2>. QED
    BY <2>3, <2>4
<1>15. Packs(sealed)
    BY <1>13, <1>14 DEF Packs
<1>16. sealed.last_relay_id # NOT_TEXT
  <2>1. <<>> # <<-1>>
    OBVIOUS
  <2>. QED
    BY <2>1, <1>4, <1>7 DEF NOT_TEXT
<1>17. FaultOf(sealed) = "none"
    BY <1>5, <1>6, <1>7, <1>15, <1>16 DEF FaultOf
<1>. QED
    BY <1>1, <1>2, <1>17

\* What arrives is read as an envelope with an id; whole, as what was sent.
LEMMA ArrivalIsRead ==
    ASSUME PhoneInv, datagram # <<>>, NEW octets \in Arrivals(datagram)
    PROVE  /\ \A env \in decode_envelope(octets) : env.envelope_id \in IdOctets
           /\ octets = datagram =>
                \E id \in DOMAIN reported : \E n \in DOMAIN signed :
                    /\ IsSigning(id, n)
                    /\ decode_envelope(octets) = {Sealed(reported[id].envelope, n)}
<1>1. PICK id \in DOMAIN reported, n \in DOMAIN signed :
         /\ IsSigning(id, n)
         /\ datagram = encode("EventEnvelopeV2", Sealed(reported[id].envelope, n))
    BY DEF PhoneInv, DatagramIsSealed
<1>2. PICK report, at : report = reported[id].report /\ at = reported[id].at
    OBVIOUS
<1>3. Occasion(report, at, n) /\ reported[id].envelope = Unsealed(report, at, n)
    BY <1>1, <1>2 DEF IsSigning
<1>4. ReadAsWritten(report, at, n)
    BY <1>3, CodecContract DEF Occasion
<1>5. PICK env : env = Sealed(Unsealed(report, at, n), n)
    OBVIOUS
<1>6. datagram = encode("EventEnvelopeV2", env)
    BY <1>1, <1>3, <1>5
<1>7. /\ decode_envelope(datagram) = {env}
      /\ \A arrival \in Arrivals(datagram) : \A got \in decode_envelope(arrival) :
            got.envelope_id \in IdOctets
    BY <1>4, <1>5, <1>6 DEF ReadAsWritten
<1>. QED
    BY <1>1, <1>3, <1>5, <1>7

\* An answer is true if what it says of the event is.
LEMMA AnswerIsTrue ==
    ASSUME NEW octets, NEW ref \in {<<>>} \cup IdOctets,
           NEW status \in {ACCEPTED, DUPLICATE, REJECTED},
           Answers(octets, ref, status), Cardinality(queue') \in 0..max_queue_size,
           datagram' = datagram,
           status = ACCEPTED => Number(ref) \in Node!IdsOf(queue'),
           status = DUPLICATE => Number(ref) \in seen_ble' \cap DOMAIN reported',
           octets = datagram /\ status = REJECTED =>
              /\ Number(ref) \in DOMAIN reported'
              /\ \/ reported'[Number(ref)].envelope.expires_at_hlc[1].ms < clock'
                 \/ Cardinality(queue') = max_queue_size
    PROVE  ReceiptIsTrue'
<1>1. PICK depth : depth = Cardinality(queue')
    OBVIOUS
<1>2. receipt' = <<[octets |-> NodeReceipt(ref, status, depth), whole |-> octets = datagram]>>
    BY <1>1 DEF Answers
<1>3. PICK r : r = [ref_envelope_id |-> ref, status |-> status, queue_depth |-> depth]
    OBVIOUS
<1>4. decode("NodeReceiptData", NodeReceipt(ref, status, depth)) = {r}
  <2>1. \A x \in {<<>>} \cup IdOctets, s \in {ACCEPTED, DUPLICATE, REJECTED},
           d \in 0..max_queue_size :
           decode("NodeReceiptData", NodeReceipt(x, s, d)) =
               {[ref_envelope_id |-> x, status |-> s, queue_depth |-> d]}
    BY CodecContract
  <2>2. depth \in 0..max_queue_size
    BY <1>1
  <2>3. decode("NodeReceiptData", NodeReceipt(ref, status, depth)) =
           {[ref_envelope_id |-> ref, status |-> status, queue_depth |-> depth]}
    BY <2>1, <2>2
  <2>. QED
    BY <1>3, <2>3
<1>5. receipt'[1].octets = NodeReceipt(ref, status, depth)
      /\ receipt'[1].whole = (octets = datagram)
    BY <1>2
<1>6. r \in decode("NodeReceiptData", receipt'[1].octets)
    BY <1>4, <1>5
<1>7. r.ref_envelope_id = ref /\ r.status = status /\ r.queue_depth = depth
    BY <1>3
<1>8. r.status = ACCEPTED => Number(r.ref_envelope_id) \in Node!IdsOf(queue')
    BY <1>7
<1>9. r.status = DUPLICATE => Number(r.ref_envelope_id) \in seen_ble' \cap DOMAIN reported'
    BY <1>7
<1>10. receipt'[1].whole /\ r.status = REJECTED =>
          /\ Number(r.ref_envelope_id) \in DOMAIN reported'
          /\ \/ reported'[Number(r.ref_envelope_id)].envelope.expires_at_hlc[1].ms < clock'
             \/ Cardinality(queue') = max_queue_size
    BY <1>5, <1>7
<1>11. r.queue_depth = Cardinality(queue')
    BY <1>1, <1>7
<1>. QED
    BY <1>6, <1>8, <1>9, <1>10, <1>11 DEF ReceiptIsTrue

\* A node that turns away a sound envelope, which it does not know and which has
\* not expired, is full.
LEMMA TurnedAwayByAFullNode ==
    ASSUME Inv, NEW now, NEW env, Node!IngestRefused(now, Seen(env)),
           FaultOf(env) = "none", env.expires_at_hlc[1].ms >= now,
           Number(env.envelope_id) \notin seen_ble, env.priority \in Node!WirePriority
    PROVE  Cardinality(queue) = max_queue_size
<1>1. Node!Admissible(now, Seen(env))
    BY DEF Node!Admissible, Seen
<1>2. Node!RoomFor(Seen(env)) = {}
    BY <1>1 DEF Node!IngestRefused
<1>3. Cardinality(queue) >= max_queue_size
    BY <1>2, NodeCounts DEF Node!RoomFor
<1>4. Cardinality(queue) \in 0..max_queue_size /\ max_queue_size \in Nat
    BY FirstHopAssumption DEF Inv, NodeHolds
<1>. QED
    BY <1>3, <1>4

-----------------------------------------------------------------------------
(* The steps *)

LEMMA IngestKeeps ==
    ASSUME Inv, NEW now \in Clocks, now >= clock, clock' = now, datagram # <<>>,
           NEW octets \in Arrivals(datagram),
           NEW env \in decode_envelope(octets), Ingests(octets, env, now),
           UNCHANGED <<todo, counter, signed, reported, datagram>>
    PROVE  NodeHolds' /\ QueueIsReported' /\ ReceiptIsTrue'
<1>1. PICK ref : ref = Number(env.envelope_id)
    OBVIOUS
<1>2. PhoneInv /\ NodeHolds /\ QueueIsReported
    BY DEF Inv
<1>3. env.envelope_id \in {<<>>} \cup IdOctets
    BY <1>2, ArrivalIsRead
<1>4. ACCEPTED # DUPLICATE /\ ACCEPTED # REJECTED /\ DUPLICATE # REJECTED
    BY DEF ACCEPTED, DUPLICATE, REJECTED
<1>5. CASE /\ Node!IngestAccepted(now, Seen(env))
           /\ \E compact \in Translations(env, now) :
                 payloads' = Put(payloads, ref, [octets |-> compact, at |-> now])
           /\ Answers(octets, env.envelope_id, ACCEPTED)
  <2>1. PICK compact \in Translations(env, now) :
           payloads' = Put(payloads, ref, [octets |-> compact, at |-> now])
    BY <1>5
  <2>2. NodeHolds' /\ QueueIsReported'
    BY <1>1, <1>5, <2>1, AcceptedIsReported
  <2>3. ref \in Node!IdsOf(queue')
    <3>1. \E kept : queue' = kept \cup {Node!Queued(Seen(env))}
        BY <1>5 DEF Node!IngestAccepted
    <3>2. Node!Queued(Seen(env)).id = ref
        BY <1>1 DEF Node!Queued, Node!QueuedAs, Seen
    <3>. QED
        BY <3>1, <3>2 DEF Node!IdsOf
  <2>4. Cardinality(queue') \in 0..max_queue_size
    BY <2>2 DEF NodeHolds
  <2>. QED
    BY <1>1, <1>3, <1>4, <1>5, <2>2, <2>3, <2>4, AnswerIsTrue
<1>6. CASE /\ Node!IngestRefused(now, Seen(env)) /\ UNCHANGED payloads
           /\ Answers(octets, env.envelope_id,
                  IF FaultOf(env) = "none" /\ env.expires_at_hlc[1].ms >= now /\ ref \in seen_ble
                  THEN DUPLICATE ELSE REJECTED)
  <2>1. UNCHANGED <<queue, seen_ble, anon_by_author>>
    BY <1>6 DEF Node!IngestRefused, Node!nodeVars
  <2>2. NodeHolds' /\ QueueIsReported'
    BY <1>2, <1>6, <2>1 DEF NodeHolds, QueueIsReported, IsPayload
  <2>3. Cardinality(queue') \in 0..max_queue_size
    BY <2>2 DEF NodeHolds
  <2>4. CASE FaultOf(env) = "none" /\ env.expires_at_hlc[1].ms >= now /\ ref \in seen_ble
    <3>1. ref \in DOMAIN reported
        BY <1>1, <1>2, <2>4, GenuineIsSigned
    <3>2. Answers(octets, env.envelope_id, DUPLICATE)
        BY <1>6, <2>4
    <3>3. ref \in seen_ble' \cap DOMAIN reported'
        BY <2>1, <2>4, <3>1
    <3>. QED
        BY <1>1, <1>3, <1>4, <2>2, <2>3, <3>2, <3>3, AnswerIsTrue
  <2>5. CASE ~(FaultOf(env) = "none" /\ env.expires_at_hlc[1].ms >= now /\ ref \in seen_ble)
    <3>1. Answers(octets, env.envelope_id, REJECTED)
        BY <1>6, <2>5
    <3>2. ASSUME octets = datagram
          PROVE  /\ ref \in DOMAIN reported'
                 /\ \/ reported'[ref].envelope.expires_at_hlc[1].ms < clock'
                    \/ Cardinality(queue') = max_queue_size
      <4>1. PICK id \in DOMAIN reported, n \in DOMAIN signed :
               /\ IsSigning(id, n)
               /\ decode_envelope(octets) = {Sealed(reported[id].envelope, n)}
        BY <1>2, <3>2, ArrivalIsRead
      <4>2. env = Sealed(reported[id].envelope, n)
        BY <4>1
      <4>3. PICK report, at : report = reported[id].report /\ at = reported[id].at
        OBVIOUS
      <4>4. /\ Occasion(report, at, n) /\ reported[id].envelope = Unsealed(report, at, n)
            /\ id = Number(reported[id].envelope.envelope_id)
        BY <4>1, <4>3 DEF IsSigning
      <4>5. Canonical(env) = Canonical(reported[id].envelope)
        BY <4>2, <4>4, SealsAreApart
      <4>6. /\ env.envelope_id = reported[id].envelope.envelope_id
            /\ env.expires_at_hlc = reported[id].envelope.expires_at_hlc
            /\ env.priority = reported[id].envelope.priority
        BY <4>5, SignedSaysAll
      <4>7. FaultOf(env) = "none"
        BY <1>2, <4>1, <4>2, WholePasses
      <4>8. /\ reported[id].envelope.expires_at_hlc[1].ms \in Nat
            /\ reported[id].envelope.priority \in Node!WirePriority
        BY <4>4, ReportSeen
      <4>9. ref = id /\ now \in Nat
        BY <1>1, <4>4, <4>6, FirstHopAssumption
      <4>10. CASE ~(env.expires_at_hlc[1].ms >= now)
        BY <4>1, <4>6, <4>8, <4>9, <4>10
      <4>11. CASE env.expires_at_hlc[1].ms >= now
        <5>1. ref \notin seen_ble
            BY <2>5, <4>7, <4>11
        <5>2. Node!IngestRefused(now, Seen(env))
            BY <1>6
        <5>3. Cardinality(queue) = max_queue_size
            BY <1>1, <4>6, <4>7, <4>8, <4>11, <5>1, <5>2, TurnedAwayByAFullNode
        <5>. QED
            BY <2>1, <4>1, <4>9, <5>3
      <4>. QED
        BY <4>10, <4>11
    <3>. QED
        BY <1>1, <1>3, <1>4, <2>2, <2>3, <3>1, <3>2, AnswerIsTrue
  <2>. QED
    BY <2>4, <2>5
<1>. QED
    BY <1>1, <1>5, <1>6 DEF Ingests

LEMMA BleIngestKeeps ==
    ASSUME Inv, NEW now \in Clocks, BleIngest(now)
    PROVE  Inv'
<1>1. /\ datagram # <<>> /\ receipt = <<>> /\ now >= clock /\ clock' = now
      /\ UNCHANGED <<todo, counter, signed, reported, datagram>>
    BY DEF BleIngest, phoneVars
<1>2. now \in Nat /\ PhoneInv /\ NodeHolds /\ QueueIsReported
    BY FirstHopAssumption DEF Inv
<1>3. PhoneInv'
    BY <1>1, <1>2, ClockKeepsPhone
<1>4. PICK octets \in Arrivals(datagram) :
         \/ /\ decode_envelope(octets) = {} /\ UNCHANGED <<nodeVars, payloads>>
            /\ Answers(octets, <<>>, REJECTED)
         \/ UNCHANGED <<nodeVars, payloads, receipt>>
         \/ \E env \in decode_envelope(octets) : Ingests(octets, env, now)
    BY DEF BleIngest
<1>5. CASE /\ decode_envelope(octets) = {} /\ UNCHANGED <<nodeVars, payloads>>
           /\ Answers(octets, <<>>, REJECTED)
  <2>1. octets # datagram
    BY <1>1, <1>2, <1>5, ArrivalIsRead
  <2>2. NodeHolds' /\ QueueIsReported'
    BY <1>1, <1>2, <1>5 DEF NodeHolds, QueueIsReported, IsPayload, nodeVars
  <2>3. Cardinality(queue') \in 0..max_queue_size
    BY <2>2 DEF NodeHolds
  <2>4. REJECTED # ACCEPTED /\ REJECTED # DUPLICATE
    BY DEF ACCEPTED, DUPLICATE, REJECTED
  <2>5. ReceiptIsTrue'
    BY <1>1, <1>5, <2>1, <2>3, <2>4, AnswerIsTrue
  <2>. QED
    BY <1>3, <2>2, <2>5 DEF Inv
<1>6. CASE UNCHANGED <<nodeVars, payloads, receipt>>
  <2>1. NodeHolds' /\ QueueIsReported'
    BY <1>1, <1>2, <1>6 DEF NodeHolds, QueueIsReported, IsPayload, nodeVars
  <2>2. ReceiptIsTrue'
    BY <1>1, <1>6 DEF ReceiptIsTrue
  <2>. QED
    BY <1>3, <2>1, <2>2 DEF Inv
<1>7. CASE \E env \in decode_envelope(octets) : Ingests(octets, env, now)
    BY <1>1, <1>3, <1>7, IngestKeeps DEF Inv
<1>. QED
    BY <1>4, <1>5, <1>6, <1>7

LEMMA BuildsKeeps ==
    ASSUME Inv, NEW now \in Clocks, Builds(now)
    PROVE  Inv'
<1>1. PhoneInv' /\ PhoneInv /\ NodeHolds /\ QueueIsReported
    BY BuildKeepsPhone DEF Inv
<1>2. /\ UNCHANGED <<queue, anon_by_author, payloads>> /\ receipt' = <<>>
      /\ now >= clock /\ clock' = now /\ todo # <<>>
    BY DEF Builds, nodeVars
<1>3. PICK report, n, env, id, entry :
         /\ report = Head(todo) /\ n = counter + 1 /\ env = Unsealed(report, now, n)
         /\ id = Number(env.envelope_id)
         /\ entry = [report |-> report, at |-> now, envelope |-> env]
    OBVIOUS
<1>4. reported' = Put(reported, id, entry)
    BY <1>3 DEF Builds
<1>5. Occasion(report, now, n) /\ n \notin DOMAIN signed
    BY <1>1, <1>2, <1>3, BuildIsAnOccasion DEF PhoneInv
<1>6. \A other \in DOMAIN reported : other # id
  <2>1. TAKE other \in DOMAIN reported
  <2>2. PICK m \in DOMAIN signed : IsSigning(other, m)
    BY <1>1 DEF PhoneInv, ReportsAreSigned
  <2>. QED
    BY <1>3, <1>5, <2>2, IdsAreApart DEF IsSigning
<1>7. \A other \in DOMAIN reported : /\ other \in DOMAIN reported'
                                     /\ reported'[other] = reported[other]
    BY <1>4, <1>6 DEF Put
<1>8. QueueIsReported'
    BY <1>1, <1>2, <1>7 DEF QueueIsReported
<1>9. \A other : IsPayload(other) => IsPayload(other)'
    BY <1>2, <1>7 DEF IsPayload
<1>10. NodeHolds'
    BY <1>1, <1>2, <1>9 DEF NodeHolds
<1>11. ReceiptIsTrue'
    BY <1>2 DEF ReceiptIsTrue
<1>. QED
    BY <1>1, <1>8, <1>10, <1>11 DEF Inv

LEMMA RebootKeeps == Inv /\ NodeReboots => Inv'
<1>. SUFFICES ASSUME Inv, NodeReboots PROVE Inv'
    OBVIOUS
<1>1. /\ queue' = {} /\ receipt' = <<>>
      /\ UNCHANGED <<anon_by_author, payloads, todo, counter, signed, reported, clock, datagram>>
    BY DEF NodeReboots, Node!Reboot, phoneVars
<1>2. PhoneInv /\ NodeHolds
    BY DEF Inv
<1>3. PhoneInv'
    BY <1>1, <1>2, ClockKeepsPhone DEF PhoneInv, PhoneHolds
<1>4. IsFiniteSet({}) /\ Cardinality({}) = 0
    BY FS_EmptySet
<1>5. NodeHolds'
    BY <1>1, <1>2, <1>4, FirstHopAssumption DEF NodeHolds
<1>6. QueueIsReported' /\ ReceiptIsTrue'
    BY <1>1 DEF QueueIsReported, ReceiptIsTrue
<1>. QED
    BY <1>3, <1>5, <1>6 DEF Inv

LEMMA InvHolds == Spec => []Inv
<1>1. Init => Inv
  <2>. SUFFICES ASSUME Init PROVE Inv
    OBVIOUS
  <2>1. PhoneInv
    BY PhoneStarts
  <2>2. queue = {} /\ receipt = <<>> /\ anon_by_author = [a \in {author_key} |-> 0]
    BY DEF Init, Node!NodeInit, Node!ZeroAnon
  <2>3. NodeHolds
    BY <2>2, FS_EmptySet, FirstHopAssumption DEF NodeHolds
  <2>. QED
    BY <2>1, <2>2, <2>3 DEF Inv, QueueIsReported, ReceiptIsTrue
<1>2. Inv /\ [Next]_vars => Inv'
  <2>. SUFFICES ASSUME Inv, [Next]_vars PROVE Inv'
    OBVIOUS
  <2>1. CASE \E now \in Clocks : Builds(now)
    BY <2>1, BuildsKeeps
  <2>2. CASE \E now \in Clocks : BleIngest(now)
    BY <2>2, BleIngestKeeps
  <2>3. CASE NodeReboots
    BY <2>3, RebootKeeps
  <2>4. CASE PhoneReads \/ UNCHANGED vars
    <3>1. /\ receipt' \in {<<>>, receipt}
          /\ UNCHANGED <<queue, anon_by_author, seen_ble, payloads, todo, counter, signed,
                         reported, clock, datagram>>
        BY <2>4 DEF PhoneReads, vars, nodeVars, phoneVars
    <3>2. PhoneInv'
        BY <3>1, ClockKeepsPhone DEF Inv, PhoneInv, PhoneHolds
    <3>3. NodeHolds' /\ QueueIsReported'
        BY <3>1 DEF Inv, NodeHolds, QueueIsReported, IsPayload
    <3>4. ReceiptIsTrue'
        BY <3>1 DEF Inv, ReceiptIsTrue
    <3>. QED
        BY <3>2, <3>3, <3>4 DEF Inv
  <2>. QED
    BY <2>1, <2>2, <2>3, <2>4 DEF Next
<1>. QED
    BY <1>1, <1>2, PTL DEF Spec

(* Whatever the link and later relays do to the octets, and however the     *)
(* codec reads them, every event the node queues is one the phone signed,   *)
(* as the phone signed it (actors.py, SimNode.ble_ingest).                  *)
THEOREM QueueIsAuthentic == Spec => []OnlyWhatWasSigned
<1>1. Inv => OnlyWhatWasSigned
    BY QueuedAsSeen DEF Inv, QueueIsReported, OnlyWhatWasSigned
<1>. QED
    BY <1>1, InvHolds, PTL

(* The receipt of each call says what became of the event and how many are  *)
(* queued, and a sound envelope is turned away, by its name, only if it     *)
(* expired or the queue is full (actors.py, SimNode.ble_ingest and _reject).*)
THEOREM ReceiptsAreTrue == Spec => []ReceiptIsTrue
BY InvHolds, PTL DEF Inv

-----------------------------------------------------------------------------
(* The compact payloads, octet by octet *)

\* Division leaves one quotient and one rest.
LEMMA OneRest ==
    ASSUME NEW d \in Nat \ {0}, NEW q \in Int, NEW r \in 0..d - 1
    PROVE  (d * q + r) % d = r /\ (d * q + r) \div d = q
OBVIOUS

LEMMA Divided ==
    ASSUME NEW d \in Nat \ {0}, NEW x \in Int
    PROVE  x \div d \in Int /\ x % d \in 0..d - 1 /\ x = d * (x \div d) + (x % d)
OBVIOUS

\* Two digits to a base are one to its square.
LEMMA TwoDigits ==
    ASSUME NEW d \in Nat \ {0}, NEW x \in Int
    PROVE  (x % d) + d * ((x \div d) % d) = x % (d * d)
<1>1. PICK q, r : q = x \div d /\ r = x % d
    OBVIOUS
<1>2. q \in Int /\ r \in 0..d - 1 /\ x = d * q + r
    BY <1>1, Divided
<1>3. PICK p, s : p = q \div d /\ s = q % d
    OBVIOUS
<1>4. p \in Int /\ s \in 0..d - 1 /\ q = d * p + s
    BY <1>2, <1>3, Divided
<1>5. d * s \in Nat /\ d * s <= d * (d - 1)
  <2>1. \A a, b \in Nat : a <= b => d * a <= d * b
    OBVIOUS
  <2>2. s \in Nat /\ d - 1 \in Nat /\ s <= d - 1
    BY <1>4
  <2>3. d * s <= d * (d - 1)
    BY <2>1, <2>2
  <2>. QED
    BY <2>2, <2>3
<1>6. d * d \in Nat \ {0} /\ d * (d - 1) = (d * d) - d
    OBVIOUS
<1>7. (d * s) + r \in 0..(d * d) - 1
    BY <1>2, <1>5, <1>6
<1>8. d * q = ((d * d) * p) + (d * s)
  <2>1. d * q = d * ((d * p) + s)
    BY <1>4
  <2>2. d * ((d * p) + s) = (d * (d * p)) + (d * s)
    BY <1>4
  <2>3. d * (d * p) = (d * d) * p
    BY <1>4
  <2>. QED
    BY <2>1, <2>2, <2>3
<1>9. x = ((d * d) * p) + ((d * s) + r)
    BY <1>2, <1>4, <1>5, <1>6, <1>8
<1>10. x % (d * d) = (d * s) + r
    BY <1>4, <1>6, <1>7, <1>9, OneRest
<1>. QED
    BY <1>1, <1>3, <1>2, <1>4, <1>5, <1>10

LEMMA NegativeRest ==
    ASSUME NEW d \in Nat \ {0}, NEW x \in -d..-1
    PROVE  x % d = x + d
<1>1. x + d \in 0..d - 1 /\ x = (d * (-1)) + (x + d)
    OBVIOUS
<1>2. \A q \in Int, r \in 0..d - 1 : ((d * q) + r) % d = r
    BY OneRest
<1>. QED
    BY <1>1, <1>2

LEMMA Squares ==
    /\ BYTE \in Nat \ {0} /\ BYTE * BYTE \in Nat \ {0} /\ U32 \in Nat \ {0}
    /\ U32 = (BYTE * BYTE) * (BYTE * BYTE) /\ U16_MAX = (BYTE * BYTE) - 1
<1>1. BYTE \in Nat /\ BYTE >= 2
    BY CompactAssumption
<1>2. U32 = (BYTE * BYTE) * (BYTE * BYTE)
    BY <1>1 DEF U32
<1>3. BYTE * BYTE \in Nat \ {0}
    BY <1>1
<1>4. \A x, y \in Nat \ {0} : x * y \in Nat \ {0}
    OBVIOUS
<1>5. U32 \in Nat \ {0}
    BY <1>2, <1>3, <1>4
<1>. QED
    BY <1>1, <1>2, <1>3, <1>5 DEF U16_MAX

LEMMA OctetTypes == \A v \in Int : /\ Octet(v) \in 0..BYTE - 1
                                   /\ v \div BYTE \in Int /\ v \div (BYTE * BYTE) \in Int
                                   /\ v \in 0..BYTE - 1 => Octet(v) = v
<1>1. TAKE v \in Int
<1>2. /\ v % BYTE \in 0..BYTE - 1 /\ v \div BYTE \in Int
      /\ v \div (BYTE * BYTE) \in Int
    BY Squares, Divided
<1>3. v \in 0..BYTE - 1 => v % BYTE = v
    BY Squares
<1>. QED
    BY <1>2, <1>3 DEF Octet

\* Two octets hold what is less than their number of values.
LEMMA U16Read ==
    ASSUME NEW v \in Int, NEW b, NEW off \in Nat,
           b[off + 1] = Octet(v), b[off + 2] = Octet(v \div BYTE)
    PROVE  /\ rd_u16le(b, off) = v % (BYTE * BYTE)
           /\ v \in 0..(BYTE * BYTE) - 1 => rd_u16le(b, off) = v
<1>1. rd_u16le(b, off) = (v % BYTE) + BYTE * ((v \div BYTE) % BYTE)
    BY DEF rd_u16le, Octet
<1>2. (v % BYTE) + BYTE * ((v \div BYTE) % BYTE) = v % (BYTE * BYTE)
    BY Squares, TwoDigits
<1>3. v \in 0..(BYTE * BYTE) - 1 => v % (BYTE * BYTE) = v
    BY Squares
<1>. QED
    BY <1>1, <1>2, <1>3

\* Four octets hold a coordinate with its sign.
LEMMA I32Read ==
    ASSUME NEW v \in Coordinates, NEW b, NEW off \in Nat,
           b[off + 1] = Octet(v), b[off + 2] = Octet(v \div BYTE),
           b[off + 3] = Octet(v \div (BYTE * BYTE)),
           b[off + 4] = Octet((v \div (BYTE * BYTE)) \div BYTE)
    PROVE  rd_i32le(b, off) = v
<1>1. PICK d : d = BYTE * BYTE
    OBVIOUS
<1>2. d \in Nat \ {0} /\ U32 = d * d /\ U32 \in Nat \ {0}
    BY <1>1, Squares
<1>3. PICK half : half = U32 \div 2
    OBVIOUS
<1>4. half \in Nat /\ 2 * half <= U32 /\ U32 <= (2 * half) + 1
    BY <1>2, <1>3
<1>5. v \in Int /\ -half <= v /\ v <= half - 1
    BY <1>3, <1>4 DEF Coordinates
<1>6. v \div d \in Int
    BY <1>2, <1>5, Divided
<1>7. rd_u16le(b, off) = v % d
    BY <1>1, <1>5, U16Read
<1>8. rd_u16le(b, off + 2) = (v \div d) % d
  <2>1. off + 2 \in Nat /\ (off + 2) + 1 = off + 3 /\ (off + 2) + 2 = off + 4
    OBVIOUS
  <2>. QED
    BY <1>1, <1>6, <2>1, U16Read
<1>9. PICK u : u = rd_u16le(b, off) + BYTE * BYTE * rd_u16le(b, off + 2)
    OBVIOUS
<1>10. u = v % U32
  <2>1. u = (v % d) + d * ((v \div d) % d)
    BY <1>1, <1>7, <1>8, <1>9
  <2>2. (v % d) + d * ((v \div d) % d) = v % (d * d)
    BY <1>2, <1>5, TwoDigits
  <2>. QED
    BY <1>2, <2>1, <2>2
<1>11. u = IF v >= 0 THEN v ELSE v + U32
  <2>1. CASE v >= 0
    BY <1>2, <1>4, <1>5, <1>10, <2>1
  <2>2. CASE ~(v >= 0)
    <3>1. v \in -U32..-1
        BY <1>2, <1>4, <1>5, <2>2
    <3>2. v % U32 = v + U32
        BY <1>2, <3>1, NegativeRest
    <3>. QED
        BY <1>10, <2>2, <3>2
  <2>. QED
    BY <2>1, <2>2
<1>12. rd_i32le(b, off) = IF 2 * u >= U32 THEN u - U32 ELSE u
    BY <1>9 DEF rd_i32le
<1>13. CASE v >= 0
    BY <1>2, <1>4, <1>5, <1>11, <1>12, <1>13
<1>14. CASE ~(v >= 0)
    BY <1>2, <1>4, <1>5, <1>11, <1>12, <1>14
<1>. QED
    BY <1>13, <1>14

LEMMA Fits ==
    ASSUME NEW v \in Nat
    PROVE  /\ sat_u16(v) = Fitting(v) /\ Fitting(v) \in 0..(BYTE * BYTE) - 1
           /\ Fitting(Fitting(v)) = Fitting(v)
BY Squares DEF sat_u16, Fitting

\* u is s, of m elements of S, followed by t, of n.
Joined(u, S, s, t, m, n) ==
    /\ u \in Seq(S) /\ Len(u) = m + n /\ m \in Nat /\ n \in Nat
    /\ \A k \in 1..m : u[k] = s[k]
    /\ \A k \in 1..n : u[m + k] = t[k]

LEMMA Joins ==
    ASSUME NEW S, NEW s \in Seq(S), NEW t \in Seq(S), NEW m, NEW n, Len(s) = m, Len(t) = n
    PROVE  Joined(s \o t, S, s, t, m, n)
<1>1. Joined(s \o t, S, s, t, Len(s), Len(t))
    BY DEF Joined
<1>. QED
    BY <1>1

LEMMA TwoAndTwo ==
    ASSUME NEW S, NEW u, NEW s, NEW t, Joined(u, S, s, t, 2, 2)
    PROVE  /\ u \in Seq(S) /\ Len(u) = 4
           /\ u[1] = s[1] /\ u[2] = s[2] /\ u[3] = t[1] /\ u[4] = t[2]
<1>1. u \in Seq(S) /\ Len(u) = 4 /\ u[2 + 1] = t[1] /\ u[2 + 2] = t[2]
    BY DEF Joined
<1>2. u[1] = s[1] /\ u[2] = s[2]
    BY DEF Joined
<1>. QED
    BY <1>1, <1>2

\* loc is what the fields of a location are, octet by octet.
IsLocation(loc, src, lat, lng, acc, age) ==
    /\ loc \in Seq(Int) /\ Len(loc) = LOC13_BYTES
    /\ loc[1] = Octet(src)
    /\ loc[2] = Octet(lat) /\ loc[3] = Octet(lat \div BYTE)
    /\ loc[4] = Octet(lat \div (BYTE * BYTE))
    /\ loc[5] = Octet((lat \div (BYTE * BYTE)) \div BYTE)
    /\ loc[6] = Octet(lng) /\ loc[7] = Octet(lng \div BYTE)
    /\ loc[8] = Octet(lng \div (BYTE * BYTE))
    /\ loc[9] = Octet((lng \div (BYTE * BYTE)) \div BYTE)
    /\ loc[10] = Octet(Fitting(acc)) /\ loc[11] = Octet(Fitting(acc) \div BYTE)
    /\ loc[12] = Octet(Fitting(age)) /\ loc[13] = Octet(Fitting(age) \div BYTE)

LEMMA Loc13Octets ==
    ASSUME NEW src \in Int, NEW lat \in Int, NEW lng \in Int, NEW acc \in Nat, NEW age \in Nat
    PROVE  IsLocation(encode_loc13(src, lat, lng, acc, age), src, lat, lng, acc, age)
<1>1. \A v \in Int : /\ u16le(v) \in Seq(Int) /\ Len(u16le(v)) = 2
                     /\ u16le(v)[1] = Octet(v) /\ u16le(v)[2] = Octet(v \div BYTE)
    BY OctetTypes DEF u16le
<1>2. ASSUME NEW v \in Int
      PROVE  /\ i32le(v) \in Seq(Int) /\ Len(i32le(v)) = 4
             /\ i32le(v)[1] = Octet(v) /\ i32le(v)[2] = Octet(v \div BYTE)
             /\ i32le(v)[3] = Octet(v \div (BYTE * BYTE))
             /\ i32le(v)[4] = Octet((v \div (BYTE * BYTE)) \div BYTE)
  <2>1. PICK w : w = v \div (BYTE * BYTE)
    OBVIOUS
  <2>2. w \in Int
    BY <2>1, OctetTypes
  <2>3. PICK lo, hi : lo = u16le(v) /\ hi = u16le(w)
    OBVIOUS
  <2>4. /\ lo \in Seq(Int) /\ Len(lo) = 2 /\ lo[1] = Octet(v) /\ lo[2] = Octet(v \div BYTE)
        /\ hi \in Seq(Int) /\ Len(hi) = 2 /\ hi[1] = Octet(w) /\ hi[2] = Octet(w \div BYTE)
    BY <1>1, <2>2, <2>3
  <2>5. PICK u : u = lo \o hi
    OBVIOUS
  <2>6. Joined(u, Int, lo, hi, 2, 2)
    BY <2>4, <2>5, Joins
  <2>7. /\ u \in Seq(Int) /\ Len(u) = 4
        /\ u[1] = lo[1] /\ u[2] = lo[2] /\ u[3] = hi[1] /\ u[4] = hi[2]
    BY <2>6, TwoAndTwo
  <2>8. i32le(v) = u
    BY <2>1, <2>3, <2>5 DEF i32le
  <2>. QED
    BY <2>1, <2>4, <2>7, <2>8
<1>3. /\ sat_u16(acc) = Fitting(acc) /\ Fitting(acc) \in Int
      /\ sat_u16(age) = Fitting(age) /\ Fitting(age) \in Int
    BY Fits, Squares
<1>4. PICK a, b, c, d, e :
         /\ a = <<Octet(src)>> /\ b = i32le(lat) /\ c = i32le(lng)
         /\ d = u16le(Fitting(acc)) /\ e = u16le(Fitting(age))
    OBVIOUS
<1>5. /\ a \in Seq(Int) /\ Len(a) = 1 /\ b \in Seq(Int) /\ Len(b) = 4
      /\ c \in Seq(Int) /\ Len(c) = 4 /\ d \in Seq(Int) /\ Len(d) = 2
      /\ e \in Seq(Int) /\ Len(e) = 2 /\ a[1] = Octet(src)
    BY <1>1, <1>2, <1>3, <1>4, OctetTypes
<1>6. PICK ab, abc, abcd, loc :
         ab = a \o b /\ abc = ab \o c /\ abcd = abc \o d /\ loc = abcd \o e
    OBVIOUS
<1>7. Joined(ab, Int, a, b, 1, 4)
    BY <1>5, <1>6, Joins
<1>8. ab \in Seq(Int) /\ Len(ab) = 5
    BY <1>7 DEF Joined
<1>9. Joined(abc, Int, ab, c, 5, 4)
    BY <1>5, <1>6, <1>8, Joins
<1>10. abc \in Seq(Int) /\ Len(abc) = 9
    BY <1>9 DEF Joined
<1>11. Joined(abcd, Int, abc, d, 9, 2)
    BY <1>5, <1>6, <1>10, Joins
<1>12. abcd \in Seq(Int) /\ Len(abcd) = 11
    BY <1>11 DEF Joined
<1>13. Joined(loc, Int, abcd, e, 11, 2)
    BY <1>5, <1>6, <1>12, Joins
<1>14. loc \in Seq(Int) /\ Len(loc) = 13
    BY <1>13 DEF Joined
<1>15. /\ \A k \in 1..11 : loc[k] = abcd[k]
       /\ loc[11 + 1] = e[1] /\ loc[11 + 2] = e[2]
    BY <1>13 DEF Joined
<1>16. /\ \A k \in 1..9 : abcd[k] = abc[k]
       /\ abcd[9 + 1] = d[1] /\ abcd[9 + 2] = d[2]
    BY <1>11 DEF Joined
<1>17. /\ \A k \in 1..5 : abc[k] = ab[k]
       /\ abc[5 + 1] = c[1] /\ abc[5 + 2] = c[2] /\ abc[5 + 3] = c[3] /\ abc[5 + 4] = c[4]
    BY <1>9 DEF Joined
<1>18. /\ ab[1] = a[1]
       /\ ab[1 + 1] = b[1] /\ ab[1 + 2] = b[2] /\ ab[1 + 3] = b[3] /\ ab[1 + 4] = b[4]
    BY <1>7 DEF Joined
<1>19. /\ loc[10] = d[1] /\ loc[11] = d[2] /\ loc[12] = e[1] /\ loc[13] = e[2]
       /\ loc[6] = c[1] /\ loc[7] = c[2] /\ loc[8] = c[3] /\ loc[9] = c[4]
       /\ loc[1] = a[1] /\ loc[2] = b[1] /\ loc[3] = b[2] /\ loc[4] = b[3] /\ loc[5] = b[4]
    BY <1>15, <1>16, <1>17, <1>18
<1>20. encode_loc13(src, lat, lng, acc, age) = loc
    BY <1>3, <1>4, <1>6 DEF encode_loc13
<1>. QED
    BY <1>1, <1>2, <1>3, <1>4, <1>5, <1>14, <1>19, <1>20 DEF IsLocation, LOC13_BYTES

\* The octets of b after the first off of them begin with loc.
IsLocationAt(b, off, loc) == \A k \in 1..LOC13_BYTES : b[off + k] = loc[k]

(* A reader of the location of a frame gets the source and the coordinates, *)
(* with their signs, that were written, and the accuracy and the age, or    *)
(* the most the field holds (wire/compact.py, encode_loc13, decode_loc13).  *)
THEOREM LocationIsRead ==
    ASSUME NEW src \in 0..BYTE - 1, NEW lat \in Coordinates, NEW lng \in Coordinates,
           NEW acc \in Nat, NEW age \in Nat, NEW b, NEW off \in Nat,
           IsLocationAt(b, off, encode_loc13(src, lat, lng, acc, age))
    PROVE  decode_loc13(b, off) =
              [src |-> src, lat_e7 |-> lat, lng_e7 |-> lng,
               acc_m |-> Fitting(acc), age_s |-> Fitting(age)]
<1>1. BYTE \in Nat \ {0} /\ U32 \in Nat \ {0}
    BY Squares
<1>2. src \in Int /\ lat \in Int /\ lng \in Int
    BY <1>1 DEF Coordinates
<1>3. PICK loc : loc = encode_loc13(src, lat, lng, acc, age)
    OBVIOUS
<1>4. /\ loc[1] = Octet(src)
      /\ loc[2] = Octet(lat) /\ loc[3] = Octet(lat \div BYTE)
      /\ loc[4] = Octet(lat \div (BYTE * BYTE))
      /\ loc[5] = Octet((lat \div (BYTE * BYTE)) \div BYTE)
      /\ loc[6] = Octet(lng) /\ loc[7] = Octet(lng \div BYTE)
      /\ loc[8] = Octet(lng \div (BYTE * BYTE))
      /\ loc[9] = Octet((lng \div (BYTE * BYTE)) \div BYTE)
      /\ loc[10] = Octet(Fitting(acc)) /\ loc[11] = Octet(Fitting(acc) \div BYTE)
      /\ loc[12] = Octet(Fitting(age)) /\ loc[13] = Octet(Fitting(age) \div BYTE)
  <2>1. IsLocation(loc, src, lat, lng, acc, age)
    BY <1>2, <1>3, Loc13Octets
  <2>. QED
    BY <2>1 DEF IsLocation
<1>5. \A k \in 1..13 : b[off + k] = loc[k]
    BY <1>3 DEF IsLocationAt, LOC13_BYTES
<1>6. b[off + 1] = src
    BY <1>2, <1>4, <1>5, OctetTypes
<1>7. rd_i32le(b, off + 1) = lat
  <2>1. /\ off + 1 \in Nat /\ (off + 1) + 1 = off + 2 /\ (off + 1) + 2 = off + 3
        /\ (off + 1) + 3 = off + 4 /\ (off + 1) + 4 = off + 5
    OBVIOUS
  <2>. QED
    BY <1>4, <1>5, <2>1, I32Read
<1>8. rd_i32le(b, off + 5) = lng
  <2>1. /\ off + 5 \in Nat /\ (off + 5) + 1 = off + 6 /\ (off + 5) + 2 = off + 7
        /\ (off + 5) + 3 = off + 8 /\ (off + 5) + 4 = off + 9
    OBVIOUS
  <2>. QED
    BY <1>4, <1>5, <2>1, I32Read
<1>9. rd_u16le(b, off + 9) = Fitting(acc)
  <2>1. /\ off + 9 \in Nat /\ (off + 9) + 1 = off + 10 /\ (off + 9) + 2 = off + 11
    OBVIOUS
  <2>2. Fitting(acc) \in Int /\ Fitting(acc) \in 0..(BYTE * BYTE) - 1
    BY Fits, Squares
  <2>. QED
    BY <1>4, <1>5, <2>1, <2>2, U16Read
<1>10. rd_u16le(b, off + 11) = Fitting(age)
  <2>1. /\ off + 11 \in Nat /\ (off + 11) + 1 = off + 12 /\ (off + 11) + 2 = off + 13
    OBVIOUS
  <2>2. Fitting(age) \in Int /\ Fitting(age) \in 0..(BYTE * BYTE) - 1
    BY Fits, Squares
  <2>. QED
    BY <1>4, <1>5, <2>1, <2>2, U16Read
<1>. QED
    BY <1>6, <1>7, <1>8, <1>9, <1>10 DEF decode_loc13

\* A frame begins with an anonymous id, which its reader gets back.
LEMMA IdIsASequence ==
    \A id : \E S : /\ Int \subseteq S /\ anon8(id) \in Seq(S) /\ Len(anon8(id)) = ANON8_BYTES
<1>1. TAKE id
<1>2. PICK n : n = ANON8_BYTES /\ n \in Nat
    BY CompactAssumption
<1>3. PICK a : a = anon8(id)
    OBVIOUS
<1>4. DOMAIN a = 1..n /\ a = [k \in 1..n |-> a[k]]
    BY <1>2, <1>3 DEF anon8
<1>5. PICK S : S = Int \cup {a[k] : k \in 1..n}
    OBVIOUS
<1>6. a \in [1..n -> S]
    BY <1>4, <1>5
<1>7. a \in Seq(S) /\ Len(a) = n
    BY <1>2, <1>6
<1>. QED
    BY <1>2, <1>3, <1>5, <1>7

LEMMA Beginning ==
    ASSUME NEW S, NEW m, NEW n, NEW s \in Seq(S), NEW t, NEW u,
           Joined(u, S, s, t, m, n), Len(s) = m
    PROVE  SubSeq(u, 1, m) = s
<1>1. u \in Seq(S) /\ Len(u) = m + n /\ m \in Nat /\ n \in Nat /\ \A k \in 1..m : u[k] = s[k]
    BY DEF Joined
<1>2. s = [k \in 1..m |-> s[k]]
    BY <1>1
<1>3. SubSeq(u, 1, m) = [k \in 1..m |-> u[k]]
    BY <1>1
<1>. QED
    BY <1>1, <1>2, <1>3

\* b is the id and t, of n octets, after it.
IsFrame(b, id, t, n) ==
    /\ Len(b) = ANON8_BYTES + n /\ SubSeq(b, 1, ANON8_BYTES) = anon8(id)
    /\ \A k \in 1..n : b[ANON8_BYTES + k] = t[k]

LEMMA FrameIsRead ==
    ASSUME NEW id, NEW t \in Seq(Int), NEW n, Len(t) = n
    PROVE  IsFrame(anon8(id) \o t, id, t, n)
<1>1. PICK S : /\ Int \subseteq S /\ anon8(id) \in Seq(S) /\ Len(anon8(id)) = ANON8_BYTES
    BY IdIsASequence
<1>2. t \in Seq(S)
    BY <1>1
<1>3. PICK b : b = anon8(id) \o t
    OBVIOUS
<1>4. Joined(b, S, anon8(id), t, ANON8_BYTES, n)
    BY <1>1, <1>2, <1>3, Joins
<1>5. SubSeq(b, 1, ANON8_BYTES) = anon8(id)
    BY <1>1, <1>4, Beginning
<1>6. Len(b) = ANON8_BYTES + n /\ \A k \in 1..n : b[ANON8_BYTES + k] = t[k]
    BY <1>4 DEF Joined
<1>. QED
    BY <1>3, <1>5, <1>6 DEF IsFrame

LEMMA PresenceIsRead ==
    ASSUME NEW id, NEW battery \in 0..BYTE - 1, NEW source \in 0..BYTE - 1
    PROVE  decode_presence(anon8(id) \o <<Octet(battery), Octet(source)>>) =
              {[anon8 |-> anon8(id), battery |-> battery, evid_src |-> source]}
<1>1. battery \in Int /\ source \in Int /\ Octet(battery) = battery /\ Octet(source) = source
    BY Squares, OctetTypes
<1>2. PICK t : t = <<battery, source>>
    OBVIOUS
<1>3. t \in Seq(Int) /\ Len(t) = 2 /\ t[1] = battery /\ t[2] = source
    BY <1>1, <1>2
<1>4. IsFrame(anon8(id) \o t, id, t, 2)
    BY <1>3, FrameIsRead
<1>5. \A b : IsFrame(b, id, t, 2) =>
         decode_presence(b) = {[anon8 |-> anon8(id), battery |-> battery, evid_src |-> source]}
  <2>1. SUFFICES ASSUME NEW b, IsFrame(b, id, t, 2)
        PROVE decode_presence(b) =
                 {[anon8 |-> anon8(id), battery |-> battery, evid_src |-> source]}
    OBVIOUS
  <2>2. b[ANON8_BYTES + 1] = battery /\ b[ANON8_BYTES + 2] = source
    BY <1>3, <2>1 DEF IsFrame
  <2>. QED
    BY <2>1, <2>2 DEF IsFrame, decode_presence, Sized
<1>. QED
    BY <1>1, <1>2, <1>4, <1>5

LEMMA CheckpointIsRead ==
    ASSUME NEW id
    PROVE  decode_checkpoint(anon8(id) \o u16le(node_num)) =
              {[anon8 |-> anon8(id), checkpoint_node |-> node_num]}
<1>1. node_num \in 0..(BYTE * BYTE) - 1 /\ node_num \in Int
    BY Squares, FirstHopAssumption
<1>2. PICK t : t = u16le(node_num)
    OBVIOUS
<1>3. /\ t \in Seq(Int) /\ Len(t) = 2
      /\ t[1] = Octet(node_num) /\ t[2] = Octet(node_num \div BYTE)
    BY <1>1, <1>2, OctetTypes DEF u16le
<1>4. IsFrame(anon8(id) \o t, id, t, 2)
    BY <1>3, FrameIsRead
<1>5. \A b : IsFrame(b, id, t, 2) =>
         decode_checkpoint(b) = {[anon8 |-> anon8(id), checkpoint_node |-> node_num]}
  <2>1. SUFFICES ASSUME NEW b, IsFrame(b, id, t, 2)
        PROVE decode_checkpoint(b) = {[anon8 |-> anon8(id), checkpoint_node |-> node_num]}
    OBVIOUS
  <2>2. b[ANON8_BYTES + 1] = Octet(node_num) /\ b[ANON8_BYTES + 2] = Octet(node_num \div BYTE)
    BY <1>3, <2>1 DEF IsFrame
  <2>3. rd_u16le(b, ANON8_BYTES) = node_num
    BY <1>1, <2>2, U16Read, CompactAssumption
  <2>. QED
    BY <2>1, <2>3 DEF IsFrame, decode_checkpoint, Sized
<1>. QED
    BY <1>2, <1>4, <1>5

\* b is the id, an octet, and t, of n octets, after them.
IsSosFrame(b, id, safety, t, n) ==
    /\ Len(b) = ANON8_BYTES + 1 + n /\ SubSeq(b, 1, ANON8_BYTES) = anon8(id)
    /\ b[ANON8_BYTES + 1] = safety
    /\ \A k \in 1..n : b[(ANON8_BYTES + 1) + k] = t[k]

LEMMA JoinedTwice ==
    ASSUME NEW S, NEW n, NEW id, NEW safety, NEW head, NEW t, NEW b,
           anon8(id) \in Seq(S), Len(anon8(id)) = ANON8_BYTES,
           Joined(head, S, anon8(id), <<safety>>, ANON8_BYTES, 1),
           Joined(b, S, head, t, ANON8_BYTES + 1, n)
    PROVE  IsSosFrame(b, id, safety, t, n)
<1>1. PICK m, a : /\ m = ANON8_BYTES /\ a = anon8(id) /\ a \in Seq(S) /\ Len(a) = m
                  /\ Joined(head, S, a, <<safety>>, m, 1)
                  /\ Joined(b, S, head, t, m + 1, n)
    OBVIOUS
<1>2. PICK one : one = <<safety>> /\ one[1] = safety
    OBVIOUS
<1>3. /\ head \in Seq(S) /\ m \in Nat /\ Len(head) = m + 1
      /\ \A k \in 1..m : head[k] = a[k]
      /\ \A k \in 1..1 : head[m + k] = one[k]
    BY <1>1, <1>2 DEF Joined
<1>4. /\ b \in Seq(S) /\ n \in Nat /\ Len(b) = (m + 1) + n
      /\ \A k \in 1..m + 1 : b[k] = head[k]
      /\ \A k \in 1..n : b[(m + 1) + k] = t[k]
    BY <1>1 DEF Joined
<1>5. head[m + 1] = safety
    BY <1>2, <1>3
<1>6. b[m + 1] = safety /\ \A k \in 1..m : b[k] = a[k]
    BY <1>3, <1>4, <1>5
<1>7. a = [k \in 1..m |-> a[k]] /\ SubSeq(b, 1, m) = [k \in 1..m |-> b[k]]
    BY <1>1, <1>3, <1>4
<1>. QED
    BY <1>1, <1>4, <1>6, <1>7 DEF IsSosFrame

LEMMA SosFrame ==
    ASSUME NEW id, NEW safety \in Int, NEW t \in Seq(Int), NEW n, Len(t) = n
    PROVE  IsSosFrame(anon8(id) \o <<safety>> \o t, id, safety, t, n)
<1>1. PICK S : Int \subseteq S /\ anon8(id) \in Seq(S) /\ Len(anon8(id)) = ANON8_BYTES
    BY IdIsASequence
<1>2. <<safety>> \in Seq(S) /\ Len(<<safety>>) = 1 /\ t \in Seq(S)
    BY <1>1
<1>3. PICK head, b : head = anon8(id) \o <<safety>> /\ b = head \o t
    OBVIOUS
<1>4. Joined(head, S, anon8(id), <<safety>>, ANON8_BYTES, 1)
    BY <1>1, <1>2, <1>3, Joins
<1>5. head \in Seq(S) /\ Len(head) = ANON8_BYTES + 1
    BY <1>4 DEF Joined
<1>6. Joined(b, S, head, t, ANON8_BYTES + 1, n)
    BY <1>2, <1>3, <1>5, Joins
<1>7. IsSosFrame(b, id, safety, t, n)
    BY <1>1, <1>4, <1>6, JoinedTwice
<1>. QED
    BY <1>3, <1>7

LEMMA SosIsRead ==
    ASSUME NEW id, NEW safety \in 0..BYTE - 1, NEW src \in 0..BYTE - 1,
           NEW lat \in Coordinates, NEW lng \in Coordinates, NEW acc \in Nat, NEW age \in Nat
    PROVE  decode_sos(anon8(id) \o <<Octet(safety)>> \o encode_loc13(src, lat, lng, acc, age)) =
              {[anon8 |-> anon8(id), safety |-> safety,
                loc |-> [src |-> src, lat_e7 |-> lat, lng_e7 |-> lng,
                         acc_m |-> Fitting(acc), age_s |-> Fitting(age)]]}
<1>1. BYTE \in Nat \ {0} /\ U32 \in Nat \ {0} /\ ANON8_BYTES + 1 \in Nat
    BY Squares, CompactAssumption
<1>2. src \in Int /\ lat \in Int /\ lng \in Int /\ Octet(safety) = safety /\ safety \in Int
    BY <1>1, OctetTypes DEF Coordinates
<1>3. PICK loc : loc = encode_loc13(src, lat, lng, acc, age)
    OBVIOUS
<1>4. IsLocation(loc, src, lat, lng, acc, age)
    BY <1>2, <1>3, Loc13Octets
<1>5. loc \in Seq(Int) /\ Len(loc) = LOC13_BYTES
    BY <1>4 DEF IsLocation
<1>6. IsSosFrame(anon8(id) \o <<safety>> \o loc, id, safety, loc, LOC13_BYTES)
    BY <1>2, <1>5, SosFrame
<1>7. ASSUME NEW b, IsSosFrame(b, id, safety, loc, LOC13_BYTES)
      PROVE  decode_sos(b) =
              {[anon8 |-> anon8(id), safety |-> safety,
                loc |-> [src |-> src, lat_e7 |-> lat, lng_e7 |-> lng,
                         acc_m |-> Fitting(acc), age_s |-> Fitting(age)]]}
  <2>1. /\ Len(b) = ANON8_BYTES + 1 + LOC13_BYTES /\ SubSeq(b, 1, ANON8_BYTES) = anon8(id)
        /\ b[ANON8_BYTES + 1] = safety
        /\ IsLocationAt(b, ANON8_BYTES + 1, encode_loc13(src, lat, lng, acc, age))
    BY <1>3, <1>7 DEF IsSosFrame, IsLocationAt
  <2>2. decode_loc13(b, ANON8_BYTES + 1) =
           [src |-> src, lat_e7 |-> lat, lng_e7 |-> lng,
            acc_m |-> Fitting(acc), age_s |-> Fitting(age)]
    BY <1>1, <2>1, LocationIsRead
  <2>. QED
    BY <2>1, <2>2 DEF decode_sos, Sized
<1>. QED
    BY <1>2, <1>3, <1>6, <1>7

\* What the phone puts of a report in the location of its payload.
LEMMA LocationFields ==
    ASSUME NEW report, NEW at
    PROVE  LET location == LocationOf(report, at)
           IN /\ location.source = report.source
              /\ location.lat_e7 = report.lat_e7 /\ location.lng_e7 = report.lng_e7
              /\ location.accuracy_m = report.acc_m /\ location.observed_at.ms = at
<1>1. {"source", "lat_e7", "lng_e7", "accuracy_m", "observed_at"} \subseteq
         DOMAIN blank("LocationEvidence")
    BY CodecContract
<1>. QED
    BY <1>1 DEF LocationOf, Hlc

LEMMA OctetsOfAnAnon ==
    \A anon \in {0, OwnAnon} : /\ anon8(Octets(anon)) = Octets(anon)
                               /\ Octets(anon) \in {anon8(anon_user_id), Octets(0)}
<1>1. ASSUME NEW anon
      PROVE  anon8(Octets(anon)) = Octets(anon)
  <2>1. PICK o : o = Octets(anon)
    OBVIOUS
  <2>2. ANON8_BYTES \in Nat
    BY CompactAssumption
  <2>3. o = [k \in 1..ANON8_BYTES |-> o[k]]
    BY <2>1 DEF Octets
  <2>4. Len(o) = ANON8_BYTES
    BY <2>2, <2>3
  <2>5. anon8(o) = [k \in 1..ANON8_BYTES |-> o[k]]
    BY <2>2, <2>4 DEF anon8
  <2>. QED
    BY <2>1, <2>3, <2>5
<1>2. Octets(OwnAnon) = anon8(anon_user_id)
    BY HashAssumption DEF OwnAnon
<1>. QED
    BY <1>1, <1>2

\* The age of an SOS, in whole seconds, is what its reader gets, or the most.
LEMMA AgeIsWritten ==
    ASSUME NEW observed \in Nat, NEW now \in Nat, now >= observed
    PROVE  /\ (now - observed) \div SECOND_MS \in Nat
           /\ age_seconds(observed, now) = Fitting((now - observed) \div SECOND_MS)
           /\ age_seconds(observed, now) \in Nat
           /\ Fitting(age_seconds(observed, now)) = age_seconds(observed, now)
<1>1. PICK d, s : d = now - observed /\ s = SECOND_MS
    OBVIOUS
<1>2. d \in Nat /\ s \in Nat \ {0}
    BY <1>1, CompactAssumption
<1>3. d \div s \in Nat
  <2>1. d \div s \in Int /\ d % s \in 0..s - 1 /\ d = s * (d \div s) + (d % s)
    BY <1>2, Divided
  <2>2. \A q \in Int : q <= -1 => s * q <= -s
    BY <1>2
  <2>3. ~(d \div s <= -1)
    BY <1>2, <2>1, <2>2
  <2>. QED
    BY <2>1, <2>3
<1>4. PICK v : v = d \div s
    OBVIOUS
<1>5. sat_u16(v) = Fitting(v) /\ Fitting(v) \in 0..(BYTE * BYTE) - 1 /\ Fitting(Fitting(v)) = Fitting(v)
    BY <1>3, <1>4, Fits
<1>6. Fitting(v) \in Nat
    BY <1>5, Squares
<1>7. age_seconds(observed, now) = sat_u16(v)
    BY <1>1, <1>4 DEF age_seconds
<1>. QED
    BY <1>1, <1>3, <1>4, <1>5, <1>6, <1>7

(* What a reader of the compact payload of a queued event learns is what    *)
(* the phone reported, coordinates with their signs, and of a number too    *)
(* large for its field the most it holds; an SOS bears the phone's own      *)
(* anonymous id or none (actors.py, SimNode._translate; wire/compact.py).   *)
THEOREM ReadingsAreFaithful == Spec => []ReadingIsFaithful
<1>1. ASSUME Inv, NEW e \in queue PROVE ReadsAsReported(e.id)
  <2>1. IsPayload(e.id) /\ PhoneInv
    BY <1>1 DEF Inv, NodeHolds
  <2>2. PICK report, at, payload, typed, own :
           /\ report = reported[e.id].report /\ at = reported[e.id].at
           /\ payload = payloads[e.id] /\ typed = TypedPayload(report, at)
           /\ own = anon8(anon_user_id)
    OBVIOUS
  <2>3. /\ e.id \in DOMAIN reported /\ ~report.expired
        /\ payload.at \in Nat /\ payload.at >= at
        /\ \/ report.kind = "presence" /\ payload.octets = presence_from_typed(typed)
           \/ report.kind = "checkpoint"
                 /\ payload.octets = checkpoint_from_typed(typed, node_num)
           \/ report.kind = "sos" /\ \E anon \in {0, OwnAnon} :
                 payload.octets = sos_from_typed(typed, Octets(anon), payload.at)
    BY <2>1, <2>2 DEF IsPayload
  <2>4. PICK n \in DOMAIN signed : IsSigning(e.id, n)
    BY <2>1, <2>3 DEF PhoneInv, ReportsAreSigned
  <2>5. Occasion(report, at, n) /\ reported[e.id].envelope = Unsealed(report, at, n)
    BY <2>2, <2>4 DEF IsSigning
  <2>6. report \in Reports /\ at \in Nat
    BY <2>5, OccasionTypes
  <2>7. /\ report.source \in 0..BYTE - 1 /\ report.value \in 0..BYTE - 1
        /\ report.lat_e7 \in Coordinates /\ report.lng_e7 \in Coordinates
        /\ report.acc_m \in Nat
    BY <2>6 DEF Reports
  <2>8. PICK location : location = LocationOf(report, at)
    OBVIOUS
  <2>9. /\ location.source = report.source
        /\ location.lat_e7 = report.lat_e7 /\ location.lng_e7 = report.lng_e7
        /\ location.accuracy_m = report.acc_m /\ location.observed_at.ms = at
    BY <2>8, LocationFields
  <2>10. reported[e.id].envelope.created_at_hlc[1].ms = at
    BY <2>3, <2>5, ReportSeen
  <2>11. CASE report.kind = "presence"
    <3>1. typed = [anon_user_id |-> anon_user_id, location |-> location,
                   battery_hint |-> report.value]
        BY <2>2, <2>8, <2>11 DEF TypedPayload
    <3>2. payload.octets = anon8(anon_user_id) \o <<Octet(report.value), Octet(report.source)>>
        BY <2>3, <2>9, <2>11, <3>1 DEF presence_from_typed
    <3>3. decode_presence(payload.octets) =
             {[anon8 |-> own, battery |-> report.value, evid_src |-> report.source]}
        BY <2>2, <2>7, <3>2, PresenceIsRead
    <3>. QED
        BY <2>2, <2>11, <3>3 DEF ReadsAsReported
  <2>12. CASE report.kind = "checkpoint"
    <3>1. typed = [anon_user_id |-> anon_user_id, checkpoint_id |-> <<1, 2>>,
                   location |-> location]
        BY <2>2, <2>8, <2>12 DEF TypedPayload
    <3>2. payload.octets = anon8(anon_user_id) \o u16le(node_num)
        BY <2>3, <2>12, <3>1 DEF checkpoint_from_typed
    <3>3. decode_checkpoint(payload.octets) = {[anon8 |-> own, checkpoint_node |-> node_num]}
        BY <2>2, <3>2, CheckpointIsRead
    <3>. QED
        BY <2>2, <2>12, <3>3 DEF ReadsAsReported
  <2>13. CASE report.kind = "sos"
    <3>1. typed = [safety_state |-> report.value, needs |-> <<>>, location |-> <<location>>]
        BY <2>2, <2>8, <2>13 DEF TypedPayload
    <3>2. PICK anon \in {0, OwnAnon} :
             payload.octets = sos_from_typed(typed, Octets(anon), payload.at)
        BY <2>3, <2>13
    <3>3. PICK id : id = Octets(anon) /\ anon8(id) = id /\ id \in {own, Octets(0)}
        BY <2>2, OctetsOfAnAnon
    <3>4. PICK age : age = age_seconds(at, payload.at)
        OBVIOUS
    <3>5. age \in Nat /\ Fitting(age) = Fitting((payload.at - at) \div SECOND_MS)
        BY <2>3, <2>6, <3>4, AgeIsWritten
    <3>6. loc13_from_evidence(<<location>>, payload.at) =
             encode_loc13(report.source, report.lat_e7, report.lng_e7, report.acc_m, age)
        BY <2>9, <3>4 DEF loc13_from_evidence
    <3>7. typed.safety_state = report.value /\ typed.location = <<location>>
        BY <3>1
    <3>8. payload.octets = anon8(id) \o <<Octet(report.value)>>
             \o encode_loc13(report.source, report.lat_e7, report.lng_e7, report.acc_m, age)
        BY <3>2, <3>3, <3>6, <3>7 DEF sos_from_typed
    <3>9. decode_sos(payload.octets) =
             {[anon8 |-> anon8(id), safety |-> report.value,
               loc |-> [src |-> report.source, lat_e7 |-> report.lat_e7,
                        lng_e7 |-> report.lng_e7, acc_m |-> Fitting(report.acc_m),
                        age_s |-> Fitting(age)]]}
        BY <2>7, <3>5, <3>8, SosIsRead
    <3>10. \E other \in {own, Octets(0)} :
              decode_sos(payload.octets) =
                {[anon8 |-> other, safety |-> report.value,
                  loc |-> [src |-> report.source, lat_e7 |-> report.lat_e7,
                           lng_e7 |-> report.lng_e7, acc_m |-> Fitting(report.acc_m),
                           age_s |-> Fitting((payload.at - at) \div SECOND_MS)]]}
        BY <3>3, <3>5, <3>9
    <3>. QED
        BY <2>2, <2>10, <2>13, <3>10 DEF ReadsAsReported
  <2>. QED
    BY <2>3, <2>11, <2>12, <2>13
<1>2. Inv => ReadingIsFaithful
    BY <1>1 DEF ReadingIsFaithful
<1>. QED
    BY <1>2, InvHolds, PTL
=============================================================================
