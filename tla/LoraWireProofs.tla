---------------------------- MODULE LoraWireProofs ---------------------------
(***************************************************************************)
(* What a receiver of LORA-WIRE frames accepts and what its replay ring    *)
(* learns, for all senders, keys, sizes and clocks.  The inductive         *)
(* invariant is that the seals hold of what a sender asked for and of      *)
(* nothing the radio made of it.                                           *)
(***************************************************************************)
EXTENDS LoraWire, SharedLemmas

(* What cutting a number to a width leaves is the number itself, or it is   *)
(* less than the width; it is never one less than the number.               *)
LEMMA CutToWidth ==
  ASSUME NEW n \in Nat, NEW w \in Nat \ {0}
  PROVE  /\ n % w \in Nat
         /\ n = 0 => n % w = 0
         /\ w > 1 => n % w # n - 1
<1>1. n % w \in 0..w - 1
  OBVIOUS
<1>2. n < w => n % w = n
  OBVIOUS
<1>3. w % w = 0
  OBVIOUS
<1>4. n = 0 => n % w = 0
  OBVIOUS
<1>5. w > 1 /\ n > w => n % w # n - 1
  BY <1>1
<1>6. w > 1 /\ n = w => n % w # n - 1
  BY <1>3
<1>7. w > 1 /\ n < w => n % w # n - 1
  BY <1>2
<1> QED
  BY <1>1, <1>4, <1>5, <1>6, <1>7

(* A flipped octet is another one. *)
LEMMA FlipChanges ==
  ASSUME NEW v \in Nat
  PROVE  FlipOctet(v) # v
<1> DEFINE octet == v % BYTE
<1>1. BYTE \in Nat \ {0} /\ BYTE % 2 = 0
  BY WireAssumption DEF MAX_PAYLOAD_BYTES
<1>2. octet \in Int
  BY <1>1
<1>3. BYTE - 1 # 2 * octet
  BY <1>1, <1>2
<1> HIDE DEF octet
<1>4. v + BYTE - 1 - 2 * octet # v
  BY <1>1, <1>2, <1>3
<1> QED
  BY <1>4 DEF FlipOctet, octet

-----------------------------------------------------------------------------
(* The checks that ask for neither the time nor the ring all hold of f. *)
Sound(f) ==
  /\ f.hdr.version = WIRE_VERSION
  /\ f.hdr.ptype \in {PTYPE_EVENT, PTYPE_ACK}
  /\ IsEvent(f) => ~(f.body.payload_len > MAX_PAYLOAD_BYTES)
  /\ f.size = ExpectedSize(f)
  /\ CrcHolds(f) /\ MacHolds(f)
  /\ f.hdr.ttl # 0

(* verify_lora_frame drops a frame unless every check holds, whatever the   *)
(* order of the checks.                                                     *)
LEMMA VerdictIsSound ==
  ASSUME NEW f, NEW est, Verdict(f, est) = ACCEPTED
  PROVE  Sound(f) /\ (IsEvent(f) => f.body.event_id \notin seen)
<1> DEFINE checks == Checks(f, est)
           failing == {k \in DOMAIN checks : checks[k][2]}
           first == CHOOSE k \in failing : \A j \in failing : k <= j
<1>1. DOMAIN checks = 1..12
  BY DEF Checks
<1>2. ASSUME NEW k \in 1..12
      PROVE  checks[k][1] # ACCEPTED
  <2>1. k = 1 \/ k = 2 \/ k = 3 \/ k = 4 \/ k = 5 \/ k = 6 \/ k = 7 \/ k = 8
          \/ k = 9 \/ k = 10 \/ k = 11 \/ k = 12
    OBVIOUS
  <2> QED
    BY <2>1 DEF Checks, ACCEPTED
<1>3. Verdict(f, est) = IF failing = {} THEN ACCEPTED ELSE checks[first][1]
  BY DEF Verdict
<1>4. /\ checks[2][2] = (f.hdr.version # WIRE_VERSION)
      /\ checks[3][2] = (f.hdr.ptype \notin {PTYPE_EVENT, PTYPE_ACK})
      /\ checks[5][2] = (IsEvent(f) /\ f.body.payload_len > MAX_PAYLOAD_BYTES)
      /\ checks[7][2] = (f.size # ExpectedSize(f))
      /\ checks[8][2] = (~CrcHolds(f))
      /\ checks[9][2] = (~MacHolds(f))
      /\ checks[10][2] = (f.hdr.ttl = 0)
      /\ checks[12][2] = (IsEvent(f) /\ f.body.event_id \in seen)
  BY DEF Checks
<1> HIDE DEF checks
<1>5. failing = {}
  <2> SUFFICES ASSUME failing # {}
               PROVE  FALSE
    OBVIOUS
  <2>1. failing \subseteq Nat
    BY <1>1
  <2>2. \E n \in failing : \A m \in failing : n <= m
    BY <2>1, LeastNatural
  <2>3. first \in failing
    BY <2>2
  <2> HIDE DEF first
  <2>4. first \in 1..12
    BY <1>1, <2>3
  <2> QED
    BY <1>2, <1>3, <2>4
<1>6. \A k \in 1..12 : ~checks[k][2]
  BY <1>1, <1>5
<1>7. /\ ~checks[2][2] /\ ~checks[3][2] /\ ~checks[5][2] /\ ~checks[7][2]
      /\ ~checks[8][2] /\ ~checks[9][2] /\ ~checks[10][2] /\ ~checks[12][2]
  BY <1>6
<1> QED
  BY <1>4, <1>7 DEF Sound

-----------------------------------------------------------------------------
(* The frames the encoders make of what asked holds. *)
FrameOf ==
  \/ /\ asked.body \in EventBodies
     /\ \/ frame = EventFrame(asked.hdr, asked.body, asked.key)
        \/ frame \in OtherFrames(asked.hdr, asked.body, asked.key)
  \/ /\ asked.body \in AckBodies
     /\ frame = AckFrame(asked.hdr, asked.body, asked.key)

(* A frame as it was sent carries what its sender asked for; one the radio   *)
(* damaged passes no longer, and what was accepted passes.                   *)
WireInv ==
  /\ asked.hdr \in Headers /\ asked.key \in Keys
  /\ damage = NONE => FrameOf
  /\ damage # NONE => ~Sound(frame)
  /\ reason = ACCEPTED => Sound(frame)

(* A sound frame that nothing damaged is the whole of what a sender with    *)
(* the receiver's key asked for.                                            *)
LEMMA SoundIsAsAsked ==
  ASSUME WireInv, Sound(frame)
  PROVE  /\ damage = NONE /\ asked.key = LORA_MAC_KEY
         /\ frame.hdr.version = WIRE_VERSION
         /\ asked.hdr.ttl > 0 /\ frame.hdr.ttl > 0
         /\ IsEvent(frame) =>
               /\ frame.body.event_id = asked.body.event_id
               /\ frame.body.payload_len = asked.body.payload_len
               /\ asked.body.payload_len <= MAX_PAYLOAD_BYTES
<1>1. damage = NONE /\ FrameOf /\ asked.hdr \in Headers
  BY DEF WireInv
<1>2. /\ frame.hdr.version = WIRE_VERSION /\ frame.hdr.ptype \in {PTYPE_EVENT, PTYPE_ACK}
      /\ frame.mac.key = LORA_MAC_KEY /\ frame.hdr.ttl # 0
      /\ frame.size = ExpectedSize(frame)
      /\ IsEvent(frame) => ~(frame.body.payload_len > MAX_PAYLOAD_BYTES)
  BY DEF Sound, MacHolds
<1>3. BYTE \in Nat \ {0} /\ asked.hdr.ttl \in Nat
  BY <1>1, WireAssumption, SendersAssumption DEF MAX_PAYLOAD_BYTES
<1>4. /\ asked.hdr.ttl % BYTE \in Nat
      /\ asked.hdr.ttl = 0 => asked.hdr.ttl % BYTE = 0
  BY <1>3, CutToWidth
<1>5. CASE asked.body \in EventBodies /\ frame = EventFrame(asked.hdr, asked.body, asked.key)
  <2>1. /\ frame.hdr.ttl = asked.hdr.ttl % BYTE /\ frame.mac.key = asked.key
        /\ frame.hdr.ptype = PTYPE_EVENT
        /\ frame.size = EVENT_MIN_FRAME_BYTES + asked.body.payload_len
        /\ frame.body.event_id = asked.body.event_id
        /\ frame.body.payload_len = asked.body.payload_len % BYTE
    BY <1>5 DEF EventFrame, Seal, Header, EventBody
  <2>2. asked.body.payload_len \in Nat
    BY <1>5, SendersAssumption
  <2>3. asked.body.payload_len % BYTE \in Nat
    BY <1>3, <2>2, CutToWidth
  <2>4. asked.body.payload_len = asked.body.payload_len % BYTE
    BY <1>2, <2>1, <2>2, <2>3
       DEF ExpectedSize, IsEvent, EVENT_MIN_FRAME_BYTES, HDR_BYTES, SEAL_BYTES
  <2> QED
    BY <1>1, <1>2, <1>3, <1>4, <2>1, <2>2, <2>4 DEF IsEvent, MAX_PAYLOAD_BYTES
<1>6. CASE asked.body \in AckBodies /\ frame = AckFrame(asked.hdr, asked.body, asked.key)
  <2>1. /\ frame.hdr.ttl = asked.hdr.ttl % BYTE /\ frame.mac.key = asked.key
        /\ frame.hdr.ptype = PTYPE_ACK
    BY <1>6 DEF AckFrame, Seal, Header
  <2> QED
    BY <1>1, <1>2, <1>3, <1>4, <2>1 DEF IsEvent, PTYPE_ACK, PTYPE_EVENT
<1>7. frame \notin OtherFrames(asked.hdr, asked.body, asked.key)
  <2> SUFFICES ASSUME frame \in OtherFrames(asked.hdr, asked.body, asked.key)
               PROVE  FALSE
    OBVIOUS
  <2>1. frame.hdr.version = WIRE_VERSION + 1 \/ frame.hdr.ptype = PTYPE_ACK + 1
    BY DEF OtherFrames, Seal, Header
  <2> QED
    BY <1>2, <2>1 DEF WIRE_VERSION, PTYPE_ACK, PTYPE_EVENT
<1> QED
  BY <1>1, <1>5, <1>6, <1>7 DEF FrameOf

LEMMA InitWire ==
  Init => WireInv
BY DEF Init, WireInv, FrameOf, ON_AIR, ACCEPTED

(* Every body field on air is a number. *)
LEMMA BodiesAreNumbers ==
  ASSUME FrameOf
  PROVE  \A field \in DOMAIN frame.body : frame.body[field] \in Nat
<1>1. \A n \in Nat : n % BYTE \in Nat /\ n % U16 \in Nat /\ n % U48 \in Nat
  BY CutToWidth, WireAssumption DEF MAX_PAYLOAD_BYTES
<1>2. ASSUME NEW b \in EventBodies
      PROVE  EventBody(b) \in [event_id : Nat, priority : Nat, hlc_ms : Nat,
                               payload_len : Nat, payload : Nat]
  BY <1>1, SendersAssumption DEF EventBody
<1>3. CASE asked.body \in EventBodies /\ frame.body = EventBody(asked.body)
  <2>1. \A r \in [event_id : Nat, priority : Nat, hlc_ms : Nat,
                  payload_len : Nat, payload : Nat] :
           \A field \in DOMAIN r : r[field] \in Nat
    OBVIOUS
  <2> QED
    BY <1>2, <1>3, <2>1
<1>4. CASE /\ asked.body \in AckBodies
           /\ frame.body = [ack_seq |-> asked.body.ack_seq % U16,
                            event_id_prefix |-> asked.body.event_id_prefix,
                            status |-> asked.body.status % BYTE]
  <2>1. asked.body \in [ack_seq : Nat, event_id_prefix : Nat, status : Nat]
    BY <1>4, SendersAssumption
  <2> QED
    BY <1>1, <1>4, <2>1
<1> QED
  BY <1>3, <1>4 DEF FrameOf, EventFrame, OtherFrames, AckFrame, Seal

(* Octets flipped break a seal: the CRC, or the MAC when it is the MAC's. *)
LEMMA GarbledIsUnsound ==
  ASSUME FrameOf, NEW g \in Garblings(frame)
  PROVE  ~Sound(g)
<1>1. CASE g = [frame EXCEPT !.mac.key = FLIPPED]
  <2>1. g.mac.key = FLIPPED
    BY <1>1 DEF FrameOf, EventFrame, OtherFrames, AckFrame, Seal
  <2> QED
    BY <2>1, WireAssumption DEF Sound, MacHolds
<1>2. ASSUME NEW field \in DOMAIN frame.body,
             g = [frame EXCEPT !.body[field] = FlipOctet(@)]
      PROVE  ~Sound(g)
  <2>1. frame.body[field] \in Nat
    BY BodiesAreNumbers
  <2>2. g.body[field] # frame.body[field]
    BY <1>2, <2>1, FlipChanges
       DEF FrameOf, EventFrame, OtherFrames, AckFrame, Seal
  <2>3. frame.crc = <<frame.hdr, frame.body, frame.mac>> /\ g.crc = frame.crc
    BY <1>2 DEF FrameOf, EventFrame, OtherFrames, AckFrame, Seal
  <2> QED
    BY <2>2, <2>3 DEF Sound, CrcHolds
<1> QED
  BY <1>1, <1>2 DEF Garblings

(* A frame that lacks its end does not have the size its fields ask for. *)
LEMMA CutIsUnsound ==
  ASSUME FrameOf, NEW size \in {0, HDR_BYTES, frame.size - 1}
  PROVE  ~Sound([frame EXCEPT !.size = size])
<1> DEFINE g == [frame EXCEPT !.size = size]
<1>1. /\ g.size = size /\ g.hdr = frame.hdr /\ g.body = frame.body
      /\ ExpectedSize(g) = ExpectedSize(frame)
  BY DEF FrameOf, EventFrame, OtherFrames, AckFrame, Seal, ExpectedSize, IsEvent
<1> HIDE DEF g
<1>2. ASSUME asked.body \in EventBodies, frame.body = EventBody(asked.body),
             frame.size = EVENT_MIN_FRAME_BYTES + asked.body.payload_len,
             frame.hdr.ptype # PTYPE_ACK
      PROVE  ~Sound(g)
  <2>1. asked.body.payload_len \in Nat
    BY <1>2, SendersAssumption
  <2>2. /\ asked.body.payload_len % BYTE \in Nat
        /\ asked.body.payload_len % BYTE # asked.body.payload_len - 1
    BY <2>1, CutToWidth, WireAssumption DEF MAX_PAYLOAD_BYTES
  <2>3. frame.body.payload_len = asked.body.payload_len % BYTE
    BY <1>2 DEF EventBody
  <2>4. CASE frame.hdr.ptype = PTYPE_EVENT
    <3>1. ExpectedSize(frame) = EVENT_MIN_FRAME_BYTES + (asked.body.payload_len % BYTE)
      BY <2>3, <2>4 DEF ExpectedSize, IsEvent, PTYPE_EVENT
    <3>2. /\ EVENT_MIN_FRAME_BYTES > HDR_BYTES /\ HDR_BYTES > 0
          /\ EVENT_MIN_FRAME_BYTES \in Nat
      BY DEF EVENT_MIN_FRAME_BYTES, HDR_BYTES, SEAL_BYTES
    <3>3. size # EVENT_MIN_FRAME_BYTES + (asked.body.payload_len % BYTE)
      BY <1>2, <2>1, <2>2, <3>2 DEF HDR_BYTES
    <3> QED
      BY <1>1, <3>1, <3>3 DEF Sound
  <2> QED
    BY <1>1, <1>2, <2>4 DEF Sound
<1>3. CASE asked.body \in AckBodies /\ frame = AckFrame(asked.hdr, asked.body, asked.key)
  <2>1. frame.size = ACK_FRAME_BYTES /\ frame.hdr.ptype = PTYPE_ACK
    BY <1>3 DEF AckFrame, Seal, Header
  <2>2. ExpectedSize(g) = ACK_FRAME_BYTES
    BY <1>1, <2>1 DEF ExpectedSize, IsEvent, PTYPE_ACK, PTYPE_EVENT
  <2> QED
    BY <1>1, <2>1, <2>2 DEF Sound, ACK_FRAME_BYTES, HDR_BYTES, g
<1>4. CASE /\ asked.body \in EventBodies
           /\ \/ frame = EventFrame(asked.hdr, asked.body, asked.key)
              \/ frame \in OtherFrames(asked.hdr, asked.body, asked.key)
  <2>1. /\ frame.body = EventBody(asked.body)
        /\ frame.size = EVENT_MIN_FRAME_BYTES + asked.body.payload_len
        /\ frame.hdr.ptype # PTYPE_ACK
    BY <1>4 DEF EventFrame, OtherFrames, Seal, Header, PTYPE_ACK, PTYPE_EVENT
  <2> QED
    BY <1>2, <1>4, <2>1 DEF g
<1> QED
  BY <1>3, <1>4 DEF FrameOf, g

-----------------------------------------------------------------------------
LEMMA StepWire ==
  WireInv /\ [Next]_vars => WireInv'
<1> SUFFICES ASSUME WireInv, [Next]_vars
             PROVE  WireInv'
  OBVIOUS
<1> USE DEF WireInv
<1>1. CASE SendsEvent
  BY <1>1 DEF SendsEvent, Asks, FrameOf, ON_AIR, ACCEPTED
<1>2. CASE SendsAck
  BY <1>2 DEF SendsAck, Asks, FrameOf, ON_AIR, ACCEPTED
<1>3. CASE SendsOther
  BY <1>3 DEF SendsOther, Asks, FrameOf, ON_AIR, ACCEPTED
<1>4. CASE Garbles
  BY <1>4, GarbledIsUnsound DEF Garbles, ON_AIR, ACCEPTED, NONE, FLIPPED
<1>5. CASE CutShort
  BY <1>5, CutIsUnsound DEF CutShort, ON_AIR, ACCEPTED, NONE
<1>6. CASE ComesAgain
  BY <1>6 DEF ComesAgain, FrameOf, Sound, CrcHolds, MacHolds, ON_AIR, ACCEPTED
<1>7. ASSUME NEW local_est_ms \in Clocks, Receives(local_est_ms)
      PROVE  WireInv'
  <2>1. reason' = ACCEPTED => Sound(frame)
    BY <1>7, VerdictIsSound DEF Receives
  <2> QED
    BY <1>7, <2>1 DEF Receives, FrameOf
<1>8. CASE UNCHANGED vars
  BY <1>8 DEF vars, FrameOf
<1> QED
  BY <1>1, <1>2, <1>3, <1>4, <1>5, <1>6, <1>7, <1>8 DEF Next

(* What verify_lora_frame accepts is what a sender of the receiver's own    *)
(* field asked for, whole.                                                  *)
THEOREM AcceptsAsAsked ==
  Spec => []AcceptedIsAsAsked
<1>1. WireInv => AcceptedIsAsAsked
  BY SoundIsAsAsked DEF WireInv, AcceptedIsAsAsked
<1> QED
  BY <1>1, InitWire, StepWire, PTL DEF Spec

(* The replay ring learns the id of an accepted EVENT only, and only once. *)
THEOREM RingLearnsAccepted ==
  Spec => RingLearnsAcceptedOnly
<1>1. ASSUME WireInv, [Next]_vars, seen' # seen
      PROVE  /\ reason' = ACCEPTED /\ seen' = seen \cup {asked.body.event_id}
             /\ asked.body.event_id \notin seen
  <2>1. PICK local_est_ms \in Clocks : Receives(local_est_ms)
    BY <1>1 DEF Next, vars, SendsEvent, SendsAck, SendsOther, Asks, Garbles, CutShort,
                ComesAgain
  <2>2. /\ Verdict(frame, local_est_ms) = ACCEPTED /\ reason' = ACCEPTED /\ IsEvent(frame)
        /\ seen' = seen \cup {frame.body.event_id}
    BY <1>1, <2>1 DEF Receives
  <2>3. Sound(frame) /\ frame.body.event_id \notin seen
    BY <2>2, VerdictIsSound
  <2> QED
    BY <1>1, <2>2, <2>3, SoundIsAsAsked
<1>2. WireInv /\ [Next]_vars =>
        [seen' # seen =>
            /\ reason' = ACCEPTED /\ seen' = seen \cup {asked.body.event_id}
            /\ asked.body.event_id \notin seen]_vars
  BY <1>1
<1> QED
  BY <1>2, InitWire, StepWire, PTL DEF Spec, RingLearnsAcceptedOnly
=============================================================================
