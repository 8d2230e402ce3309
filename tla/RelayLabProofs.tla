---------------------------- MODULE RelayLabProofs ---------------------------
(***************************************************************************)
(* What holds of the store-and-forward path under any driver, for all      *)
(* envelopes, queue sizes, budgets, profiles, delays and clocks.  The      *)
(* channel only matters through the set of frames it carries: reordering   *)
(* keeps it, draining moves a part of it to NodeB's hands.                 *)
(***************************************************************************)
EXTENDS RelayLab, SharedLemmas

(* A list shuffled, or sorted by due time, holds what it held (_reorder).   *)
LEMMA ShuffleKeeps ==
  ASSUME NEW S, NEW s \in Seq(S), NEW t \in Shuffles(s)
  PROVE  t \in Seq(S) /\ Range(t) = Range(s)
<1>1. PICK p \in Bijection(DOMAIN s, DOMAIN s) : t = [k \in DOMAIN s |-> s[p[k]]]
  BY DEF Shuffles
<1>2. /\ p \in [DOMAIN s -> DOMAIN s]
      /\ \A i \in DOMAIN s : \E k \in DOMAIN s : p[k] = i
  BY DEF Bijection, Surjection
<1>3. DOMAIN s = 1..Len(s) /\ Len(s) \in Nat /\ \A i \in DOMAIN s : s[i] \in S
  OBVIOUS
<1>4. t \in [1..Len(s) -> S]
  BY <1>1, <1>2, <1>3
<1>5. t \in Seq(S)
  BY <1>3, <1>4
<1>6. ASSUME NEW x \in Range(s)
      PROVE  x \in Range(t)
  <2>1. PICK i \in DOMAIN s : x = s[i]
    BY DEF Range
  <2>2. PICK k \in DOMAIN s : p[k] = i
    BY <1>2
  <2>3. k \in DOMAIN t /\ t[k] = x
    BY <1>1, <2>1, <2>2
  <2> QED
    BY <2>3 DEF Range
<1>7. Range(t) \subseteq Range(s)
  BY <1>1, <1>2 DEF Range
<1> QED
  BY <1>5, <1>6, <1>7

LEMMA SortKeeps ==
  ASSUME NEW S, NEW s \in Seq(S), \A d \in S : d.due_ms \in Int
  PROVE  SortedByDue(s) \in Seq(S) /\ Range(SortedByDue(s)) = Range(s)
<1> DEFINE P == DOMAIN s
           R == {ij \in P \X P : \/ s[ij[1]].due_ms < s[ij[2]].due_ms
                                 \/ s[ij[1]].due_ms = s[ij[2]].due_ms /\ ij[1] <= ij[2]}
           n == Cardinality(P)
           t == SortedByDue(s)
<1>1. P = 1..Len(s) /\ Len(s) \in Nat /\ DOMAIN s = P /\ \A i \in P : s[i] \in S
  OBVIOUS
<1>2. IsFiniteSet(P) /\ n = Len(s)
  BY <1>1, FS_Interval
<1>3. \A i, j \in P : <<i, j>> \in R <=> \/ s[i].due_ms < s[j].due_ms
                                         \/ s[i].due_ms = s[j].due_ms /\ i <= j
  OBVIOUS
<1>4. \A i \in P : i \in Int /\ s[i].due_ms \in Int
  BY <1>1
<1>5. \A i \in P : Place(s, i) = Cardinality(UpTo(P, R, i))
  BY <1>3 DEF Place, UpTo
<1> HIDE DEF R
<1>6. /\ \A i \in P : <<i, i>> \in R
      /\ \A i, j \in P : <<i, j>> \in R \/ <<j, i>> \in R
      /\ \A i, j \in P : <<i, j>> \in R /\ <<j, i>> \in R => i = j
      /\ \A i, j, k \in P : <<i, j>> \in R /\ <<j, k>> \in R => <<i, k>> \in R
  <2> HIDE DEF P
  <2>1. ASSUME NEW i \in P, NEW j \in P
        PROVE  /\ <<i, i>> \in R
               /\ <<i, j>> \in R \/ <<j, i>> \in R
               /\ <<i, j>> \in R /\ <<j, i>> \in R => i = j
    BY <1>3, <1>4
  <2>2. ASSUME NEW i \in P, NEW j \in P, NEW k \in P, <<i, j>> \in R, <<j, k>> \in R
        PROVE  <<i, k>> \in R
    <3>1. /\ i \in Int /\ j \in Int /\ k \in Int
          /\ s[i].due_ms \in Int /\ s[j].due_ms \in Int /\ s[k].due_ms \in Int
      BY <1>4
    <3>2. /\ s[i].due_ms < s[j].due_ms \/ (s[i].due_ms = s[j].due_ms /\ i <= j)
          /\ s[j].due_ms < s[k].due_ms \/ (s[j].due_ms = s[k].due_ms /\ j <= k)
      BY <1>3, <2>2
    <3>3. s[i].due_ms < s[k].due_ms \/ (s[i].due_ms = s[k].due_ms /\ i <= k)
      BY <3>1, <3>2
    <3> QED
      BY <1>3, <3>3
  <2> QED
    BY <2>1, <2>2
<1> HIDE DEF P
<1>7. /\ \A i, j \in P : Place(s, i) = Place(s, j) => i = j
      /\ \A k \in P : \E i \in P : Place(s, i) = k
      /\ \A i \in P : Place(s, i) \in P
  <2>1. /\ \A i \in P : Cardinality(UpTo(P, R, i)) \in 1..n
        /\ \A i, j \in P :
              Cardinality(UpTo(P, R, i)) = Cardinality(UpTo(P, R, j)) => i = j
        /\ \A k \in 1..n : \E i \in P : Cardinality(UpTo(P, R, i)) = k
    BY <1>2, <1>6, RanksAreANumbering
  <2> QED
    BY <1>1, <1>2, <1>5, <2>1
<1>8. t = [k \in P |-> s[CHOOSE i \in P : Place(s, i) = k]]
  BY DEF SortedByDue, P
<1> HIDE DEF t, n
<1>9. ASSUME NEW k \in P
      PROVE  \E i \in P : Place(s, i) = k /\ t[k] = s[i]
  BY <1>7, <1>8
<1>10. t \in [1..Len(s) -> S]
  <2>1. \A k \in P : s[CHOOSE i \in P : Place(s, i) = k] \in S
    BY <1>1, <1>7
  <2> QED
    BY <1>1, <1>8, <2>1
<1>11. t \in Seq(S) /\ DOMAIN t = P
  BY <1>1, <1>10
<1>12. Range(t) \subseteq Range(s)
  BY <1>1, <1>9, <1>11 DEF Range
<1>13. ASSUME NEW i \in P
       PROVE  s[i] \in Range(t)
  <2>1. Place(s, i) \in P
    BY <1>7
  <2>2. t[Place(s, i)] = s[i]
    BY <1>7, <1>9, <2>1
  <2> QED
    BY <1>11, <2>1, <2>2 DEF Range
<1>14. Range(s) \subseteq Range(t)
  BY <1>1, <1>13 DEF Range
<1> QED
  BY <1>11, <1>12, <1>14 DEF t

LEMMA ReorderedKeeps ==
  ASSUME NEW S, NEW s \in Seq(S), \A d \in S : d.due_ms \in Int,
         NEW t \in Reordered(s)
  PROVE  t \in Seq(S) /\ Range(t) = Range(s)
<1>1. t \in Shuffles(s) \/ t = SortedByDue(s)
  BY DEF Reordered
<1> QED
  BY <1>1, ShuffleKeeps, SortKeeps

Deliveries == [due_ms : Nat, frame : Frames]

(* Draining parts the deliveries in those that are due, whose frames it     *)
(* hands out, and those that stay (drain_ready).                            *)
LEMMA DrainParts ==
  ASSUME NEW S, pending \in Seq(S), NEW t, Drain(t)
  PROVE  /\ pending' \in Seq(S)
         /\ Ready(t) \in Seq({d.frame : d \in S})
         /\ Range(pending') = {d \in Range(pending) : ~(d.due_ms <= t)}
         /\ Range(Ready(t)) = {d.frame : d \in {e \in Range(pending) : e.due_ms <= t}}
         /\ {d.frame : d \in Range(pending)}
              = {d.frame : d \in Range(pending')} \cup Range(Ready(t))
<1> DEFINE due == Due(t)
           later == DOMAIN pending \ Due(t)
           out == Subsequence(pending, due)
<1>1. due \subseteq DOMAIN pending /\ later \subseteq DOMAIN pending
      /\ due \cup later = DOMAIN pending
  BY DEF Due
<1>2. pending' = Subsequence(pending, later) /\ Ready(t) = [k \in DOMAIN out |-> out[k].frame]
  BY DEF Drain, Ready
<1>0. /\ \A i \in DOMAIN pending : i \in due <=> pending[i].due_ms <= t
      /\ \A i \in DOMAIN pending : i \in later <=> ~(pending[i].due_ms <= t)
  BY DEF Due
<1> HIDE DEF due, later
<1>3. /\ out \in Seq(S)
      /\ \A i \in due : \E k \in DOMAIN out : out[k] = pending[i]
      /\ \A k \in DOMAIN out : \E i \in due : out[k] = pending[i]
  <2>1. due \subseteq DOMAIN pending
    BY <1>1
  <2> QED
    BY <2>1, SubsequenceKeeps
<1>4. /\ pending' \in Seq(S)
      /\ \A i \in later : \E k \in DOMAIN pending' : pending'[k] = pending[i]
      /\ \A k \in DOMAIN pending' : \E i \in later : pending'[k] = pending[i]
  BY <1>1, <1>2, SubsequenceKeeps
<1> HIDE DEF out
<1>5. Ready(t) \in Seq({d.frame : d \in S}) /\ DOMAIN Ready(t) = DOMAIN out
  <2>1. DOMAIN out = 1..Len(out) /\ Len(out) \in Nat /\ \A k \in DOMAIN out : out[k] \in S
    BY <1>3
  <2> QED
    BY <1>2, <2>1
<1>6. Range(Ready(t)) = {out[k].frame : k \in DOMAIN out}
  BY <1>2 DEF Range
<1>7. Range(Ready(t)) = {pending[i].frame : i \in due}
  BY <1>3, <1>6
<1>8. Range(pending') = {pending[i] : i \in later}
  BY <1>4 DEF Range
<1>9. Range(pending) = {pending[i] : i \in due} \cup {pending[i] : i \in later}
  BY <1>1 DEF Range
<1>10. Range(pending') = {d \in Range(pending) : ~(d.due_ms <= t)}
  BY <1>0, <1>1, <1>8 DEF Range
<1>11. Range(Ready(t)) = {d.frame : d \in {e \in Range(pending) : e.due_ms <= t}}
  BY <1>0, <1>1, <1>7 DEF Range
<1> QED
  BY <1>4, <1>5, <1>7, <1>8, <1>9, <1>10, <1>11

-----------------------------------------------------------------------------
(* Every translation is a queued event, and its anon8 one that is in play.  *)
LEMMA TranslationTypes ==
  ASSUME NEW e \in Translations
  PROVE  /\ e \in QueuedEvent /\ e.anon \in AnonIds /\ e.id \in Ids /\ e.ttl \in Nat
         /\ e.priority \in WirePriority /\ e.event_type \in EventTypes
         /\ e.created_ms \in Nat
<1>1. PICK env \in Envelopes, anon \in AnonIds :
         env.priority \in WirePriority /\ e = QueuedAs(env, anon)
  BY DEF Translations
<1>2. env \in Envelope /\ AnonIds \subseteq Nat
  BY EnvelopesAssumption DEF AnonIds, ZeroAnon, Envelope
<1>3. e \in QueuedEvent /\ e.anon \in AnonIds
  BY <1>1, <1>2, NodeAssumption DEF QueuedAs, QueuedEvent, Envelope
<1> QED
  BY <1>3 DEF QueuedEvent

(* What ble_ingest queues is a translation. *)
LEMMA QueuedIsATranslation ==
  ASSUME TypeOK, NEW t, NEW env \in Envelopes, Admissible(t, env)
  PROVE  /\ Queued(env) \in Translations /\ Queued(env).id = env.id
         /\ env.id \in Ids
<1>1. Anon8(env) \in AnonIds
  BY EnvelopesAssumption DEF Anon8, AnonIds, TypeOK, Envelope
<1> QED
  BY <1>1, EnvelopesAssumption DEF Queued, QueuedAs, Translations, Admissible, Envelope

(* Making room only takes from the queue. *)
LEMMA RoomIsPart ==
  ASSUME NEW env, NEW kept \in RoomFor(env)
  PROVE  kept \subseteq queue
BY DEF RoomFor

(* A frame built of a queued event, garbled or not, is one. *)
LEMMA FrameTypes ==
  ASSUME TypeOK, NEW e \in queue
  PROVE  Frame(e) \in Frames /\ Corrupt(Frame(e)) \in Frames
<1>1. /\ e.id \in Ids /\ e.ttl \in Nat /\ e.priority \in WirePriority
      /\ e.event_type \in EventTypes /\ e.created_ms \in Nat /\ e.anon \in AnonIds
  BY TranslationTypes DEF TypeOK
<1>2. \A n \in Nat : /\ n % BYTE \in 0..BYTE - 1 /\ n % U16 \in 0..U16 - 1
                    /\ n % U48 \in Nat /\ n + 1 \in Nat
  BY NodeAssumption
<1>0. packet_seq \in Nat
  BY DEF TypeOK
<1>3. Frame(e) \in Frames
  BY <1>0, <1>1, <1>2 DEF Frame, BuildFrame, Frames
<1>4. Corrupt(Frame(e)) \in Frames
  BY <1>0, <1>1, <1>2 DEF Corrupt, Frame, BuildFrame, Frames
<1> QED
  BY <1>3, <1>4

(* What goes on air is the frame, and perhaps again a millisecond later.    *)
LEMMA SentDeliveries ==
  ASSUME TypeOK, NEW t \in Times, NEW frame \in Frames, ChannelSent(t, frame)
  PROVE  /\ pending' \in Seq(Deliveries) /\ profile' = profile
         /\ \E delay \in profile.delays :
               /\ Range(pending) \cup {Delivery(t + delay, frame)} \subseteq Range(pending')
               /\ Range(pending') \subseteq Range(pending)
                    \cup {Delivery(t + delay, frame), Delivery(t + delay + 1, frame)}
<1>1. PICK delay \in profile.delays, twice \in BOOLEAN :
         pending' \in Reordered(pending \o
            IF twice THEN <<Delivery(t + delay, frame), Delivery(t + delay + 1, frame)>>
                     ELSE <<Delivery(t + delay, frame)>>)
  BY DEF ChannelSent, Hit
<1> DEFINE copy == Delivery(t + delay, frame)
           echo == Delivery(t + delay + 1, frame)
           more == IF twice THEN <<copy, echo>> ELSE <<copy>>
           onair == pending \o more
<1>2. t \in Nat /\ delay \in Nat
  BY LabAssumption, ChannelAssumption DEF TypeOK
<1>3. copy \in Deliveries /\ echo \in Deliveries /\ copy.frame = frame /\ echo.frame = frame
  BY <1>2 DEF Delivery, Deliveries
<1> HIDE DEF copy, echo
<1>4. more \in Seq(Deliveries) /\ (Range(more) = {copy, echo} \/ Range(more) = {copy})
  <2>1. CASE twice
    <3>1. more = <<copy, echo>>
      BY <2>1
    <3>2. Range(more) = {copy, echo}
      BY <3>1 DEF Range
    <3> QED
      BY <1>3, <3>1, <3>2
  <2>2. CASE ~twice
    <3>1. more = <<copy>>
      BY <2>2
    <3>2. Range(more) = {copy}
      BY <3>1 DEF Range
    <3> QED
      BY <1>3, <3>1, <3>2
  <2> QED
    BY <2>1, <2>2
<1> HIDE DEF more
<1>5. pending \in Seq(Deliveries)
  BY DEF TypeOK, Deliveries
<1>6. onair \in Seq(Deliveries) /\ Range(onair) = Range(pending) \cup Range(more)
  BY <1>4, <1>5, RangeOfConcat
<1> HIDE DEF onair
<1>7. pending' \in Reordered(onair)
  BY <1>1 DEF onair, more, copy, echo
<1>8. \A d \in Deliveries : d.due_ms \in Int
  BY DEF Deliveries
<1>9. pending' \in Seq(Deliveries) /\ Range(pending') = Range(onair)
  BY <1>6, <1>7, <1>8, ReorderedKeeps
<1>10. profile' = profile
  BY DEF ChannelSent
<1>11. /\ Range(pending) \cup {copy} \subseteq Range(pending')
       /\ Range(pending') \subseteq Range(pending) \cup {copy, echo}
  BY <1>4, <1>6, <1>9
<1> QED
  BY <1>9, <1>10, <1>11 DEF copy, echo

LEMMA SentGoesOnAir ==
  ASSUME TypeOK, NEW t \in Times, NEW frame \in Frames, ChannelSent(t, frame)
  PROVE  /\ pending' \in Seq(Deliveries) /\ profile' = profile
         /\ {d.frame : d \in Range(pending')}
              = {d.frame : d \in Range(pending)} \cup {frame}
<1>1. PICK delay \in profile.delays :
         /\ Range(pending) \cup {Delivery(t + delay, frame)} \subseteq Range(pending')
         /\ Range(pending') \subseteq Range(pending)
              \cup {Delivery(t + delay, frame), Delivery(t + delay + 1, frame)}
  BY SentDeliveries
<1>2. \A due : Delivery(due, frame).frame = frame
  BY DEF Delivery
<1>3. {d.frame : d \in Range(pending')} = {d.frame : d \in Range(pending)} \cup {frame}
  BY <1>1, <1>2
<1> QED
  BY <1>3, SentDeliveries

(* What is lost may go on air garbled.                                      *)
LEMMA LostDeliveries ==
  ASSUME TypeOK, NEW t \in Times, NEW frame, Corrupt(frame) \in Frames,
         ChannelLost(t, frame)
  PROVE  /\ pending' \in Seq(Deliveries) /\ profile' = profile
         /\ \/ pending' = pending
            \/ \E delay \in profile.delays :
                  Range(pending') = Range(pending) \cup {Delivery(t + delay, Corrupt(frame))}
<1>1. pending \in Seq(Deliveries) /\ profile' = profile
  BY DEF TypeOK, Deliveries, ChannelLost
<1>2. CASE pending' = pending
  BY <1>1, <1>2
<1>3. CASE pending' # pending
  <2>1. PICK delay \in profile.delays :
           pending' \in Reordered(Append(pending, Delivery(t + delay, Corrupt(frame))))
    BY <1>3 DEF ChannelLost
  <2> DEFINE copy == Delivery(t + delay, Corrupt(frame))
             onair == Append(pending, copy)
  <2>2. t \in Nat /\ delay \in Nat
    BY LabAssumption, ChannelAssumption DEF TypeOK
  <2>3. copy \in Deliveries
    BY <2>2 DEF Delivery, Deliveries
  <2> HIDE DEF copy
  <2>4. onair \in Seq(Deliveries) /\ Range(onair) = Range(pending) \cup {copy}
    BY <1>1, <2>3, RangeOfAppend
  <2> HIDE DEF onair
  <2>5. pending' \in Reordered(onair)
    BY <2>1 DEF onair, copy
  <2>6. \A d \in Deliveries : d.due_ms \in Int
    BY DEF Deliveries
  <2>7. pending' \in Seq(Deliveries) /\ Range(pending') = Range(pending) \cup {copy}
    BY <2>4, <2>5, <2>6, ReorderedKeeps
  <2> QED
    BY <1>1, <2>7 DEF copy
<1> QED
  BY <1>2, <1>3

LEMMA LostMayGoOnAir ==
  ASSUME TypeOK, NEW t \in Times, NEW frame, Corrupt(frame) \in Frames,
         ChannelLost(t, frame)
  PROVE  /\ pending' \in Seq(Deliveries) /\ profile' = profile
         /\ \/ pending' = pending
            \/ {d.frame : d \in Range(pending')}
                 = {d.frame : d \in Range(pending)} \cup {Corrupt(frame)}
<1>1. CASE pending' = pending
  BY <1>1, LostDeliveries
<1>2. ASSUME NEW delay \in profile.delays,
             Range(pending') = Range(pending) \cup {Delivery(t + delay, Corrupt(frame))}
      PROVE  {d.frame : d \in Range(pending')}
               = {d.frame : d \in Range(pending)} \cup {Corrupt(frame)}
  <2>1. Delivery(t + delay, Corrupt(frame)).frame = Corrupt(frame)
    BY DEF Delivery
  <2> QED
    BY <1>2, <2>1
<1> QED
  BY <1>1, <1>2, LostDeliveries

-----------------------------------------------------------------------------
(* The frames on air and those NodeB has yet to receive. *)
Flying == {d.frame : d \in Range(pending)} \cup Range(inbox)

LEMMA OnAirIsFlying ==
  OnAir = {f.raw.event_id : f \in {g \in Flying : ~g.corrupted}}
<1> DEFINE frames == [i \in DOMAIN pending |-> pending[i].frame]
<1>1. Carried(frames) =
        {f.raw.event_id : f \in {g \in {d.frame : d \in Range(pending)} : ~g.corrupted}}
  BY DEF Carried, Range
<1>2. Carried(inbox) = {f.raw.event_id : f \in {g \in Range(inbox) : ~g.corrupted}}
  BY DEF Carried, Range
<1> QED
  BY <1>1, <1>2 DEF OnAir, Flying

(* How a transmission changes what flies. *)
LEMMA TransmitFlies ==
  ASSUME TypeOK, NEW t \in Times, NEW best \in queue, UNCHANGED inbox
  PROVE  /\ ChannelSent(t, Frame(best)) => Flying' = Flying \cup {Frame(best)}
         /\ ChannelLost(t, Frame(best)) =>
               Flying' = Flying \/ Flying' = Flying \cup {Corrupt(Frame(best))}
<1>1. Frame(best) \in Frames /\ Corrupt(Frame(best)) \in Frames
  BY FrameTypes
<1>2. ASSUME ChannelSent(t, Frame(best))
      PROVE  Flying' = Flying \cup {Frame(best)}
  BY <1>1, <1>2, SentGoesOnAir DEF Flying
<1>3. ASSUME ChannelLost(t, Frame(best))
      PROVE  Flying' = Flying \/ Flying' = Flying \cup {Corrupt(Frame(best))}
  <2>1. \/ pending' = pending
        \/ {d.frame : d \in Range(pending')}
             = {d.frame : d \in Range(pending)} \cup {Corrupt(Frame(best))}
    BY <1>1, <1>3, LostMayGoOnAir
  <2> QED
    BY <2>1 DEF Flying
<1> QED
  BY <1>2, <1>3

(* Draining moves frames, and adds or loses none. *)
LEMMA DrainFlies ==
  ASSUME TypeOK, NEW t, ChannelDrains(t)
  PROVE  Flying' = Flying /\ pending' \in Seq(Deliveries) /\ inbox' \in Seq(Frames)
<1>1. pending \in Seq(Deliveries) /\ Drain(t) /\ inbox' = Ready(t) /\ inbox = << >>
  BY DEF TypeOK, Deliveries, ChannelDrains
<1>2. /\ pending' \in Seq(Deliveries)
      /\ Ready(t) \in Seq({d.frame : d \in Deliveries})
      /\ {d.frame : d \in Range(pending)}
           = {d.frame : d \in Range(pending')} \cup Range(Ready(t))
  BY <1>1, DrainParts
<1>3. {d.frame : d \in Deliveries} \subseteq Frames
  BY DEF Deliveries
<1>4. Ready(t) \in Seq(Frames)
  BY <1>2, <1>3
<1>5. Range(inbox) = {}
  BY <1>1 DEF Range
<1> QED
  BY <1>1, <1>2, <1>4, <1>5 DEF Flying

(* NodeB takes one frame that flies; what else flies stays. *)
LEMMA TakenFlies ==
  ASSUME TypeOK, inbox # << >>, NodeBTakes
  PROVE  /\ Head(inbox) \in Flying /\ Head(inbox) \in Frames
         /\ Flying = {Head(inbox)} \cup Flying' /\ inbox' \in Seq(Frames)
<1>1. inbox \in Seq(Frames) /\ inbox' = Tail(inbox) /\ pending' = pending
  BY DEF TypeOK, NodeBTakes, channelVars
<1> QED
  BY <1>1, RangeOfTail DEF Flying

-----------------------------------------------------------------------------
LEMMA InitTypes ==
  Init => TypeOK
<1> SUFFICES ASSUME Init
             PROVE  TypeOK
  OBVIOUS
<1>1. pending = << >> /\ inbox = << >> /\ events = << >> /\ routes = << >>
  BY DEF Init, ChannelInit, GatewayInit
<1>2. /\ pending \in Seq([due_ms : Nat, frame : Frames]) /\ inbox \in Seq(Frames)
      /\ handed = {}
  BY <1>1 DEF Init
<1>3. DOMAIN events \subseteq Ids /\ DOMAIN routes = 1..Len(routes) /\ Len(routes) \in Nat
  BY <1>1
<1> QED
  BY <1>2, <1>3
     DEF Init, NodeInit, ChannelInit, TypeOK, NoRetry, RetryState, AnonIds

LEMMA PhoneTypes ==
  ASSUME TypeOK, NEW t \in Times, NEW env \in Envelopes, PhoneSends(t, env)
  PROVE  TypeOK'
<1>1. UNCHANGED <<profile, pending, inbox, b_seen_lora, handed, events, routes, wipes>>
  BY DEF PhoneSends, channelVars, farVars
<1>2. CASE IngestAccepted(t, env)
  <2>1. Queued(env) \in Translations /\ env.id \in Ids
    BY <1>2, QueuedIsATranslation DEF IngestAccepted
  <2>2. queue' \subseteq Translations /\ dropped_events' \subseteq Translations
    BY <1>2, <2>1, RoomIsPart DEF IngestAccepted, TypeOK
  <2>3. anon_by_author' \in [Authors -> AnonIds]
    BY <1>2 DEF IngestAccepted, AnonIds, TypeOK
  <2> QED
    BY <1>1, <1>2, <2>1, <2>2, <2>3 DEF IngestAccepted, TypeOK, Translations, AnonIds, Inbounds
<1>3. CASE IngestUntranslatable(t, env)
  <2>1. queue' \subseteq Translations /\ dropped_events' \subseteq Translations
    BY <1>3, RoomIsPart DEF IngestUntranslatable, TypeOK
  <2> QED
    BY <1>1, <1>3, <2>1 DEF IngestUntranslatable, TypeOK, Translations, AnonIds, Inbounds
<1>4. CASE IngestRefused(t, env)
  BY <1>1, <1>4 DEF IngestRefused, nodeVars, TypeOK, Translations, AnonIds, Inbounds
<1> QED
  BY <1>2, <1>3, <1>4 DEF PhoneSends

LEMMA TransmitTypes ==
  ASSUME TypeOK, NEW t \in Times, NodeATransmits(t)
  PROVE  TypeOK'
<1> USE DEF TypeOK
<1>1. UNCHANGED <<inbox, b_seen_lora, handed, events, routes, wipes>> /\ t \in Nat
  BY LabAssumption DEF NodeATransmits, farVars
<1>2. CASE (TransmitIdle(t) \/ TransmitGivesUp(t)) /\ UNCHANGED channelVars
  BY <1>1, <1>2 DEF TransmitIdle, TransmitGivesUp, nodeVars, channelVars
<1>3. ASSUME NEW best \in queue, Attempts(t, best)
      PROVE  /\ packet_seq' \in Nat /\ best.id \in Ids
             /\ \A when \in Backoff(t) : when \in Nat
             /\ UNCHANGED <<seen_ble, seen_lora, dropped_events, anon_by_author>>
  BY <1>1, <1>3, NodeAssumption, TranslationTypes DEF Attempts, Backoff
<1>4. ASSUME NEW best \in queue, TransmitSent(t, best), ChannelSent(t, Frame(best))
      PROVE  TypeOK'
  <2>1. pending' \in Seq(Deliveries) /\ profile' = profile
    BY FrameTypes, SentGoesOnAir, <1>4
  <2> QED
    BY <1>1, <1>3, <1>4, <2>1 DEF TransmitSent, Deliveries
<1>5. ASSUME NEW best \in queue, TransmitBusy(t, best), ChannelBusy(Frame(best))
      PROVE  TypeOK'
  <2>1. PICK when \in Backoff(t) :
           retry' = [retry EXCEPT ![best.id].next_attempt_ms = when]
    BY <1>5 DEF TransmitBusy
  <2>2. retry' \in [Ids -> RetryState]
    BY <1>3, <1>5, <2>1 DEF TransmitBusy, RetryState
  <2> QED
    BY <1>1, <1>3, <1>5, <2>2 DEF TransmitBusy, ChannelBusy, channelVars
<1>6. ASSUME NEW best \in queue, TransmitLost(t, best), ChannelLost(t, Frame(best))
      PROVE  TypeOK'
  <2>1. pending' \in Seq(Deliveries) /\ profile' = profile
    BY FrameTypes, LostMayGoOnAir, <1>6
  <2>2. PICK when \in Backoff(t) :
           retry' = [retry EXCEPT ![best.id] =
                       [loss_attempts |-> @.loss_attempts + 1, next_attempt_ms |-> when]]
    BY <1>6 DEF TransmitLost
  <2>3. retry' \in [Ids -> RetryState]
    BY <1>3, <1>6, <2>2 DEF TransmitLost, RetryState
  <2> QED
    BY <1>1, <1>3, <1>6, <2>1, <2>3 DEF TransmitLost, Deliveries
<1> QED
  BY <1>2, <1>4, <1>5, <1>6 DEF NodeATransmits

LEMMA ReceiveTypes ==
  ASSUME TypeOK, NEW t \in Times, NodeBReceives(t)
  PROVE  TypeOK'
<1>1. inbox # << >> /\ NodeBTakes /\ UNCHANGED <<events, routes>>
  BY DEF NodeBReceives, NodeBAccepts, NodeBIgnores
<1>2. inbox' \in Seq(Frames) /\ Head(inbox) \in Frames
  BY <1>1, TakenFlies
<1>3. UNCHANGED <<nodeVars, channelVars, historyVars>>
  BY <1>1 DEF NodeBTakes
<1>4. CASE NodeBAccepts(t) /\ handed' = {Handed}
  <2>1. b_seen_lora' \subseteq Ids
    BY <1>2, <1>4 DEF NodeBAccepts, NodeB!ReceiveAccepted, TypeOK, Frames
  <2>2. Handed \in Inbounds
    BY <1>2, NodeAssumption DEF Handed, NodeB!Inbound, Inbounds, Frames
  <2> QED
    BY <1>1, <1>2, <1>3, <1>4, <2>1, <2>2
       DEF TypeOK, nodeVars, channelVars, historyVars, Translations, AnonIds, Inbounds
<1>5. CASE NodeBIgnores(t) /\ UNCHANGED handed
  BY <1>1, <1>2, <1>3, <1>5
     DEF NodeBIgnores, NodeB!ReceiveIgnored, NodeB!nodeVars, TypeOK, nodeVars,
         channelVars, historyVars, Translations, AnonIds, Inbounds
<1> QED
  BY <1>4, <1>5 DEF NodeBReceives

LEMMA HandsOnTypes ==
  ASSUME TypeOK, DriverHandsOn
  PROVE  TypeOK'
<1>1. PICK inbound \in handed : GatewayReceive(inbound)
  BY DEF DriverHandsOn
<1>2. /\ UNCHANGED <<nodeVars, channelVars, b_seen_lora, inbox, historyVars>>
      /\ handed' = {}
  BY DEF DriverHandsOn
<1>3. DOMAIN events' \subseteq Ids
  BY <1>1 DEF GatewayReceive, TypeOK, Inbounds
<1>4. DOMAIN routes' = 1..Len(routes') /\ Len(routes') \in Nat
  BY <1>1, AppendedIsNumbered DEF GatewayReceive, TypeOK
<1> QED
  BY <1>2, <1>3, <1>4
     DEF TypeOK, nodeVars, channelVars, historyVars, Translations, AnonIds

LEMMA StepTypes ==
  TypeOK /\ [Next]_vars => TypeOK'
<1> SUFFICES ASSUME TypeOK, [Next]_vars
             PROVE  TypeOK'
  OBVIOUS
<1>1. ASSUME NEW t \in Times, ChannelDrains(t)
      PROVE  TypeOK'
  <2>1. pending' \in Seq(Deliveries) /\ inbox' \in Seq(Frames)
    BY <1>1, DrainFlies
  <2> QED
    BY <1>1, <2>1
       DEF ChannelDrains, Drain, Deliveries, TypeOK, nodeVars, historyVars,
           Translations, AnonIds, Inbounds
<1>2. ASSUME NEW keeps \in BOOLEAN, NodeAReboots(keeps)
      PROVE  TypeOK'
  BY <1>2 DEF NodeAReboots, Reboot, TypeOK, channelVars, farVars, NoRetry, RetryState,
              Translations, AnonIds, Inbounds
<1>3. ASSUME NEW keeps \in BOOLEAN, NodeBReboots(keeps)
      PROVE  TypeOK'
  BY <1>3 DEF NodeBReboots, NodeB!Reboot, TypeOK, channelVars, nodeVars,
              Translations, AnonIds, Inbounds
<1>4. CASE UNCHANGED vars
  BY <1>4 DEF vars, TypeOK, nodeVars, channelVars, farVars, historyVars,
              Translations, AnonIds, Inbounds
<1> QED
  BY <1>1, <1>2, <1>3, <1>4, PhoneTypes, TransmitTypes, ReceiveTypes,
     HandsOnTypes DEF Next

(* The fields of the nodes, the channel and the gateway keep their types.   *)
THEOREM TypeCorrect ==
  Spec => []TypeOK
BY InitTypes, StepTypes, PTL DEF Spec

-----------------------------------------------------------------------------
(* What a step does to the path: eight ways, in terms of what flies and of  *)
(* what is in the driver's hands.                                           *)
gatewayVars == <<b_seen_lora, handed, events, routes, wipes>>

Queues(env) ==
  /\ queue' \subseteq queue \cup {Queued(env)}
  /\ \E t \in Times : Admissible(t, env)
  /\ seen_ble' = seen_ble \cup {env.id}
  /\ accepted' = accepted \cup {RowOf(Queued(env))}
  /\ Flying' = Flying /\ UNCHANGED <<sent, sent_before, gatewayVars>>

Keeps ==
  /\ queue' \subseteq queue
  /\ \/ Flying' = Flying
     \/ \E best \in queue : Flying' = Flying \cup {Corrupt(Frame(best))}
  /\ UNCHANGED <<seen_ble, accepted, sent, sent_before, gatewayVars>>

Sends(best) ==
  /\ queue' = queue \ {best}
  /\ sent' = sent \cup {best.id}
  /\ Flying' = Flying \cup {Frame(best)}
  /\ UNCHANGED <<seen_ble, accepted, sent_before, gatewayVars>>

Takes(frame) ==
  /\ frame \in Frames /\ Flying = {frame} \cup Flying'
  /\ UNCHANGED <<queue, seen_ble, accepted, sent, sent_before, wipes>>

Hands(frame) ==
  /\ Takes(frame)
  /\ ~frame.corrupted /\ frame.raw.event_id \notin b_seen_lora
  /\ b_seen_lora' = b_seen_lora \cup {frame.raw.event_id}
  /\ handed = {} /\ handed' = {NodeB!Inbound("NodeB", frame)}
  /\ UNCHANGED <<events, routes>>

Stores(inbound) ==
  /\ handed = {inbound} /\ handed' = {}
  /\ GatewayReceive(inbound)
  /\ Flying' = Flying
  /\ UNCHANGED <<queue, seen_ble, accepted, sent, sent_before, b_seen_lora, wipes>>

Refuses(frame) ==
  /\ Takes(frame)
  /\ \E t \in Times : ~NodeB!Verified(frame, t)
  /\ UNCHANGED gatewayVars

LosesQueue(keeps) ==
  /\ queue' = {}
  /\ seen_ble' = IF keeps THEN seen_ble ELSE {}
  /\ sent' = IF keeps THEN sent ELSE {}
  /\ sent_before' = IF keeps THEN sent_before ELSE sent_before \cup sent
  /\ Flying' = Flying /\ UNCHANGED <<accepted, gatewayVars>>

LosesRing(keeps) ==
  /\ b_seen_lora' = IF keeps THEN b_seen_lora ELSE {}
  /\ wipes' = IF keeps THEN wipes ELSE wipes + 1
  /\ Flying' = Flying
  /\ UNCHANGED <<queue, seen_ble, accepted, sent, sent_before, handed, events, routes>>

PathStep ==
  \/ \E env \in Envelopes : Queues(env)
  \/ Keeps
  \/ \E best \in queue : Sends(best)
  \/ \E frame \in Frames : Hands(frame) \/ Refuses(frame)
  \/ \E inbound \in Inbounds : Stores(inbound)
  \/ \E keeps \in BOOLEAN : LosesQueue(keeps) \/ LosesRing(keeps)

LEMMA SameFlies ==
  UNCHANGED <<pending, inbox>> => Flying' = Flying
BY DEF Flying

LEMMA StepsOfThePath ==
  ASSUME TypeOK, [Next]_vars
  PROVE  PathStep
<1>1. ASSUME NEW t \in Times, NEW env \in Envelopes, PhoneSends(t, env)
      PROVE  PathStep
  <2>1. UNCHANGED <<gatewayVars, sent, sent_before>> /\ Flying' = Flying
    BY <1>1, SameFlies DEF PhoneSends, channelVars, farVars, gatewayVars
  <2>2. CASE IngestAccepted(t, env) /\ accepted' = accepted \cup {RowOf(Queued(env))}
    <3>1. Queues(env)
      BY <2>1, <2>2, RoomIsPart DEF IngestAccepted, Queues
    <3> QED
      BY <3>1 DEF PathStep
  <2>3. CASE IngestUntranslatable(t, env) /\ UNCHANGED accepted
    BY <2>1, <2>3, RoomIsPart DEF IngestUntranslatable, Keeps, PathStep
  <2>4. CASE IngestRefused(t, env) /\ UNCHANGED accepted
    BY <2>1, <2>4 DEF IngestRefused, nodeVars, Keeps, PathStep
  <2> QED
    BY <1>1, <2>2, <2>3, <2>4 DEF PhoneSends
<1>2. ASSUME NEW t \in Times, NodeATransmits(t)
      PROVE  PathStep
  <2>1. UNCHANGED <<gatewayVars, inbox, accepted, sent_before>>
    BY <1>2 DEF NodeATransmits, farVars, gatewayVars
  <2>2. CASE (TransmitIdle(t) \/ TransmitGivesUp(t)) /\ UNCHANGED <<channelVars, sent>>
    BY <2>1, <2>2, SameFlies
       DEF TransmitIdle, TransmitGivesUp, nodeVars, channelVars, Keeps, PathStep
  <2>3. ASSUME NEW best \in queue, TransmitSent(t, best), ChannelSent(t, Frame(best)),
               sent' = sent \cup {best.id}
        PROVE  PathStep
    <3>1. Flying' = Flying \cup {Frame(best)}
      BY <2>1, <2>3, TransmitFlies
    <3>2. Sends(best)
      BY <2>1, <2>3, <3>1 DEF TransmitSent, Attempts, Sends
    <3> QED
      BY <3>2 DEF PathStep
  <2>4. ASSUME NEW best \in queue, TransmitBusy(t, best), ChannelBusy(Frame(best)),
               UNCHANGED sent
        PROVE  PathStep
    BY <2>1, <2>4, SameFlies
       DEF TransmitBusy, Attempts, ChannelBusy, channelVars, Keeps, PathStep
  <2>5. ASSUME NEW best \in queue, TransmitLost(t, best), ChannelLost(t, Frame(best)),
               UNCHANGED sent
        PROVE  PathStep
    <3>1. Flying' = Flying \/ Flying' = Flying \cup {Corrupt(Frame(best))}
      BY <2>1, <2>5, TransmitFlies
    <3> QED
      BY <2>1, <2>5, <3>1 DEF TransmitLost, Attempts, Keeps, PathStep
  <2> QED
    BY <1>2, <2>2, <2>3, <2>4, <2>5 DEF NodeATransmits
<1>3. ASSUME NEW t \in Times, ChannelDrains(t)
      PROVE  PathStep
  BY <1>3, DrainFlies
     DEF ChannelDrains, nodeVars, historyVars, gatewayVars, Keeps, PathStep
<1>4. ASSUME NEW t \in Times, NodeBReceives(t)
      PROVE  PathStep
  <2> DEFINE frame == Head(inbox)
  <2>1. inbox # << >> /\ NodeBTakes
    BY <1>4 DEF NodeBReceives, NodeBAccepts, NodeBIgnores
  <2>2. Takes(frame) /\ frame \in Frames /\ frame.dst = "NodeB"
    BY <2>1, TakenFlies DEF NodeBTakes, nodeVars, historyVars, Takes, Frames
  <2>3. wipes' = wipes /\ handed = {} /\ UNCHANGED <<events, routes>>
    BY <1>4, <2>1 DEF NodeBReceives, NodeBTakes, historyVars
  <2>4. CASE NodeBAccepts(t) /\ handed' = {Handed}
    <3>1. Hands(frame)
      BY <2>2, <2>3, <2>4
         DEF NodeBAccepts, NodeB!ReceiveAccepted, NodeB!Verified, Handed, Hands
    <3> QED
      BY <2>2, <3>1 DEF PathStep
  <2>5. CASE NodeBIgnores(t) /\ UNCHANGED handed
    <3>1. Refuses(frame)
      BY <2>2, <2>3, <2>5
         DEF NodeBIgnores, NodeB!ReceiveIgnored, NodeB!nodeVars, Refuses, gatewayVars
    <3> QED
      BY <2>2, <3>1 DEF PathStep
  <2> QED
    BY <1>4, <2>4, <2>5 DEF NodeBReceives
<1>5. ASSUME NEW keeps \in BOOLEAN, NodeAReboots(keeps)
      PROVE  PathStep
  <2>1. LosesQueue(keeps)
    BY <1>5, SameFlies
       DEF NodeAReboots, Reboot, channelVars, farVars, gatewayVars, LosesQueue
  <2> QED
    BY <2>1 DEF PathStep
<1>6. ASSUME NEW keeps \in BOOLEAN, NodeBReboots(keeps)
      PROVE  PathStep
  <2>1. LosesRing(keeps)
    BY <1>6, SameFlies
       DEF NodeBReboots, NodeB!Reboot, nodeVars, channelVars, LosesRing
  <2> QED
    BY <2>1 DEF PathStep
<1>7. CASE DriverHandsOn
  <2>1. PICK inbound \in handed : GatewayReceive(inbound)
    BY <1>7 DEF DriverHandsOn
  <2>2. inbound \in Inbounds /\ handed = {inbound}
    BY DEF TypeOK
  <2>3. Stores(inbound)
    BY <1>7, <2>1, <2>2, SameFlies
       DEF DriverHandsOn, nodeVars, channelVars, historyVars, Stores
  <2> QED
    BY <2>2, <2>3 DEF PathStep
<1>8. CASE UNCHANGED vars
  BY <1>8, SameFlies
     DEF vars, nodeVars, channelVars, farVars, historyVars, gatewayVars, Keeps, PathStep
<1> QED
  BY <1>1, <1>2, <1>3, <1>4, <1>5, <1>6, <1>7, <1>8 DEF Next

-----------------------------------------------------------------------------
(* The inductive invariant of the path: what waits was accepted since the   *)
(* dedupe ring was emptied and not sent since, no two waiting events share  *)
(* an id, what flies intact or has arrived was sent at some time, and what  *)
(* NodeB's ring remembers has arrived.                                      *)
PathInv ==
  /\ \A e \in queue : e.id \in seen_ble /\ e.id \notin sent
  /\ \A e, f \in queue : e.id = f.id => e = f
  /\ sent \subseteq seen_ble
  /\ \A frame \in Flying : ~frame.corrupted => frame.raw.event_id \in sent \cup sent_before
  /\ Arrived \subseteq sent \cup sent_before
  /\ b_seen_lora \subseteq Arrived

LEMMA InitPath ==
  Init => PathInv
<1> SUFFICES ASSUME Init
             PROVE  PathInv
  OBVIOUS
<1>1. Flying = {} /\ Arrived = {}
  BY DEF Init, ChannelInit, GatewayInit, Flying, Range, Arrived, InHand
<1> QED
  BY <1>1 DEF Init, NodeInit, PathInv

(* The row the gateway makes of a frame. *)
RowOfFrame(frame) == Row(NodeB!Inbound("NodeB", frame))

(* The gateway adds the id of what it is given, and changes no other row.   *)
LEMMA StoredRows ==
  ASSUME NEW inbound, GatewayReceive(inbound)
  PROVE  /\ DOMAIN events' = DOMAIN events \cup {inbound.event_id}
         /\ \A i \in DOMAIN events : events'[i] = events[i]
         /\ inbound.event_id \notin DOMAIN events =>
               events'[inbound.event_id] = Row(inbound)
BY DEF GatewayReceive

(* Who has arrived: one more when NodeB accepts, and the same when the      *)
(* driver hands on.                                                         *)
LEMMA WhoArrives ==
  /\ UNCHANGED <<handed, events>> => Arrived' = Arrived
  /\ \A frame : Hands(frame) => Arrived' = Arrived \cup {frame.raw.event_id}
  /\ \A inbound : Stores(inbound) => Arrived' = Arrived
<1>1. ASSUME NEW frame, Hands(frame)
      PROVE  Arrived' = Arrived \cup {frame.raw.event_id}
  <2>1. InHand = {} /\ InHand' = {frame.raw.event_id} /\ events' = events
    BY <1>1 DEF Hands, InHand, NodeB!Inbound
  <2> QED
    BY <2>1 DEF Arrived
<1>2. ASSUME NEW inbound, Stores(inbound)
      PROVE  Arrived' = Arrived
  <2>1. InHand = {inbound.event_id} /\ InHand' = {}
    BY <1>2 DEF Stores, InHand
  <2>2. DOMAIN events' = DOMAIN events \cup {inbound.event_id}
    BY <1>2, StoredRows DEF Stores
  <2> QED
    BY <2>1, <2>2 DEF Arrived
<1>3. UNCHANGED <<handed, events>> => Arrived' = Arrived
  BY DEF Arrived, InHand
<1> QED
  BY <1>1, <1>2, <1>3

(* What a built frame, and a garbled one, say of themselves. *)
LEMMA BuiltFrames ==
  ASSUME NEW e
  PROVE  /\ ~Frame(e).corrupted /\ Corrupt(Frame(e)).corrupted
         /\ Frame(e).raw.event_id = e.id /\ Frame(e).raw.hlc_ms = e.created_ms % U48
         /\ Frame(e).raw.ttl = e.ttl % BYTE
BY DEF Frame, BuildFrame, Corrupt

(* What flies anew while nothing is sent is garbled. *)
LEMMA KeptFlies ==
  ASSUME Keeps
  PROVE  /\ Flying \subseteq Flying'
         /\ \A frame \in Flying' : frame \in Flying \/ frame.corrupted
<1>1. CASE Flying' = Flying
  BY <1>1
<1>2. ASSUME NEW best \in queue, Flying' = Flying \cup {Corrupt(Frame(best))}
      PROVE  /\ Flying \subseteq Flying'
             /\ \A frame \in Flying' : frame \in Flying \/ frame.corrupted
  <2>1. Corrupt(Frame(best)).corrupted
    BY BuiltFrames
  <2> QED
    BY <1>2, <2>1
<1> QED
  BY <1>1, <1>2 DEF Keeps

LEMMA StepPath ==
  ASSUME TypeOK, PathInv, [Next]_vars
  PROVE  PathInv'
<1> USE DEF PathInv
<1>1. ASSUME NEW env \in Envelopes, Queues(env)
      PROVE  PathInv'
  <2>1. Queued(env).id = env.id /\ env.id \notin seen_ble
    BY <1>1, QueuedIsATranslation DEF Queues, Admissible
  <2> QED
    BY <1>1, <2>1, WhoArrives DEF Queues, gatewayVars
<1>2. CASE Keeps
  <2>1. \A frame \in Flying' : frame \in Flying \/ frame.corrupted
    BY <1>2, KeptFlies
  <2> QED
    BY <1>2, <2>1, WhoArrives DEF Keeps, gatewayVars
<1>3. ASSUME NEW best \in queue, Sends(best)
      PROVE  PathInv'
  <2>1. Frame(best).raw.event_id = best.id
    BY DEF Frame, BuildFrame
  <2> QED
    BY <1>3, <2>1, WhoArrives DEF Sends, gatewayVars
<1>4. ASSUME NEW frame \in Frames, Hands(frame)
      PROVE  PathInv'
  <2>1. /\ frame \in Flying /\ Flying' \subseteq Flying
        /\ UNCHANGED <<queue, seen_ble, sent, sent_before>>
    BY <1>4 DEF Hands, Takes
  <2>2. Arrived' = Arrived \cup {frame.raw.event_id}
    BY <1>4, WhoArrives
  <2> QED
    BY <1>4, <2>1, <2>2 DEF Hands
<1>5. ASSUME NEW frame \in Frames, Refuses(frame)
      PROVE  PathInv'
  BY <1>5, WhoArrives DEF Refuses, Takes, gatewayVars
<1>6. ASSUME NEW keeps \in BOOLEAN, LosesQueue(keeps)
      PROVE  PathInv'
  BY <1>6, WhoArrives DEF LosesQueue, gatewayVars
<1>7. ASSUME NEW keeps \in BOOLEAN, LosesRing(keeps)
      PROVE  PathInv'
  BY <1>7, WhoArrives DEF LosesRing
<1>8. ASSUME NEW inbound \in Inbounds, Stores(inbound)
      PROVE  PathInv'
  <2>1. Arrived' = Arrived
    BY <1>8, WhoArrives
  <2> QED
    BY <1>8, <2>1 DEF Stores
<1> QED
  BY <1>1, <1>2, <1>3, <1>4, <1>5, <1>6, <1>7, <1>8, StepsOfThePath DEF PathStep

(* PathInv holds of every reachable state. *)
THEOREM PathHolds ==
  Spec => [](TypeOK /\ PathInv)
<1>1. Init => TypeOK /\ PathInv
  BY InitTypes, InitPath
<1>2. TypeOK /\ PathInv /\ [Next]_vars => (TypeOK /\ PathInv)'
  BY StepTypes, StepPath
<1> QED
  BY <1>1, <1>2, PTL DEF Spec

(* NodeB refuses as a duplicate only what the gateway has stored. *)
THEOREM RingStaysStored ==
  Spec => []RingIsStored
<1>1. PathInv => RingIsStored
  BY DEF PathInv, RingIsStored
<1> QED
  BY <1>1, PathHolds, PTL

(* An event that waits is nowhere beyond NodeA, unless NodeA sent it and    *)
(* then forgot that it had.                                                 *)
THEOREM WaitingStaysUndelivered ==
  Spec => []WaitingIsUndelivered
<1>1. ASSUME PathInv
      PROVE  WaitingIsUndelivered
  <2>1. OnAir \subseteq sent \cup sent_before
    BY <1>1, OnAirIsFlying DEF PathInv
  <2> QED
    BY <1>1, <2>1 DEF PathInv, WaitingIsUndelivered
<1> QED
  BY <1>1, PathHolds, PTL

-----------------------------------------------------------------------------
(* Within reach: every hop count fits its octet on the wire and leaves      *)
(* hops, and no call comes outside the replay window of an event.  Beyond   *)
(* it NodeB drops intact frames by design.                                  *)
WithinReach ==
  \A e \in Translations, t \in Times :
     /\ e.ttl % BYTE # 0
     /\ NodeB!Distance(e.created_ms % U48, t) <= HLC_REPLAY_WINDOW_MS

(* With that, an intact frame that flies is refused as a duplicate only, so *)
(* no id that was sent leaves the path.                                     *)
CarriedInv ==
  /\ \A frame \in Flying : ~frame.corrupted =>
        \E e \in Translations :
           frame.raw.ttl = e.ttl % BYTE /\ frame.raw.hlc_ms = e.created_ms % U48
  /\ \A i \in sent \cup sent_before :
        \/ i \in Arrived
        \/ \E frame \in Flying : ~frame.corrupted /\ frame.raw.event_id = i

LEMMA StepCarried ==
  ASSUME WithinReach, TypeOK, PathInv, CarriedInv, [Next]_vars
  PROVE  CarriedInv'
<1> USE DEF CarriedInv
<1>0. Translations' = Translations
  BY DEF Translations, AnonIds
<1>1. ASSUME NEW env \in Envelopes, Queues(env)
      PROVE  CarriedInv'
  BY <1>0, <1>1, WhoArrives DEF Queues, gatewayVars
<1>2. CASE Keeps
  <2>1. Flying \subseteq Flying' /\ \A frame \in Flying' : frame \in Flying \/ frame.corrupted
    BY <1>2, KeptFlies
  <2> QED
    BY <1>0, <1>2, <2>1, WhoArrives DEF Keeps, gatewayVars
<1>3. ASSUME NEW best \in queue, Sends(best)
      PROVE  CarriedInv'
  <2>1. /\ Frame(best).raw.event_id = best.id /\ ~Frame(best).corrupted
        /\ Frame(best).raw.ttl = best.ttl % BYTE
        /\ Frame(best).raw.hlc_ms = best.created_ms % U48
    BY DEF Frame, BuildFrame
  <2>2. best \in Translations
    BY DEF TypeOK
  <2> QED
    BY <1>0, <1>3, <2>1, <2>2, WhoArrives DEF Sends, gatewayVars
<1>4. ASSUME NEW frame \in Frames, Hands(frame)
      PROVE  CarriedInv'
  <2>1. /\ Flying = {frame} \cup Flying' /\ UNCHANGED <<sent, sent_before>>
    BY <1>4 DEF Hands, Takes
  <2>2. Arrived' = Arrived \cup {frame.raw.event_id}
    BY <1>4, WhoArrives
  <2> QED
    BY <1>0, <2>1, <2>2
<1>5. ASSUME NEW frame \in Frames, Refuses(frame)
      PROVE  CarriedInv'
  <2>1. /\ Flying = {frame} \cup Flying' /\ UNCHANGED <<sent, sent_before>>
        /\ Arrived' = Arrived
    BY <1>5, WhoArrives DEF Refuses, Takes, gatewayVars
  <2>2. ~frame.corrupted => frame.raw.event_id \in Arrived
    <3> SUFFICES ASSUME ~frame.corrupted
                 PROVE  frame.raw.event_id \in Arrived
      OBVIOUS
    <3>1. PICK e \in Translations :
             frame.raw.ttl = e.ttl % BYTE /\ frame.raw.hlc_ms = e.created_ms % U48
      BY <2>1
    <3>2. PICK t \in Times : ~NodeB!Verified(frame, t)
      BY <1>5 DEF Refuses
    <3>3. frame.raw.ttl # 0 /\ NodeB!Distance(frame.raw.hlc_ms, t) <= HLC_REPLAY_WINDOW_MS
      BY <3>1 DEF WithinReach
    <3>4. frame.raw.event_id \in b_seen_lora
      BY <3>2, <3>3 DEF NodeB!Verified
    <3> QED
      BY <3>4 DEF PathInv
  <2> QED
    BY <1>0, <2>1, <2>2
<1>6. ASSUME NEW keeps \in BOOLEAN, LosesQueue(keeps)
      PROVE  CarriedInv'
  BY <1>0, <1>6, WhoArrives DEF LosesQueue, gatewayVars
<1>7. ASSUME NEW keeps \in BOOLEAN, LosesRing(keeps)
      PROVE  CarriedInv'
  BY <1>0, <1>7, WhoArrives DEF LosesRing
<1>8. ASSUME NEW inbound \in Inbounds, Stores(inbound)
      PROVE  CarriedInv'
  <2>1. Arrived' = Arrived
    BY <1>8, WhoArrives
  <2> QED
    BY <1>0, <1>8, <2>1 DEF Stores
<1> QED
  BY <1>1, <1>2, <1>3, <1>4, <1>5, <1>6, <1>7, <1>8, StepsOfThePath DEF PathStep

(* Within reach, what the channel took is on air or in the gateway.         *)
THEOREM SentStaysCarried ==
  ASSUME WithinReach
  PROVE  Spec => []SentIsCarried
<1>1. Init => CarriedInv
  <2> SUFFICES ASSUME Init
               PROVE  CarriedInv
    OBVIOUS
  <2>1. Flying = {}
    BY DEF Init, ChannelInit, Flying, Range
  <2> QED
    BY <2>1 DEF Init, CarriedInv
<1>2. TypeOK /\ PathInv /\ CarriedInv /\ [Next]_vars => CarriedInv'
  BY StepCarried
<1>3. CarriedInv => SentIsCarried
  BY OnAirIsFlying DEF CarriedInv, SentIsCarried
<1> QED
  BY <1>1, <1>2, <1>3, PathHolds, PTL DEF Spec

-----------------------------------------------------------------------------
(* The routes the gateway has of an id. *)
RoutesOf(i) == {k \in DOMAIN routes : routes[k].event_id = i}

(* A replay ring lets an id through once: there is a route, or what will be *)
(* one in the driver's hands, for each ring NodeB lost, and one more if the *)
(* ring at hand knows the id.                                               *)
InHandOf(i) == IF i \in InHand THEN 1 ELSE 0

RoutesBound(i) ==
  /\ IsFiniteSet(RoutesOf(i))
  /\ Cardinality(RoutesOf(i)) + InHandOf(i)
       <= wipes + (IF i \in b_seen_lora THEN 1 ELSE 0)

RoutesInv == \A i \in Ids : RoutesBound(i)

LEMMA StepRoutes ==
  ASSUME TypeOK, RoutesInv, [Next]_vars
  PROVE  RoutesInv'
<1> SUFFICES ASSUME NEW i \in Ids
             PROVE  RoutesBound(i)'
  BY DEF RoutesInv
<1>1. /\ IsFiniteSet(RoutesOf(i)) /\ Cardinality(RoutesOf(i)) \in Nat /\ wipes \in Nat
      /\ Cardinality(RoutesOf(i)) + InHandOf(i)
           <= wipes + (IF i \in b_seen_lora THEN 1 ELSE 0)
  BY FS_CardinalityType DEF RoutesInv, RoutesBound, TypeOK
<1>2. CASE UNCHANGED gatewayVars
  <2>1. RoutesOf(i)' = RoutesOf(i) /\ InHandOf(i)' = InHandOf(i)
    BY <1>2 DEF gatewayVars, RoutesOf, InHandOf, InHand
  <2> QED
    BY <1>1, <1>2, <2>1 DEF gatewayVars, RoutesBound
<1>3. ASSUME NEW frame \in Frames, Hands(frame)
      PROVE  RoutesBound(i)'
  <2>1. /\ RoutesOf(i)' = RoutesOf(i) /\ wipes' = wipes
        /\ InHand = {} /\ InHand' = {frame.raw.event_id}
        /\ frame.raw.event_id \notin b_seen_lora
        /\ b_seen_lora' = b_seen_lora \cup {frame.raw.event_id}
    BY <1>3 DEF Hands, Takes, RoutesOf, InHand, NodeB!Inbound
  <2>2. CASE frame.raw.event_id = i
    BY <1>1, <2>1, <2>2 DEF RoutesBound, InHandOf
  <2>3. CASE frame.raw.event_id # i
    BY <1>1, <2>1, <2>3 DEF RoutesBound, InHandOf
  <2> QED
    BY <2>2, <2>3
<1>4. ASSUME NEW inbound \in Inbounds, Stores(inbound)
      PROVE  RoutesBound(i)'
  <2>1. /\ InHand = {inbound.event_id} /\ InHand' = {}
        /\ routes' = Append(routes, inbound) /\ UNCHANGED <<b_seen_lora, wipes>>
    BY <1>4 DEF Stores, InHand, GatewayReceive
  <2>2. DOMAIN routes = 1..Len(routes) /\ Len(routes) \in Nat
    BY DEF TypeOK
  <2>3. /\ DOMAIN routes' = 1..Len(routes) + 1
        /\ \A k \in DOMAIN routes : routes'[k] = routes[k]
        /\ routes'[Len(routes) + 1] = inbound
    BY <2>1, <2>2, AppendedIsNumbered
  <2>4. CASE inbound.event_id = i
    <3>1. RoutesOf(i)' = RoutesOf(i) \cup {Len(routes) + 1}
      BY <2>1, <2>2, <2>3, <2>4 DEF RoutesOf
    <3>2. Len(routes) + 1 \notin RoutesOf(i)
      BY <2>2 DEF RoutesOf
    <3>3. /\ IsFiniteSet(RoutesOf(i)')
          /\ Cardinality(RoutesOf(i)') = Cardinality(RoutesOf(i)) + 1
      BY <1>1, <3>1, <3>2, FS_AddElement
    <3> QED
      BY <1>1, <2>1, <2>4, <3>3 DEF RoutesBound, InHandOf
  <2>5. CASE inbound.event_id # i
    <3>1. RoutesOf(i)' = RoutesOf(i)
      BY <2>1, <2>2, <2>3, <2>5 DEF RoutesOf
    <3> QED
      BY <1>1, <2>1, <2>5, <3>1 DEF RoutesBound, InHandOf
  <2> QED
    BY <2>4, <2>5
<1>5. ASSUME NEW keeps \in BOOLEAN, LosesRing(keeps)
      PROVE  RoutesBound(i)'
  <2>1. RoutesOf(i)' = RoutesOf(i) /\ InHandOf(i)' = InHandOf(i) /\ InHandOf(i) \in 0..1
    BY <1>5 DEF LosesRing, RoutesOf, InHandOf, InHand
  <2>2. CASE keeps
    BY <1>1, <1>5, <2>1, <2>2 DEF LosesRing, RoutesBound
  <2>3. CASE ~keeps
    BY <1>1, <1>5, <2>1, <2>3 DEF LosesRing, RoutesBound
  <2> QED
    BY <2>2, <2>3
<1> QED
  BY <1>2, <1>3, <1>4, <1>5, StepsOfThePath
     DEF PathStep, Queues, Keeps, Sends, Refuses, LosesQueue

(* The gateway hears of an event once for each replay ring NodeB has had.   *)
THEOREM RoutesAreOnePerRing ==
  Spec => []OneRoutePerRing
<1>1. Init => RoutesInv
  <2> SUFFICES ASSUME Init, NEW i \in Ids
               PROVE  RoutesBound(i)
    BY DEF RoutesInv
  <2>1. RoutesOf(i) = {} /\ InHandOf(i) = 0
    BY DEF Init, GatewayInit, RoutesOf, InHandOf, InHand
  <2>2. wipes = 0 /\ b_seen_lora = {}
    BY DEF Init
  <2> QED
    BY <2>1, <2>2, FS_EmptySet DEF RoutesBound
<1>2. TypeOK /\ RoutesInv /\ [Next]_vars => RoutesInv'
  BY StepRoutes
<1>3. ASSUME TypeOK, RoutesInv
      PROVE  OneRoutePerRing
  <2> SUFFICES ASSUME NEW i \in Ids
               PROVE  Cardinality(RoutesOf(i)) <= 1 + wipes
    BY DEF OneRoutePerRing, RoutesOf
  <2>1. /\ Cardinality(RoutesOf(i)) \in Nat /\ wipes \in Nat /\ InHandOf(i) \in 0..1
        /\ Cardinality(RoutesOf(i)) + InHandOf(i)
             <= wipes + (IF i \in b_seen_lora THEN 1 ELSE 0)
    BY <1>3, FS_CardinalityType DEF RoutesInv, RoutesBound, TypeOK, InHandOf
  <2> QED
    BY <2>1
<1> QED
  BY <1>1, <1>2, <1>3, TypeCorrect, PTL DEF Spec

-----------------------------------------------------------------------------
(* The row of an event stays the row of whatever carries it.                *)
RowsInv ==
  /\ \A e \in queue : RowOf(e) \in accepted
  /\ \A frame \in Flying : ~frame.corrupted => RowOfFrame(frame) \in accepted
  /\ \A inbound \in handed : Row(inbound) \in accepted
  /\ \A i \in DOMAIN events : events[i] \in accepted /\ events[i].event_id = i

LEMMA FrameKeepsRow ==
  ASSUME NEW e
  PROVE  RowOfFrame(Frame(e)) = RowOf(e)
BY DEF RowOfFrame, Row, NodeB!Inbound, Frame, BuildFrame, RowOf

LEMMA StepRows ==
  ASSUME TypeOK, RowsInv, [Next]_vars
  PROVE  RowsInv'
<1> USE DEF RowsInv
<1>0. /\ \A e : RowOf(e)' = RowOf(e)
      /\ \A frame : RowOfFrame(frame)' = RowOfFrame(frame)
      /\ \A inbound : Row(inbound)' = Row(inbound)
  BY DEF RowOf, RowOfFrame, Row, NodeB!Inbound
<1>1. ASSUME NEW env \in Envelopes, Queues(env)
      PROVE  RowsInv'
  BY <1>0, <1>1 DEF Queues, gatewayVars
<1>2. CASE Keeps
  BY <1>0, <1>2, KeptFlies DEF Keeps, gatewayVars
<1>3. ASSUME NEW best \in queue, Sends(best)
      PROVE  RowsInv'
  BY <1>0, <1>3, FrameKeepsRow DEF Sends, gatewayVars
<1>4. ASSUME NEW frame \in Frames, Hands(frame)
      PROVE  RowsInv'
  <2>1. /\ ~frame.corrupted /\ Flying = {frame} \cup Flying'
        /\ UNCHANGED <<queue, accepted, events>>
        /\ handed' = {NodeB!Inbound("NodeB", frame)}
    BY <1>4 DEF Hands, Takes
  <2>2. Row(NodeB!Inbound("NodeB", frame)) \in accepted
    BY <2>1 DEF RowOfFrame
  <2> QED
    BY <1>0, <2>1, <2>2
<1>5. ASSUME NEW frame \in Frames, Refuses(frame)
      PROVE  RowsInv'
  BY <1>0, <1>5 DEF Refuses, Takes, gatewayVars
<1>6. ASSUME NEW keeps \in BOOLEAN, LosesQueue(keeps)
      PROVE  RowsInv'
  BY <1>0, <1>6 DEF LosesQueue, gatewayVars
<1>7. ASSUME NEW keeps \in BOOLEAN, LosesRing(keeps)
      PROVE  RowsInv'
  BY <1>0, <1>7 DEF LosesRing
<1>8. ASSUME NEW inbound \in Inbounds, Stores(inbound)
      PROVE  RowsInv'
  <2>1. Row(inbound) \in accepted /\ Row(inbound).event_id = inbound.event_id
    BY <1>8 DEF Stores, Row
  <2>2. /\ DOMAIN events' = DOMAIN events \cup {inbound.event_id}
        /\ \A i \in DOMAIN events : events'[i] = events[i]
        /\ inbound.event_id \notin DOMAIN events => events'[inbound.event_id] = Row(inbound)
    BY <1>8, StoredRows DEF Stores
  <2>3. \A i \in DOMAIN events' : events'[i] \in accepted /\ events'[i].event_id = i
    BY <2>1, <2>2
  <2>4. handed' = {} /\ Flying' = Flying /\ UNCHANGED <<queue, accepted>>
    BY <1>8 DEF Stores
  <2> QED
    BY <1>0, <2>3, <2>4
<1> QED
  BY <1>1, <1>2, <1>3, <1>4, <1>5, <1>6, <1>7, <1>8, StepsOfThePath DEF PathStep

LEMMA StepKeepsStore ==
  ASSUME TypeOK, RowsInv, [Next]_vars
  PROVE  [Store!Next]_<<accepted, {events[i] : i \in DOMAIN events}>>
<1> DEFINE stored == {events[i] : i \in DOMAIN events}
<1> SUFFICES Store!Next \/ UNCHANGED <<accepted, stored>>
  OBVIOUS
<1>1. ASSUME NEW env \in Envelopes, Queues(env)
      PROVE  Store!Next
  <2>1. Queued(env) \in Translations
    BY <1>1, QueuedIsATranslation DEF Queues
  <2>2. Store!Accept(RowOf(Queued(env)))
    BY <1>1 DEF Queues, gatewayVars, Store!Accept
  <2> QED
    BY <2>1, <2>2 DEF Store!Next
<1>2. ASSUME NEW inbound \in Inbounds, Stores(inbound)
      PROVE  Store!Next \/ UNCHANGED <<accepted, stored>>
  <2> DEFINE id == inbound.event_id
             row == Row(inbound)
  <2>1. accepted' = accepted /\ row \in accepted
    BY <1>2 DEF Stores, RowsInv
  <2>2. /\ DOMAIN events' = DOMAIN events \cup {id}
        /\ \A i \in DOMAIN events : events'[i] = events[i]
        /\ id \notin DOMAIN events => events'[id] = row
    BY <1>2, StoredRows DEF Stores
  <2>3. CASE id \in DOMAIN events
    <3>1. stored' = stored
      BY <2>2, <2>3
    <3> QED
      BY <2>1, <3>1
  <2>4. CASE id \notin DOMAIN events
    <3>1. stored' = stored \cup {row}
      BY <2>2, <2>4
    <3>2. row.event_id = id
      BY DEF Row
    <3>3. \A s \in stored : s.event_id # row.event_id
      BY <2>4, <3>2 DEF RowsInv
    <3>4. Store!Store({row})
      BY <2>1, <3>1, <3>3 DEF Store!Store
    <3> QED
      BY <2>1, <3>4 DEF Store!Next
  <2> QED
    BY <2>3, <2>4
<1> QED
  BY <1>1, <1>2, StepsOfThePath
     DEF PathStep, Keeps, Sends, Hands, Refuses, Takes, LosesQueue, LosesRing, gatewayVars

(* The path implements the event store: what a phone got accepted is stored *)
(* unchanged, at most once per id, and nothing else is.                     *)
THEOREM ImplementsEventStore ==
  Spec => StoreSpec
<1>1. Init => RowsInv /\ Store!Init
  <2> SUFFICES ASSUME Init
               PROVE  RowsInv /\ Store!Init
    OBVIOUS
  <2>1. Flying = {} /\ DOMAIN events = {}
    BY DEF Init, ChannelInit, GatewayInit, Flying, Range
  <2> QED
    BY <2>1 DEF Init, NodeInit, RowsInv, Store!Init
<1>2. TypeOK /\ RowsInv /\ [Next]_vars => RowsInv'
  BY StepRows
<1>3. TypeOK /\ RowsInv /\ [Next]_vars
        => [Store!Next]_<<accepted, {events[i] : i \in DOMAIN events}>>
  BY StepKeepsStore
<1> QED
  BY <1>1, <1>2, <1>3, TypeCorrect, PTL DEF Spec, StoreSpec, Store!Spec
=============================================================================
