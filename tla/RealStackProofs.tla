--------------------------- MODULE RealStackProofs ---------------------------
(***************************************************************************)
(* What a run of the real stack keeps true whatever the profile, the       *)
(* number of frames and the moment a pump ends: which processes outlive    *)
(* it, which frames and rows the gateway is given, and that the report and *)
(* the verdict of GATE-SCEN say what happened.                             *)
(***************************************************************************)
EXTENDS RealStack, SharedLemmas

-----------------------------------------------------------------------------
(* The parts of the inductive invariant. *)

\* The stages before the phone's events are injected.
Starting == {"start", "wait", "inject"}

\* What the stage of the run says of its second NodeB and of an exception.
LifeInv ==
  /\ second => pc \in {"wait2", "replay", "pump2", "ingest2", "stop2", "finally", "over"}
  /\ raised => pc \in {"finally", "over"}
  /\ pc \in {"restart", "restart2", "wait2", "replay", "pump2", "ingest2", "stop2"} =>
        mode = "e2e"
  /\ pc = "ingest" => mode # "stream"
  /\ pc = "finally" /\ second /\ ~raised => ~up[NodeB]
  /\ OnlyNodeB2Outlives

\* A process whose own output has the ready line is ready.
ReadyInv ==
  /\ pc = "wait" => \A n \in Nodes : SaysReady(n) => ready[n]
  /\ pc = "wait2" => (SaysReady(NodeB) => ready[NodeB])
  /\ ReadyIsItsOwn

\* Nothing is on its way, or has been.
AirIsEmpty ==
  /\ hub_in = <<>> /\ taps = <<>> /\ sos_frame = <<>> /\ stats.rx_from_nodes = 0
  /\ \A n \in Nodes : node_in[n] = <<>>

\* ... and no node has anything to put on air.
Silent == AirIsEmpty /\ \A n \in Nodes : held[n] = {}

\* Until NodeA takes what the phone made, in a run that starts fresh, nobody does.
QuietInv ==
  /\ ble_in[NodeB] = <<>> /\ ble_in[NodeA] \in {<<>>, <<{Presence, Sos}>>}
  /\ pc \in Starting \cup {"fresh"} => ble_in[NodeA] = <<>>
  /\ pc = "fresh" => AirIsEmpty /\ \A n \in Nodes : ~up[n] /\ ~ready[n]
  /\ mode # "stream" /\ (pc \in Starting \/ ble_in[NodeA] # <<>>) =>
        Silent /\ \A n \in Nodes : seen[n] = {}

\* How much of the tap the gateway has been fed.
FedInv ==
  /\ mode # "stream" =>
        /\ pc \in Starting \cup {"pump", "ingest"} => feed_file = <<>> /\ DOMAIN db = {}
        /\ pc \in {"restart", "restart2", "wait2", "replay"} => feed_file = Feed(taps)
        /\ pc \in {"pump2", "ingest2"} =>
              before <= Len(taps) /\ feed_file = Feed(SubSeq(taps, 1, before))
        /\ pc \in {"stop2", "finally", "over"} /\ ~raised => feed_file = Feed(taps)
  /\ EachTapIsFedOnce

\* The rows the gateway had when the run first read them, and what became of them.
HeardInv ==
  /\ \A k \in DOMAIN hub_in : ~hub_in[k].garbled
  /\ mode = "e2e" => \A k \in DOMAIN taps : ~taps[k].garbled
  /\ pc \in {"restart", "restart2", "wait2", "replay"} =>
        events = db /\ events_after = db /\ DOMAIN db = IdsIn(Feed(taps))
  /\ pc \in {"pump2", "ingest2"} =>
        events = db /\ events_after = db /\ DOMAIN db = IdsIn(Feed(SubSeq(taps, 1, before)))
  /\ pc \in {"stop2", "finally", "over"} /\ ~raised /\ mode = "e2e" =>
        /\ before <= Len(taps) /\ DOMAIN events = IdsIn(Feed(SubSeq(taps, 1, before)))
        /\ \A i \in DOMAIN events : i \in DOMAIN events_after /\ events_after[i] = events[i]
  /\ pc \in {"finally", "over"} /\ ~raised /\ mode = "chaos" =>
        DOMAIN events = IdsIn(Feed(taps)) /\ feed_order = FeedOrder(taps)

\* While the first frames are taken away, only NodeA has anything to say.
WindowInv ==
  stats.rx_from_nodes <= profile.drop_first_frames /\ mode = "chaos" /\ pc # "fresh" =>
    /\ seen[NodeB] = {} /\ taps = <<>>
    /\ held[NodeB] = {} /\ \A n \in Nodes : node_in[n] = <<>>
    /\ \A k \in DOMAIN hub_in : hub_in[k].src = NodeA

\* The counters of the hub: each frame met one fate at each receiver.
CountInv ==
  /\ Len(taps) = stats.tap["intact"] + stats.tap["corrupt"]
  /\ Sum(stats.tap) = stats.rx_from_nodes
  /\ Sum(stats.fanout) = stats.rx_from_nodes

\* An own event before its first attempt.
Unsent(i) == [id |-> i, relay |-> FALSE, tries |-> 0]

\* Without trouble the first frame of all is the SOS.
FirstInv ==
  mode = "e2e" =>
    /\ window = "ahead" /\ (taps = <<>> => sos_frame = <<>>)
    /\ taps # <<>> => taps[1].event_id = Sos
    /\ taps = <<>> /\ hub_in # <<>> => hub_in[1].event_id = Sos
    /\ taps = <<>> /\ hub_in = <<>> /\ pc # "fresh" =>
          /\ held[NodeA] \in {{}, {Unsent(Presence), Unsent(Sos)}}
          /\ held[NodeB] = {} /\ \A n \in Nodes : node_in[n] = <<>>

\* Nothing is under way before NodeA has given its receipts.
ReceiptInv ==
  mode # "stream" /\ pc # "fresh" => Silent \/ \E k \in DOMAIN out[NodeA] : out[NodeA][k] = "receipt"

\* Before NodeA repeats itself no more frames are sent than there are events.
AttemptInv ==
  mode = "chaos" /\ pc # "fresh" /\ profile.drop_first_frames >= 2 =>
    \/ \E k \in DOMAIN out[NodeA] : out[NodeA][k] = "retransmit"
    \/ /\ stats.rx_from_nodes + Len(hub_in) + (IF Unsent(Sos) \in held[NodeA] THEN 1 ELSE 0)
             + (IF Unsent(Presence) \in held[NodeA] THEN 1 ELSE 0) <= 2
       /\ \A e \in held[NodeA] : e.tries = 0 => e \in {Unsent(Sos), Unsent(Presence)}

\* What the verdict needs of the first ingest, if the gateway heard anything.
VerdictInv ==
  /\ pc \in {"restart", "restart2", "wait2", "replay", "pump2", "ingest2", "stop2",
              "finally", "over"}
  /\ ~raised /\ DOMAIN events # {}
  => /\ mode = "e2e" => /\ counted.receipts >= 1
                        /\ feed_order # <<>> /\ feed_order[1] = Sos
     /\ run.name = "partition_heal" => counted.retransmits >= 1

-----------------------------------------------------------------------------
(* The steps of the driver but for the pump. *)
DriverStep ==
  \/ Fresh \/ StartNodes \/ WaitNodes \/ Inject \/ PumpEnds \/ Ingest
  \/ StopNodeB \/ StartNodeB2 \/ WaitNodeB2 \/ Replay \/ IngestAgain
  \/ StopNodeB2 \/ Finally

(* A step is one of the driver, of the hub, of a field node or of time.     *)
LEMMA Steps ==
  ASSUME [Next]_vars
  PROVE  \/ DriverStep \/ Pump \/ TimePasses \/ UNCHANGED vars
         \/ \E n \in Nodes : /\ UNCHANGED driverVars
                             /\ \/ GetsReady(n) \/ TakesBatch(n) \/ Hears(n)
                                \/ \E e \in held[n] : Transmits(n, e)
  BY DEF Next, Driver, DriverStep, FieldNodes, FieldNodeStep

(* No step changes the run, its function and the profile.                   *)
LEMMA RunStays ==
  ASSUME TypeOK, [Next]_vars
  PROVE  run' = run /\ mode' = mode /\ profile' = profile
<1>1. CASE DriverStep
  <2>1. run' = run /\ profile' = profile
    BY <1>1 DEF DriverStep, Fresh, StartNodes, WaitNodes, WaitsFor, Inject, PumpEnds,
                Ingest, StopNodeB, StartNodeB2, WaitNodeB2, Replay, ReplayTo, IngestAgain,
                StopNodeB2, Finally, Kill, hubVars
  <2> QED
    BY <2>1 DEF mode
<1>2. CASE Pump \/ TimePasses
  BY <1>2 DEF Pump, Route, TimePasses, WindowMoves, driverVars, mode
<1>3. CASE UNCHANGED vars
  BY <1>3 DEF vars, driverVars, hubVars, mode
<1>4. ASSUME NEW n \in Nodes, UNCHANGED driverVars,
             \/ GetsReady(n) \/ TakesBatch(n) \/ Hears(n)
             \/ \E e \in held[n] : Transmits(n, e)
      PROVE  run' = run /\ mode' = mode /\ profile' = profile
  BY <1>4 DEF GetsReady, TakesBatch, Hears, Transmits, driverVars, hubVars, mode
<1> QED
  BY <1>1, <1>2, <1>3, <1>4, Steps

(* What reaches a receiver of a frame: at most one copy, and the frame      *)
(* itself unless it was corrupted.                                          *)
LEMMA CopiesOf ==
  ASSUME NEW frame \in Frames, NEW fate \in Fates
  PROVE  /\ Copies(frame, fate) \in Seq(Frames)
         /\ fate = "intact" => Copies(frame, fate) = <<frame>>
         /\ fate = "corrupt" => Copies(frame, fate) = <<[frame EXCEPT !.garbled = TRUE]>>
         /\ fate \notin {"intact", "corrupt"} => Copies(frame, fate) = <<>>
<1> DEFINE other == [frame EXCEPT !.garbled = TRUE]
<1>1. other \in Frames
  BY DEF Frames
<1>2. Copies(frame, fate) = IF fate = "intact" THEN <<frame>>
                            ELSE IF fate = "corrupt" THEN <<other>> ELSE <<>>
  BY DEF Copies
<1> HIDE DEF other
<1>3. <<frame>> \in Seq(Frames) /\ <<other>> \in Seq(Frames) /\ <<>> \in Seq(Frames)
  BY <1>1
<1>4. Copies(frame, fate) \in Seq(Frames)
  BY <1>2, <1>3
<1> QED
  BY <1>2, <1>4 DEF other

(* The radio loses, corrupts or delivers, as its profile allows.            *)
LEMMA FatesOf ==
  ASSUME NEW frame, NEW dst
  PROVE  /\ TapFates \subseteq Fates /\ FatesAt(frame, dst) \subseteq Fates
         /\ Partitioned => TapFates = {"partition"} /\ FatesAt(frame, dst) = {"partition"}
         /\ profile = NoTrouble /\ window = "ahead" /\ stats.rx_from_nodes \in Nat =>
               TapFates = {"intact"} /\ FatesAt(frame, dst) = {"intact"}
<1>1. RadioFates \subseteq {"loss", "corrupt", "intact"}
  BY DEF RadioFates
<1>2. ASSUME profile = NoTrouble
      PROVE  RadioFates = {"intact"}
  <2>1. Hit(0) \subseteq BOOLEAN /\ FALSE \in Hit(0) /\ TRUE \notin Hit(0)
    BY DEF Hit
  <2>2. \A hit \in Hit(0) : hit = FALSE
    BY <2>1
  <2>3. {IF hit THEN "corrupt" ELSE "intact" : hit \in Hit(0)} = {"intact"}
    BY <2>1, <2>2
  <2>4. \A lost \in Hit(0) :
           (IF lost THEN {"loss"} ELSE {IF hit THEN "corrupt" ELSE "intact" : hit \in Hit(0)})
              = {"intact"}
    BY <2>2, <2>3
  <2>5. profile.packet_loss_percent = 0 /\ profile.corrupt_percent = 0
    BY <1>2 DEF NoTrouble
  <2> QED
    BY <2>1, <2>4, <2>5 DEF RadioFates
<1>3. ASSUME profile = NoTrouble, window = "ahead", stats.rx_from_nodes \in Nat
      PROVE  ~Partitioned /\ <<frame.src, dst>> \notin profile.down
  BY <1>3 DEF Partitioned, NoTrouble
<1> QED
  BY <1>1, <1>2, <1>3 DEF TapFates, FatesAt, Fates

(* The pump takes a frame: at the tap and at the one other node it meets a  *)
(* fate each.                                                               *)
PumpStep(frame, tapped, other, met) ==
  /\ pc \in {"pump", "pump2"} /\ UNCHANGED <<profile, window, nodeVars, driverVars>>
  /\ hub_in # <<>> /\ frame = Head(hub_in) /\ hub_in' = Tail(hub_in)
  /\ tapped \in TapFates /\ taps' = taps \o Copies(frame, tapped)
  /\ live_out' = IF mode = "stream" THEN live_out \o Copies(frame, tapped) ELSE live_out
  /\ other # frame.src /\ met \in FatesAt(frame, other)
  /\ node_in' = [n \in Nodes |->
        IF n = other /\ up[n] THEN node_in[n] \o Copies(frame, met) ELSE node_in[n]]
  /\ stats' = [rx_from_nodes |-> stats.rx_from_nodes + 1,
               tap |-> [stats.tap EXCEPT ![tapped] = @ + 1],
               fanout |-> [stats.fanout EXCEPT ![met] = @ + 1]]

LEMMA PumpSteps ==
  ASSUME TypeOK, Pump
  PROVE  \E frame \in Frames, tapped \in Fates, other \in Nodes, met \in Fates :
            PumpStep(frame, tapped, other, met)
<1> DEFINE frame == Head(hub_in)
           others == Nodes \ {frame.src}
<1>1. hub_in # <<>> /\ frame \in Frames
  BY DEF Pump, Route, TypeOK
<1>2. PICK other \in Nodes : others = {other} /\ other # frame.src
  <2>1. frame.src \in {1, 2} /\ Nodes = {1, 2}
    BY <1>1, StackAssumption DEF Frames
  <2> QED
    BY <2>1
<1>3. PICK tapped \in TapFates, m \in [others -> Fates] :
             /\ \A dst \in others : m[dst] \in FatesAt(frame, dst)
             /\ taps' = taps \o Copies(frame, tapped)
             /\ live_out' = IF mode = "stream" THEN live_out \o Copies(frame, tapped) ELSE live_out
             /\ node_in' = [n \in Nodes |->
                   IF n \in others /\ up[n] THEN node_in[n] \o Copies(frame, m[n])
                                            ELSE node_in[n]]
             /\ stats' =
                   [rx_from_nodes |-> stats.rx_from_nodes + 1,
                    tap |-> [stats.tap EXCEPT ![tapped] = @ + 1],
                    fanout |-> [f \in Fates |->
                        stats.fanout[f] + Cardinality({dst \in others : m[dst] = f})]]
  BY DEF Pump, Route
<1> HIDE DEF frame
<1> DEFINE met == m[other]
<1>4. met \in Fates /\ met \in FatesAt(frame, other)
  BY <1>2, <1>3
<1>5. ASSUME NEW f \in Fates
      PROVE  Cardinality({dst \in others : m[dst] = f}) = IF f = met THEN 1 ELSE 0
  <2>1. CASE f = met
    <3>1. {dst \in others : m[dst] = f} = {other}
      BY <1>2, <2>1
    <3> QED
      BY <2>1, <3>1, FS_Singleton
  <2>2. CASE f # met
    <3>1. {dst \in others : m[dst] = f} = {}
      BY <1>2, <2>2
    <3> QED
      BY <2>2, <3>1, FS_EmptySet
  <2> QED
    BY <2>1, <2>2
<1> HIDE DEF met
<1>6. stats'.fanout = [stats.fanout EXCEPT ![met] = @ + 1]
  <2>1. stats.fanout \in [Fates -> Nat]
    BY DEF TypeOK
  <2>2. [stats.fanout EXCEPT ![met] = @ + 1]
           = [f \in Fates |-> stats.fanout[f] + (IF f = met THEN 1 ELSE 0)]
    BY <1>4, <2>1
  <2>3. stats'.fanout = [f \in Fates |->
                            stats.fanout[f] + Cardinality({dst \in others : m[dst] = f})]
    BY <1>3
  <2> DEFINE Met(f) == Cardinality({dst \in others : m[dst] = f})
  <2>4. \A f \in Fates : Met(f) = IF f = met THEN 1 ELSE 0
    BY <1>5
  <2>5. stats'.fanout = [f \in Fates |-> stats.fanout[f] + Met(f)]
    BY <2>3
  <2> HIDE DEF Met
  <2> QED
    BY <2>2, <2>4, <2>5
<1>7. \A n \in Nodes : (n \in others <=> n = other) /\ (n = other => m[n] = met)
  BY <1>2 DEF met
<1>8. node_in' = [n \in Nodes |->
          IF n = other /\ up[n] THEN node_in[n] \o Copies(frame, met) ELSE node_in[n]]
  <2>1. \A n \in Nodes :
           (IF n \in others /\ up[n] THEN node_in[n] \o Copies(frame, m[n]) ELSE node_in[n])
           = (IF n = other /\ up[n] THEN node_in[n] \o Copies(frame, met) ELSE node_in[n])
    BY <1>7
  <2> HIDE DEF others
  <2> QED
    BY <1>3, <2>1
<1>9. stats' = [rx_from_nodes |-> stats.rx_from_nodes + 1,
                tap |-> [stats.tap EXCEPT ![tapped] = @ + 1],
                fanout |-> [stats.fanout EXCEPT ![met] = @ + 1]]
  BY <1>3, <1>6
<1>10. tapped \in Fates
  BY FatesOf
<1>11. /\ pc \in {"pump", "pump2"} /\ UNCHANGED <<profile, window, nodeVars, driverVars>>
       /\ hub_in' = Tail(hub_in)
  BY DEF Pump, Route
<1>12. PumpStep(frame, tapped, other, met)
  BY <1>1, <1>2, <1>3, <1>4, <1>8, <1>9, <1>11 DEF PumpStep, frame
<1> QED
  BY <1>1, <1>2, <1>4, <1>10, <1>12

-----------------------------------------------------------------------------
(* The records of some taps are the taps, in their order.                   *)
LEMMA FeedOf ==
  ASSUME NEW frames \in Seq(Frames)
  PROVE  /\ Feed(frames) \in Seq(Records) /\ Len(Feed(frames)) = Len(frames)
         /\ DOMAIN Feed(frames) = DOMAIN frames
         /\ \A k \in DOMAIN frames :
               /\ Feed(frames)[k] = [frame |-> frames[k], last_hop_node_id |-> frames[k].src]
               /\ Feed(frames)[k].frame = frames[k]
         /\ IdsIn(Feed(frames)) \subseteq Events
         /\ \A i : i \in IdsIn(Feed(frames)) <=>
                     \E k \in DOMAIN frames : ~frames[k].garbled /\ frames[k].event_id = i
<1>1. /\ DOMAIN frames = 1..Len(frames) /\ Len(frames) \in Nat
      /\ \A k \in DOMAIN frames : frames[k] \in Frames
  OBVIOUS
<1>2. \A k \in DOMAIN frames :
         [frame |-> frames[k], last_hop_node_id |-> frames[k].src] \in Records
  BY <1>1 DEF Records, Frames
<1>3. Feed(frames) \in [1..Len(frames) -> Records]
  BY <1>1, <1>2 DEF Feed
<1>4. Feed(frames) \in Seq(Records) /\ Len(Feed(frames)) = Len(frames)
  BY <1>1, <1>3
<1>5. /\ DOMAIN Feed(frames) = DOMAIN frames
      /\ \A k \in DOMAIN frames :
               /\ Feed(frames)[k] = [frame |-> frames[k], last_hop_node_id |-> frames[k].src]
               /\ Feed(frames)[k].frame = frames[k]
  BY DEF Feed
<1>6. \A i : i \in IdsIn(Feed(frames)) <=>
                     \E k \in DOMAIN frames : ~frames[k].garbled /\ frames[k].event_id = i
  BY <1>5 DEF IdsIn
<1>7. IdsIn(Feed(frames)) \subseteq Events
  BY <1>1, <1>6 DEF Frames
<1> QED
  BY <1>4, <1>5, <1>6, <1>7

(* A prefix and what comes after it are fed as the whole is.                *)
LEMMA FeedInSlices ==
  ASSUME NEW frames \in Seq(Frames), NEW n \in 0..Len(frames)
  PROVE  /\ SubSeq(frames, 1, n) \in Seq(Frames)
         /\ SubSeq(frames, n + 1, Len(frames)) \in Seq(Frames)
         /\ Len(SubSeq(frames, 1, n)) = n
         /\ Feed(SubSeq(frames, 1, n)) \o Feed(SubSeq(frames, n + 1, Len(frames)))
              = Feed(frames)
<1> DEFINE first == SubSeq(frames, 1, n)
           rest == SubSeq(frames, n + 1, Len(frames))
<1>1. /\ first \in Seq(Frames) /\ Len(first) = n
      /\ \A k \in 1..n : first[k] = frames[k]
  OBVIOUS
<1>2. /\ rest \in Seq(Frames) /\ Len(rest) = Len(frames) - n
      /\ \A k \in 1..Len(frames) - n : rest[k] = frames[n + k]
  OBVIOUS
<1> DEFINE both == Feed(first) \o Feed(rest)
<1> HIDE DEF first, rest, both
<1>3. /\ Feed(first) \in Seq(Records) /\ Len(Feed(first)) = n
      /\ Feed(rest) \in Seq(Records) /\ Len(Feed(rest)) = Len(frames) - n
      /\ Feed(frames) \in Seq(Records) /\ Len(Feed(frames)) = Len(frames)
  BY <1>1, <1>2, FeedOf
<1>4. both \in Seq(Records) /\ Len(both) = Len(frames)
  <2>1. n \in Nat /\ Len(frames) \in Nat /\ Len(frames) - n \in Nat
    OBVIOUS
  <2>2. Feed(first) \in Seq(Records) /\ Feed(rest) \in Seq(Records)
    BY <1>3
  <2>3. both \in Seq(Records) /\ Len(both) = Len(Feed(first)) + Len(Feed(rest))
    BY <2>2 DEF both
  <2> QED
    BY <1>3, <2>1, <2>3
<1>5. ASSUME NEW k \in 1..Len(frames)
      PROVE  both[k] = Feed(frames)[k]
  <2> n \in Nat /\ k \in Nat
    OBVIOUS
  <2>1. CASE k <= n
    <3>1. both[k] = Feed(first)[k]
      BY <1>3, <2>1 DEF both
    <3>2. k \in DOMAIN first /\ first[k] = frames[k]
      BY <1>1, <2>1
    <3>3. Feed(first)[k] = [frame |-> frames[k], last_hop_node_id |-> frames[k].src]
      BY <1>1, <3>2, FeedOf
    <3> QED
      BY <3>1, <3>3, FeedOf
  <2>2. CASE k > n
    <3>1. both[k] = Feed(rest)[k - n]
      BY <1>3, <2>2 DEF both
    <3>2. k - n \in DOMAIN rest /\ rest[k - n] = frames[k]
      BY <1>2, <2>2
    <3>3. Feed(rest)[k - n] = [frame |-> frames[k], last_hop_node_id |-> frames[k].src]
      BY <1>2, <3>2, FeedOf
    <3> QED
      BY <3>1, <3>3, FeedOf
  <2> QED
    BY <2>1, <2>2
<1>6. both = Feed(frames)
  BY <1>3, <1>4, <1>5
<1> QED
  BY <1>1, <1>2, <1>6 DEF both, first, rest

(* The order the gateway was fed in: the events of the intact frames.       *)
LEMMA OrderOf ==
  ASSUME NEW frames \in Seq(Frames)
  PROVE  LET intact == {k \in DOMAIN frames : ~frames[k].garbled}
         IN /\ FeedOrder(frames) \in Seq(Events)
            /\ Len(FeedOrder(frames)) = Cardinality(intact) /\ Cardinality(intact) \in Nat
            /\ \A k \in intact : \E j \in DOMAIN FeedOrder(frames) :
                  FeedOrder(frames)[j] = frames[k].event_id
            /\ 1 \in intact => /\ 1 \in DOMAIN FeedOrder(frames)
                               /\ FeedOrder(frames)[1] = frames[1].event_id
<1> DEFINE intact == {k \in DOMAIN frames : ~frames[k].garbled}
           sub == Subsequence(frames, intact)
<1>1. /\ DOMAIN frames = 1..Len(frames) /\ Len(frames) \in Nat
      /\ \A k \in DOMAIN frames : frames[k] \in Frames
  OBVIOUS
<1>2. intact \subseteq DOMAIN frames
  OBVIOUS
<1>3. /\ sub \in Seq(Frames) /\ Len(sub) = Cardinality(intact) /\ Cardinality(intact) \in Nat
      /\ \A k \in intact : /\ Rank(intact, k) \in DOMAIN sub
                           /\ sub[Rank(intact, k)] = frames[k]
  BY <1>2, SubsequenceKeeps
<1>4. FeedOrder(frames) = [k \in DOMAIN sub |-> sub[k].event_id]
  BY DEF FeedOrder
<1>5. 1 \in intact => Rank(intact, 1) = 1
  <2> SUFFICES ASSUME 1 \in intact
               PROVE  Rank(intact, 1) = 1
    OBVIOUS
  <2>1. {j \in intact : j <= 1} = {1}
    BY <1>1
  <2> QED
    BY <2>1, FS_Singleton DEF Rank
<1> HIDE DEF sub, intact
<1>6. /\ DOMAIN sub = 1..Len(sub) /\ Len(sub) \in Nat
      /\ \A k \in DOMAIN sub : sub[k].event_id \in Events
  <2>1. /\ DOMAIN sub = 1..Len(sub) /\ Len(sub) \in Nat
        /\ \A k \in DOMAIN sub : sub[k] \in Frames
    BY <1>3
  <2>2. \A f \in Frames : f.event_id \in Events
    BY DEF Frames
  <2> QED
    BY <2>1, <2>2
<1>7. FeedOrder(frames) \in [1..Len(sub) -> Events]
  BY <1>4, <1>6
<1>8. FeedOrder(frames) \in Seq(Events) /\ Len(FeedOrder(frames)) = Cardinality(intact)
  BY <1>3, <1>6, <1>7
<1>9. \A k \in intact : /\ Rank(intact, k) \in DOMAIN FeedOrder(frames)
                        /\ FeedOrder(frames)[Rank(intact, k)] = frames[k].event_id
  BY <1>3, <1>4
<1>10. 1 \in intact => /\ 1 \in DOMAIN FeedOrder(frames)
                       /\ FeedOrder(frames)[1] = frames[1].event_id
  BY <1>5, <1>9
<1> QED
  BY <1>3, <1>8, <1>9, <1>10 DEF intact

(* Counting the lines of a node.                                            *)
LEMMA LinesOf ==
  ASSUME TypeOK, NEW n \in Nodes, NEW line
  PROVE  /\ Lines(n, line) \in Nat
         /\ Lines(n, line) >= 1 <=> \E k \in DOMAIN out[n] : out[n][k] = line
<1> DEFINE places == {k \in DOMAIN out[n] : out[n][k] = line}
<1>1. out[n] \in Seq(OutLines)
  BY DEF TypeOK
<1>2. places \in SUBSET (1..Len(out[n])) /\ Len(out[n]) \in Nat
  BY <1>1
<1>3. IsFiniteSet(places)
  BY <1>2, FS_Interval, FS_Subset
<1>4. Cardinality(places) \in Nat /\ (Cardinality(places) = 0 <=> places = {})
  BY <1>3, FS_CardinalityType, FS_EmptySet
<1> QED
  BY <1>4 DEF Lines

(* The tapped SOS is one of NodeA's taps.                                   *)
LEMMA TappedSosOf ==
  ASSUME taps \in Seq(Frames)
  PROVE  /\ TappedSos \in {<<>>} \cup {<<f>> : f \in Frames}
         /\ taps = <<>> => TappedSos = <<>>
<1> DEFINE places == {k \in DOMAIN taps : /\ taps[k].src = NodeA /\ taps[k].event_id = Sos
                                          /\ ~taps[k].garbled}
           mine == Subsequence(taps, places)
<1>1. /\ mine \in Seq(Frames) /\ Len(mine) = Cardinality(places)
      /\ \A k \in DOMAIN mine : \E i \in places : mine[k] = taps[i]
  <2>1. places \subseteq DOMAIN taps
    OBVIOUS
  <2> HIDE DEF places
  <2>2. /\ Subsequence(taps, places) \in Seq(Frames)
        /\ Len(Subsequence(taps, places)) = Cardinality(places)
        /\ \A k \in DOMAIN Subsequence(taps, places) : \E i \in places :
              Rank(places, i) = k /\ Subsequence(taps, places)[k] = taps[i]
    BY <2>1, SubsequenceKeeps
  <2> QED
    BY <2>2
<1>2. TappedSos = IF mine = <<>> THEN <<>> ELSE <<Head(mine)>>
  BY DEF TappedSos
<1>3. taps = <<>> => places = {}
  OBVIOUS
<1> HIDE DEF mine, places
<1>4. mine # <<>> => Head(mine) \in Frames /\ 1 \in DOMAIN mine
  BY <1>1
<1>5. taps = <<>> => mine = <<>>
  BY <1>1, <1>3, <1>4
<1> QED
  BY <1>2, <1>4, <1>5

-----------------------------------------------------------------------------
(* The types of what a step makes anew. *)
LEMMA KillKeepsTypes ==
  ASSUME TypeOK, NEW nodes, Kill(nodes)
  PROVE  /\ up' \in [Nodes -> BOOLEAN] /\ ready' \in [Nodes -> BOOLEAN]
         /\ held' \in [Nodes -> SUBSET {e \in Held : e.tries < MAX_ATTEMPTS}]
         /\ ble_in' \in [Nodes -> Seq(SUBSET Events)]
         /\ node_in' \in [Nodes -> Seq(Frames)]
<1> QED
  BY DEF TypeOK, Kill

LEMMA StartsKeepsTypes ==
  ASSUME TypeOK, NEW nodes, Starts(nodes)
  PROVE  /\ up' \in [Nodes -> BOOLEAN] /\ seen' \in [Nodes -> SUBSET Events]
         /\ held' \in [Nodes -> SUBSET {e \in Held : e.tries < MAX_ATTEMPTS}]
         /\ start_offset' \in [Nodes -> Nat]
<1> DEFINE H == {e \in Held : e.tries < MAX_ATTEMPTS}
<1>1. \A n \in Nodes : Len(out[n]) \in Nat
  BY DEF TypeOK
<1>2. up' \in [Nodes -> BOOLEAN] /\ start_offset' \in [Nodes -> Nat]
  BY <1>1 DEF TypeOK, Starts, Spawn
<1>3. seen \in [Nodes -> SUBSET Events] /\ held \in [Nodes -> SUBSET H]
  BY DEF TypeOK
<1> HIDE DEF H
<1>4. seen' \in [Nodes -> SUBSET Events] /\ held' \in [Nodes -> SUBSET H]
  BY <1>3 DEF Starts, Spawn
<1> QED
  BY <1>2, <1>4 DEF H

LEMMA IngestKeepsTypes ==
  ASSUME TypeOK, NEW frames \in Seq(Frames),
         IngestFeed(Feed(frames)) \/ IngestFails(Feed(frames))
  PROVE  /\ feed_file' \in Seq(Records) /\ DOMAIN db' \subseteq Events
         /\ IngestFeed(Feed(frames)) =>
              /\ AddsRows(db, Feed(frames), db')
              /\ DOMAIN db' = DOMAIN db \cup IdsIn(Feed(frames))
<1>1. Feed(frames) \in Seq(Records) /\ IdsIn(Feed(frames)) \subseteq Events
  BY FeedOf
<1>2. feed_file' \in Seq(Records)
  <2>1. feed_file \in Seq(Records)
    BY DEF TypeOK
  <2>2. feed_file' = feed_file \/ feed_file' = feed_file \o Feed(frames)
    BY DEF IngestFeed, IngestFails
  <2>3. feed_file \o Feed(frames) \in Seq(Records)
    BY <1>1, <2>1, RangeOfConcat
  <2> QED
    BY <2>1, <2>2, <2>3
<1>3. IngestFeed(Feed(frames)) =>
              /\ AddsRows(db, Feed(frames), db')
              /\ DOMAIN db' = DOMAIN db \cup IdsIn(Feed(frames))
  BY <1>1, IngestAddsRows DEF IngestFeed
<1>4. db' = db \/ AddsRows(db, Feed(frames), db')
  BY <1>1, <1>3, PartialIngestAddsRows DEF IngestFails
<1>5. DOMAIN db' \subseteq Events
  BY <1>1, <1>4 DEF AddsRows, TypeOK
<1> QED
  BY <1>2, <1>3, <1>5

(* In the first state every variable has its type.                          *)
LEMMA InitTypes == Init => TypeOK
<1> SUFFICES ASSUME Init
             PROVE  TypeOK
  OBVIOUS
<1>1. MAX_ATTEMPTS \in Nat \ {0} /\ Presence \in Events /\ NodeA \in Nodes
  BY FieldNodeAssumption, StackAssumption DEF NodeA
<1>2. <<Line(Presence)>> \in Seq(Frames) /\ <<>> \in Seq(Frames)
  BY <1>1 DEF Line, Frames
<1>3. CallersLines \in Seq([src : Nodes, event_id : Events \cup {NONE}, garbled : BOOLEAN])
  BY <1>1 DEF CallersLines, Line
<1>4. PICK old \in {<<>>, Feed(<<Line(Presence)>>)} :
          /\ feed_file = old /\ db = Ingested(<<>>, old)
          /\ seen = Everywhere(IdsIn(old))
          /\ held \in {Everywhere({}), [n \in Nodes |-> Left(n, IdsIn(old))]}
  BY DEF Init
<1>5. /\ old \in Seq(Records) /\ IdsIn(old) \subseteq Events
  <2>1. Feed(<<>>) = <<>>
    BY DEF Feed
  <2>2. PICK frames \in Seq(Frames) : old = Feed(frames)
    BY <1>2, <1>4, <2>1
  <2> QED
    BY <2>2, FeedOf
<1>6. DOMAIN db \subseteq Events
  <2>1. DOMAIN Ingested(<<>>, old) = DOMAIN <<>> \cup IdsIn(old)
    BY <1>5, IngestAddsRows
  <2> QED
    BY <1>4, <1>5, <2>1
<1>7. seen \in [Nodes -> SUBSET Events]
  BY <1>4, <1>5 DEF Everywhere
<1>8. /\ out \in [Nodes -> Seq(OutLines)] /\ start_offset \in [Nodes -> Nat]
      /\ up \in [Nodes -> BOOLEAN] /\ ready \in [Nodes -> BOOLEAN]
      /\ ble_in \in [Nodes -> Seq(SUBSET Events)]
      /\ held \in [Nodes -> SUBSET {e \in Held : e.tries < MAX_ATTEMPTS}]
  <2>1. "ready" \in OutLines
    BY DEF OutLines
  <2>2. <<"ready">> \in Seq(OutLines) /\ <<>> \in Seq(OutLines)
    BY <2>1
  <2>3. out = Nowhere \/ out = Everywhere(<<"ready">>)
    BY DEF Init
  <2>4. out \in [Nodes -> Seq(OutLines)]
    BY <2>2, <2>3 DEF Nowhere, Everywhere
  <2>5. /\ start_offset = Everywhere(0) /\ up = Everywhere(FALSE)
        /\ ready = Everywhere(FALSE) /\ ble_in = Nowhere
    BY DEF Init
  <2> DEFINE H == {e \in Held : e.tries < MAX_ATTEMPTS}
  <2>6. \A n \in Nodes : Left(n, IdsIn(old)) \subseteq H
    <3>1. ASSUME NEW n \in Nodes, NEW e \in Left(n, IdsIn(old))
          PROVE  e \in H
      <4>1. PICK i \in IdsIn(old) : e = [id |-> i, relay |-> n # NodeA, tries |-> 0]
        BY DEF Left
      <4>2. i \in Events /\ 0 \in 0..MAX_ATTEMPTS /\ 0 < MAX_ATTEMPTS
        BY <1>1, <1>5
      <4>3. e \in Held /\ e.tries = 0
        BY <4>1, <4>2, Zenon DEF Held
      <4> QED
        BY <4>2, <4>3
    <3> QED
      BY <3>1
  <2> HIDE DEF H
  <2>7. held \in [Nodes -> SUBSET H]
    BY <1>4, <2>6 DEF Everywhere
  <2> QED
    BY <2>4, <2>5, <2>7 DEF Nowhere, Everywhere, H
<1>9. /\ window \in {"ahead", "open", "past"}
      /\ hub_in \in Seq(Frames) /\ node_in \in [Nodes -> Seq(Frames)] /\ taps \in Seq(Frames)
      /\ stats \in [rx_from_nodes : Nat, tap : [Fates -> Nat], fanout : [Fates -> Nat]]
  BY DEF Init, HubInit
<1>10. /\ run \in Runs /\ profile = run.profile /\ pc = "fresh" /\ raised = FALSE
       /\ second = FALSE /\ events = <<>> /\ events_after = <<>> /\ sos_frame = <<>>
       /\ before = 0 /\ feed_order = <<>> /\ counted = [receipts |-> 0, retransmits |-> 0]
       /\ live_out = CallersLines
  BY DEF Init
<1>11. sos_frame \in {<<>>} \cup {<<f>> : f \in Frames}
       /\ \A table \in {db, events, events_after} : DOMAIN table \subseteq Events
  BY <1>6, <1>10
<1>12. raised \in BOOLEAN /\ second \in BOOLEAN /\ before \in Nat
       /\ feed_file \in Seq(Records)
  BY <1>4, <1>5, <1>10
<1>13. pc \in {"fresh", "start", "wait", "inject", "pump", "ingest", "restart", "restart2",
               "wait2", "replay", "pump2", "ingest2", "stop2", "finally", "over"}
  BY <1>10
<1>14. feed_order \in Seq(Events) /\ counted \in [receipts : Nat, retransmits : Nat]
  BY <1>10
<1> QED
  BY <1>3, <1>7, <1>8, <1>9, <1>10, <1>11, <1>12, <1>13, <1>14 DEF TypeOK

(* The steps of the driver keep the types.                                  *)
LEMMA DriverTypes ==
  ASSUME TypeOK, DriverStep
  PROVE  TypeOK'
<1>1. CASE Fresh
  <2>1. out' \in [Nodes -> Seq(OutLines)]
    BY <1>1 DEF Fresh, Nowhere
  <2>2. feed_file' \in Seq(Records) /\ DOMAIN db' \subseteq Events
    <3>1. DOMAIN <<>> \subseteq Events /\ <<>> \in Seq(Records)
      OBVIOUS
    <3>2. \/ feed_file' = feed_file /\ db' = db
          \/ feed_file' = <<>> /\ db' = <<>>
      BY <1>1 DEF Fresh
    <3>3. feed_file \in Seq(Records) /\ DOMAIN db \subseteq Events
      BY DEF TypeOK
    <3>4. CASE feed_file' = feed_file /\ db' = db
      BY <3>3, <3>4
    <3>5. CASE feed_file' = <<>> /\ db' = <<>>
      BY <3>1, <3>5
    <3> QED
      BY <3>2, <3>4, <3>5
  <2>3. /\ seen' \in [Nodes -> SUBSET Events]
        /\ held' \in [Nodes -> SUBSET {e \in Held : e.tries < MAX_ATTEMPTS}]
    BY <1>1 DEF Fresh, TypeOK, Everywhere
  <2> QED
    BY <1>1, <2>1, <2>2, <2>3 DEF Fresh, Goes, TypeOK, hubVars, routeVars, ingestVars
<1>2. CASE StartNodes \/ StartNodeB2
  <2>1. /\ up' \in [Nodes -> BOOLEAN] /\ seen' \in [Nodes -> SUBSET Events]
        /\ held' \in [Nodes -> SUBSET {e \in Held : e.tries < MAX_ATTEMPTS}]
        /\ start_offset' \in [Nodes -> Nat]
    BY <1>2, StartsKeepsTypes DEF StartNodes, StartNodeB2
  <2> QED
    BY <1>2, <2>1 DEF StartNodes, StartNodeB2, Starts, Spawn, Goes, TypeOK, hubVars, routeVars,
                      ingestVars
<1>3. CASE WaitNodes \/ WaitNodeB2
  BY <1>3 DEF WaitNodes, WaitNodeB2, WaitsFor, Goes, Raises, TypeOK, hubVars, routeVars,
              nodeVars, ingestVars
<1>4. CASE Inject
  <2>1. {Presence, Sos} \in SUBSET Events
    BY StackAssumption
  <2>2. ble_in' \in [Nodes -> Seq(SUBSET Events)]
    <3>1. \A n \in Nodes : Append(ble_in[n], {Presence, Sos}) \in Seq(SUBSET Events)
      BY <2>1, RangeOfAppend DEF TypeOK
    <3> QED
      BY <1>4, <3>1 DEF Inject, TypeOK
  <2> QED
    BY <1>4, <2>2 DEF Inject, Goes, TypeOK, hubVars, routeVars, ingestVars
<1>5. CASE PumpEnds
  BY <1>5 DEF PumpEnds, Goes, TypeOK, hubVars, routeVars, nodeVars, ingestVars
<1>6. CASE Ingest
  <2>1. taps \in Seq(Frames) /\ NodeA \in Nodes
    BY StackAssumption DEF TypeOK, NodeA
  <2>2. sos_frame' \in {<<>>} \cup {<<f>> : f \in Frames}
    BY <1>6, <2>1, TappedSosOf DEF Ingest
  <2>3. feed_file' \in Seq(Records) /\ DOMAIN db' \subseteq Events
    BY <1>6, <2>1, IngestKeepsTypes DEF Ingest
  <2>4. FeedOrder(taps) \in Seq(Events)
    BY <2>1, OrderOf
  <2>5. [receipts |-> Lines(NodeA, "receipt"), retransmits |-> Lines(NodeA, "retransmit")]
           \in [receipts : Nat, retransmits : Nat]
    BY <2>1, LinesOf
  <2>6. /\ feed_order' \in Seq(Events) /\ counted' \in [receipts : Nat, retransmits : Nat]
        /\ raised' \in BOOLEAN
    BY <1>6, <2>4, <2>5 DEF Ingest, TypeOK, Raises
  <2>7. \A table \in {db', events', events_after'} : DOMAIN table \subseteq Events
    BY <1>6, <2>3 DEF Ingest, TypeOK
  <2>8. pc' \in {"restart", "finally"}
    BY <1>6 DEF Ingest, Goes, Raises
  <2> QED
    BY <1>6, <2>2, <2>3, <2>6, <2>7, <2>8 DEF Ingest, TypeOK, hubVars, routeVars, nodeVars
<1>7. CASE StopNodeB \/ StopNodeB2 \/ Finally
  <2>1. PICK nodes : Kill(nodes)
    BY <1>7 DEF StopNodeB, StopNodeB2, Finally
  <2>2. /\ up' \in [Nodes -> BOOLEAN] /\ ready' \in [Nodes -> BOOLEAN]
        /\ held' \in [Nodes -> SUBSET {e \in Held : e.tries < MAX_ATTEMPTS}]
        /\ ble_in' \in [Nodes -> Seq(SUBSET Events)]
        /\ node_in' \in [Nodes -> Seq(Frames)]
    BY <2>1, KillKeepsTypes
  <2>3. UNCHANGED <<run, raised, start_offset, db, feed_file, ingestVars, before, second>>
    BY <1>7 DEF StopNodeB, StopNodeB2, Finally
  <2>4. pc' \in {"restart2", "finally", "over"}
    BY <1>7 DEF StopNodeB, StopNodeB2, Finally, Goes
  <2> QED
    BY <2>1, <2>2, <2>3, <2>4 DEF Kill, TypeOK, ingestVars
<1>8. CASE Replay
  <2>1. node_in' \in [Nodes -> Seq(Frames)]
    <3>1. sos_frame # <<>> => sos_frame[1] \in Frames
      BY DEF TypeOK
    <3>2. sos_frame # <<>> =>
             \A n \in Nodes : Append(node_in[n], sos_frame[1]) \in Seq(Frames)
      BY <3>1, RangeOfAppend DEF TypeOK
    <3>3. node_in \in [Nodes -> Seq(Frames)]
      BY DEF TypeOK
    <3>4. \/ node_in' = node_in
          \/ /\ sos_frame # <<>>
             /\ node_in' = [node_in EXCEPT ![NodeB] = Append(node_in[NodeB], sos_frame[1])]
      BY <1>8 DEF Replay, ReplayTo, hubVars, routeVars
    <3> QED
      BY <3>2, <3>3, <3>4
  <2>2. before' \in Nat
    BY <1>8 DEF Replay, TypeOK
  <2> QED
    BY <1>8, <2>1, <2>2 DEF Replay, ReplayTo, Goes, TypeOK, hubVars, routeVars, nodeVars,
                            ingestVars
<1>9. CASE IngestAgain
  <2> DEFINE new == SubSeq(taps, before + 1, Len(taps))
  <2>1. new \in Seq(Frames)
    BY DEF TypeOK
  <2> HIDE DEF new
  <2>2. \/ UNCHANGED <<feed_file, db>>
        \/ IngestFeed(Feed(new)) \/ IngestFails(Feed(new))
    BY <1>9 DEF IngestAgain, new
  <2>3. feed_file' \in Seq(Records) /\ DOMAIN db' \subseteq Events
    BY <2>1, <2>2, IngestKeepsTypes DEF TypeOK
  <2>4. events_after' = events_after \/ events_after' = db'
    BY <1>9 DEF IngestAgain
  <2>5. pc' \in {"stop2", "finally"} /\ raised' \in BOOLEAN
    BY <1>9 DEF IngestAgain, Goes, Raises, TypeOK
  <2>6. UNCHANGED <<hubVars, nodeVars, run, start_offset, events, feed_order, counted,
                    sos_frame, before, second>>
    BY <1>9 DEF IngestAgain
  <2> QED
    BY <2>3, <2>4, <2>5, <2>6 DEF TypeOK, hubVars, routeVars, nodeVars
<1> QED
  BY <1>1, <1>2, <1>3, <1>4, <1>5, <1>6, <1>7, <1>8, <1>9 DEF DriverStep

(* So do those of the hub and of time.                                      *)
LEMMA HubTypes ==
  ASSUME TypeOK, Pump \/ TimePasses
  PROVE  TypeOK'
<1>1. CASE Pump
  <2>1. PICK frame \in Frames, tapped \in Fates, other \in Nodes, met \in Fates :
            PumpStep(frame, tapped, other, met)
    BY <1>1, PumpSteps
  <2>2. Copies(frame, tapped) \in Seq(Frames) /\ Copies(frame, met) \in Seq(Frames)
    BY CopiesOf
  <2>3. hub_in' \in Seq(Frames) /\ taps' \in Seq(Frames)
    <3>1. taps \o Copies(frame, tapped) \in Seq(Frames)
      BY <2>2, RangeOfConcat DEF TypeOK
    <3> QED
      BY <2>1, <3>1 DEF PumpStep, TypeOK
  <2>4. live_out' \in Seq([src : Nodes, event_id : Events \cup {NONE}, garbled : BOOLEAN])
    <3> DEFINE Any == [src : Nodes, event_id : Events \cup {NONE}, garbled : BOOLEAN]
    <3>1. Frames \subseteq Any
      BY DEF Frames
    <3>2. live_out \in Seq(Any)
      BY DEF TypeOK
    <3> HIDE DEF Any
    <3>3. Copies(frame, tapped) \in Seq(Any)
      BY <2>2, <3>1
    <3>4. live_out \o Copies(frame, tapped) \in Seq(Any)
      BY <3>2, <3>3, RangeOfConcat
    <3>5. live_out' \in Seq(Any)
      BY <2>1, <3>2, <3>4 DEF PumpStep
    <3> QED
      BY <3>5 DEF Any
  <2>5. node_in' \in [Nodes -> Seq(Frames)]
    <3>1. \A n \in Nodes : node_in[n] \in Seq(Frames)
      BY DEF TypeOK
    <3>2. \A n \in Nodes : node_in[n] \o Copies(frame, met) \in Seq(Frames)
      BY <2>2, <3>1, RangeOfConcat
    <3> QED
      BY <2>1, <3>1, <3>2 DEF PumpStep
  <2>6. stats' \in [rx_from_nodes : Nat, tap : [Fates -> Nat], fanout : [Fates -> Nat]]
    <3>1. /\ stats.rx_from_nodes \in Nat /\ stats.tap \in [Fates -> Nat]
          /\ stats.fanout \in [Fates -> Nat]
      BY DEF TypeOK
    <3>2. /\ [stats.tap EXCEPT ![tapped] = @ + 1] \in [Fates -> Nat]
          /\ [stats.fanout EXCEPT ![met] = @ + 1] \in [Fates -> Nat]
      BY <3>1
    <3> QED
      BY <2>1, <3>1, <3>2 DEF PumpStep
  <2> QED
    BY <2>1, <2>3, <2>4, <2>5, <2>6 DEF PumpStep, TypeOK, nodeVars, driverVars, ingestVars
<1>2. CASE TimePasses
  <2>1. window' \in {"open", "past"}
    BY <1>2 DEF TimePasses, WindowMoves
  <2> QED
    BY <1>2, <2>1 DEF TimePasses, WindowMoves, TypeOK, nodeVars, driverVars, ingestVars, routeVars
<1> QED
  BY <1>1, <1>2

(* And those of the nodes.                                                  *)
LEMMA NodeTypes ==
  ASSUME TypeOK, NEW n \in Nodes, UNCHANGED driverVars,
         \/ GetsReady(n) \/ TakesBatch(n) \/ Hears(n)
         \/ \E e \in held[n] : Transmits(n, e)
  PROVE  TypeOK'
<1> DEFINE H == {e \in Held : e.tries < MAX_ATTEMPTS}
<1>1. MAX_ATTEMPTS \in Nat \ {0}
  BY FieldNodeAssumption
<1>2. \A i \in Events, again \in BOOLEAN : [id |-> i, relay |-> again, tries |-> 0] \in H
  BY <1>1 DEF Held
<1>3. CASE GetsReady(n)
  <2>1. out' \in [Nodes -> Seq(OutLines)] /\ ready' \in [Nodes -> BOOLEAN]
    BY <1>3 DEF GetsReady, OutLines, TypeOK
  <2> QED
    BY <1>3, <2>1 DEF GetsReady, TypeOK, hubVars, routeVars, driverVars, ingestVars
<1>4. CASE TakesBatch(n)
  <2> DEFINE batch == Head(ble_in[n])
             new == batch \ seen[n]
             lines == [k \in 1..Cardinality(batch) |-> "receipt"]
  <2>1. batch \in SUBSET Events /\ Tail(ble_in[n]) \in Seq(SUBSET Events)
    BY <1>4 DEF TakesBatch, TypeOK
  <2>2. lines \in Seq(OutLines)
    <3>1. IsFiniteSet(Events)
      <4>1. Events = {Presence} \cup {Sos}
        BY StackAssumption
      <4> QED
        BY <4>1, FS_Singleton, FS_AddElement
    <3>2. Cardinality(batch) \in Nat
      BY <2>1, <3>1, FS_Subset, FS_CardinalityType
    <3> QED
      BY <3>2 DEF OutLines
  <2>3. out' \in [Nodes -> Seq(OutLines)]
    <3>1. out[n] \in Seq(OutLines)
      BY DEF TypeOK
    <3>2. out[n] \o lines \in Seq(OutLines)
      BY <2>2, <3>1, RangeOfConcat
    <3>3. out' = [out EXCEPT ![n] = out[n] \o lines]
      BY <1>4 DEF TakesBatch
    <3> HIDE DEF lines
    <3> QED
      BY <3>2, <3>3 DEF TypeOK
  <2>4. held' \in [Nodes -> SUBSET H]
    <3>1. [id : new, relay : {FALSE}, tries : {0}] \subseteq H
      <4>1. ASSUME NEW e \in [id : new, relay : {FALSE}, tries : {0}]
            PROVE  e \in H
        <5>1. e = [id |-> e.id, relay |-> FALSE, tries |-> 0] /\ e.id \in Events
          BY <2>1
        <5> HIDE DEF H
        <5> QED
          BY <1>2, <5>1
      <4> QED
        BY <4>1
    <3>2. held' = [held EXCEPT ![n] = held[n] \cup [id : new, relay : {FALSE}, tries : {0}]]
      BY <1>4 DEF TakesBatch
    <3>3. held \in [Nodes -> SUBSET H]
      BY DEF TypeOK
    <3> HIDE DEF H, new
    <3> QED
      BY <3>1, <3>2, <3>3
  <2>5. seen' \in [Nodes -> SUBSET Events] /\ ble_in' \in [Nodes -> Seq(SUBSET Events)]
    BY <1>4, <2>1 DEF TakesBatch, TypeOK
  <2> QED
    BY <1>4, <2>3, <2>4, <2>5 DEF TakesBatch, TypeOK, hubVars, routeVars, driverVars, ingestVars
<1>5. CASE Hears(n)
  <2> DEFINE frame == Head(node_in[n])
  <2>1. frame \in Frames /\ Tail(node_in[n]) \in Seq(Frames)
    BY <1>5 DEF Hears, TypeOK
  <2>2. frame.event_id \in Events
    BY <2>1 DEF Frames
  <2>3. seen' \in [Nodes -> SUBSET Events] /\ node_in' \in [Nodes -> Seq(Frames)]
    <3>1. seen \in [Nodes -> SUBSET Events] /\ node_in \in [Nodes -> Seq(Frames)]
      BY DEF TypeOK
    <3>2. seen' = seen \/ seen' = [seen EXCEPT ![n] = seen[n] \cup {frame.event_id}]
      BY <1>5 DEF Hears
    <3>3. node_in' = [node_in EXCEPT ![n] = Tail(node_in[n])]
      BY <1>5 DEF Hears
    <3> HIDE DEF frame
    <3> QED
      BY <2>1, <2>2, <3>1, <3>2, <3>3
  <2>4. held' \in [Nodes -> SUBSET H]
    <3>1. held \in [Nodes -> SUBSET H]
      BY DEF TypeOK
    <3>2. [id |-> frame.event_id, relay |-> TRUE, tries |-> 0] \in H
      BY <1>2, <2>2
    <3>3. \/ held' = held
          \/ held' = [held EXCEPT ![n] = {e \in held[n] : e.relay \/ e.tries = 0
                                                         \/ e.id # frame.event_id}]
          \/ held' = [held EXCEPT ![n] = held[n] \cup
                         {[id |-> frame.event_id, relay |-> TRUE, tries |-> 0]}]
      BY <1>5 DEF Hears
    <3> HIDE DEF H, frame
    <3> QED
      BY <3>1, <3>2, <3>3
  <2> QED
    BY <1>5, <2>3, <2>4 DEF Hears, TypeOK, routeVars, driverVars, ingestVars
<1>6. ASSUME NEW e \in held[n], Transmits(n, e)
      PROVE  TypeOK'
  <2>1. e \in H
    BY DEF TypeOK
  <2>2. e.id \in Events /\ e.tries \in Nat /\ e = [id |-> e.id, relay |-> e.relay, tries |-> e.tries]
        /\ e.relay \in BOOLEAN
    BY <2>1 DEF Held
  <2>3. [src |-> n, event_id |-> e.id, garbled |-> FALSE] \in Frames
    BY <2>2 DEF Frames
  <2>4. hub_in' \in Seq(Frames)
    BY <1>6, <2>3, RangeOfAppend DEF Transmits, TypeOK
  <2>5. out' \in [Nodes -> Seq(OutLines)]
    <3> DEFINE line == IF e.tries = 0 THEN "transmit" ELSE "retransmit"
    <3>1. line \in OutLines
      BY DEF OutLines
    <3> HIDE DEF line
    <3>2. Append(out[n], line) \in Seq(OutLines)
      BY <3>1, RangeOfAppend DEF TypeOK
    <3>3. out' = [out EXCEPT ![n] = Append(out[n], line)]
      BY <1>6 DEF Transmits, line
    <3> QED
      BY <3>2, <3>3 DEF TypeOK
  <2>6. held' \in [Nodes -> SUBSET H]
    <3>1. held \in [Nodes -> SUBSET H]
      BY DEF TypeOK
    <3> DEFINE next == IF e.tries + 1 = MAX_ATTEMPTS THEN {}
                       ELSE {[e EXCEPT !.tries = e.tries + 1]}
    <3>2. next \subseteq H
      BY <1>1, <2>1, <2>2 DEF Held
    <3>3. held' = [held EXCEPT ![n] = (held[n] \ {e}) \cup next]
      BY <1>6 DEF Transmits
    <3> HIDE DEF H, next
    <3> QED
      BY <3>1, <3>2, <3>3
  <2> QED
    BY <1>6, <2>4, <2>5, <2>6 DEF Transmits, TypeOK, driverVars, ingestVars
<1> QED
  BY <1>3, <1>4, <1>5, <1>6

(* Every variable keeps its type.                                           *)
THEOREM TypeCorrect == Spec => []TypeOK
<1>1. TypeOK /\ [Next]_vars => TypeOK'
  <2> SUFFICES ASSUME TypeOK, [Next]_vars
               PROVE  TypeOK'
    OBVIOUS
  <2>1. CASE UNCHANGED vars
    BY <2>1 DEF TypeOK, vars, hubVars, routeVars, nodeVars, driverVars, ingestVars
  <2> QED
    BY <2>1, Steps, DriverTypes, HubTypes, NodeTypes
<1> QED
  BY <1>1, InitTypes, PTL DEF Spec

-----------------------------------------------------------------------------
(* The stages of a run keep to what they say of its processes.              *)
LEMMA StepLife ==
  ASSUME TypeOK, LifeInv, [Next]_vars
  PROVE  LifeInv'
<1> USE DEF OnlyNodeB2Outlives, NodeA, NodeB
<1>1. mode' = mode
  BY RunStays
<1>2. Nodes = {1, 2}
  BY StackAssumption
<1>3. CASE Fresh \/ StartNodes \/ Inject \/ StartNodeB2 \/ PumpEnds \/ Replay
  BY <1>1, <1>3 DEF Fresh, StartNodes, Inject, StartNodeB2, PumpEnds, Replay, Goes, LifeInv
<1>4. CASE WaitNodes \/ WaitNodeB2
  BY <1>1, <1>4 DEF WaitNodes, WaitNodeB2, WaitsFor, Goes, Raises, LifeInv
<1>5. CASE Ingest \/ IngestAgain
  BY <1>1, <1>5 DEF Ingest, IngestAgain, Goes, Raises, LifeInv
<1>6. CASE StopNodeB
  BY <1>1, <1>6 DEF StopNodeB, Goes, LifeInv
<1>7. CASE StopNodeB2
  <2>1. ~up'[NodeB]
    BY <1>2, <1>7 DEF StopNodeB2, Kill
  <2> QED
    BY <1>1, <1>7, <2>1 DEF StopNodeB2, Goes, LifeInv
<1>8. CASE Finally
  <2>1. pc = "finally" /\ pc' = "over" /\ UNCHANGED <<raised, second>>
    BY <1>8 DEF Finally, Goes
  <2>2. ~up'[NodeA] /\ (up'[NodeB] => second /\ up[NodeB])
    BY <1>2, <1>8 DEF Finally, Kill
  <2> QED
    BY <1>1, <2>1, <2>2 DEF LifeInv
<1>9. CASE Pump \/ TimePasses
  BY <1>1, <1>9 DEF Pump, TimePasses, driverVars, nodeVars, LifeInv
<1>10. ASSUME NEW n \in Nodes, UNCHANGED driverVars,
             \/ GetsReady(n) \/ TakesBatch(n) \/ Hears(n)
             \/ \E e \in held[n] : Transmits(n, e)
      PROVE  LifeInv'
  <2>1. up' = up
    BY <1>10 DEF GetsReady, TakesBatch, Hears, Transmits
  <2> QED
    BY <1>1, <1>10, <2>1 DEF driverVars, LifeInv
<1>11. CASE UNCHANGED vars
  BY <1>1, <1>11 DEF vars, driverVars, nodeVars, LifeInv
<1> QED
  BY <1>3, <1>4, <1>5, <1>6, <1>7, <1>8, <1>9, <1>10, <1>11, Steps DEF DriverStep

(* A ready line in a process's own output is its own.                       *)
LEMMA StepReady ==
  ASSUME TypeOK, ReadyInv, [Next]_vars
  PROVE  ReadyInv'
<1> USE DEF ReadyIsItsOwn, NodeA, NodeB
<1>1. Nodes = {1, 2}
  BY StackAssumption
<1>2. CASE Fresh \/ Inject \/ PumpEnds \/ Replay \/ Ingest \/ IngestAgain \/ StopNodeB
           \/ StopNodeB2 \/ Finally
  BY <1>2 DEF Fresh, Inject, PumpEnds, Replay, Ingest, IngestAgain, StopNodeB, StopNodeB2,
              Finally, Goes, Raises, nodeVars, ReadyInv
<1>3. CASE StartNodes \/ StartNodeB2
  <2>1. \A n \in Nodes : Len(out[n]) \in Nat /\ out' = out
    BY <1>3 DEF StartNodes, StartNodeB2, Starts, Spawn, TypeOK
  <2>2. \A n \in Nodes : StartNodes \/ n = NodeB => ~SaysReady(n)'
    <3>1. \A n \in Nodes : StartNodes \/ n = NodeB => start_offset'[n] = Len(out[n])
      BY <1>1, <1>3 DEF StartNodes, StartNodeB2, Starts
    <3> QED
      BY <2>1, <3>1 DEF SaysReady
  <2> QED
    BY <1>1, <1>3, <2>2 DEF StartNodes, StartNodeB2, Goes, ReadyInv
<1>4. CASE WaitNodes \/ WaitNodeB2
  <2>1. UNCHANGED nodeVars
    BY <1>4 DEF WaitNodes, WaitNodeB2, WaitsFor
  <2>2. \/ pc' = "finally"
        \/ pc = "wait" /\ pc' = "inject" /\ \A n \in Nodes : SaysReady(n)
        \/ pc = "wait2" /\ pc' = "replay" /\ SaysReady(NodeB)
    BY <1>4 DEF WaitNodes, WaitNodeB2, WaitsFor, Goes, Raises
  <2> QED
    BY <1>1, <2>1, <2>2 DEF nodeVars, ReadyInv
<1>5. CASE Pump \/ TimePasses \/ UNCHANGED vars
  <2>1. UNCHANGED <<pc, ready, out, start_offset>>
    BY <1>5 DEF Pump, TimePasses, vars, driverVars, nodeVars
  <2> QED
    BY <2>1 DEF ReadyInv, SaysReady
<1>6. ASSUME NEW n \in Nodes, UNCHANGED driverVars,
             \/ GetsReady(n) \/ TakesBatch(n) \/ Hears(n)
             \/ \E e \in held[n] : Transmits(n, e)
      PROVE  ReadyInv'
  <2>1. ready \in [Nodes -> BOOLEAN]
    BY DEF TypeOK
  <2>2. \/ ready' = [ready EXCEPT ![n] = TRUE]
        \/ ready' = ready /\ (out' = out \/ ready[n])
    BY <1>6 DEF GetsReady, TakesBatch, Hears, Transmits
  <2>3. ready'[n] \/ ((ready' = ready) /\ (out' = out))
    <3>1. CASE ready' = [ready EXCEPT ![n] = TRUE]
      BY <2>1, <3>1
    <3>2. CASE (ready' = ready) /\ (out' = out)
      BY <3>2
    <3>3. CASE (ready' = ready) /\ ready[n]
      BY <3>3
    <3> QED
      BY <2>2, <3>1, <3>2, <3>3
  <2>4. \A m \in Nodes : (ready[m] => ready'[m]) /\ (m # n => out'[m] = out[m])
    <3>1. \A m \in Nodes : m # n => out'[m] = out[m]
      BY <1>6 DEF GetsReady, TakesBatch, Hears, Transmits, TypeOK
    <3> QED
      BY <2>1, <2>2, <3>1
  <2>5. ASSUME NEW m \in Nodes, SaysReady(m)'
        PROVE  SaysReady(m) \/ ready'[m]
    BY <1>6, <2>3, <2>4, <2>5 DEF SaysReady, driverVars
  <2> QED
    BY <1>1, <1>6, <2>4, <2>5 DEF driverVars, ReadyInv
<1> QED
  BY <1>2, <1>3, <1>4, <1>5, <1>6, Steps DEF DriverStep

(* What is silent stays so until NodeA takes a batch: a step that is not    *)
(* one of these leaves everything silent as it was.                         *)
LEMMA SilentStays ==
  ASSUME TypeOK, Silent, [Next]_vars, ~TakesBatch(NodeA), ble_in[NodeB] = <<>>
  PROVE  Silent'
<1> USE DEF NodeA, NodeB
<1>1. Nodes = {1, 2}
  BY StackAssumption
<1>2. CASE Fresh \/ Inject \/ PumpEnds \/ IngestAgain \/ WaitNodes \/ WaitNodeB2
           \/ StartNodes \/ StartNodeB2
  <2>1. /\ UNCHANGED <<hubVars, sos_frame>>
        /\ \A n \in Nodes : held'[n] \in {held[n], {}}
    BY <1>2 DEF Fresh, Inject, PumpEnds, IngestAgain, WaitNodes, WaitNodeB2, WaitsFor,
                StartNodes, StartNodeB2, Starts, Spawn, Everywhere, nodeVars, ingestVars
  <2> QED
    BY <2>1 DEF hubVars, routeVars, AirIsEmpty, Silent
<1>3. CASE Ingest
  <2>1. taps = <<>> /\ taps \in Seq(Frames)
    BY DEF AirIsEmpty, Silent, TypeOK
  <2>2. sos_frame' = <<>>
    BY <1>3, <2>1, TappedSosOf DEF Ingest
  <2> QED
    BY <1>3, <2>2 DEF Ingest, hubVars, routeVars, nodeVars, AirIsEmpty, Silent
<1>4. CASE StopNodeB \/ StopNodeB2 \/ Finally
  <2>1. /\ UNCHANGED <<hub_in, taps, sos_frame, stats>>
        /\ \A n \in Nodes : node_in'[n] \in {node_in[n], <<>>} /\ held'[n] \in {held[n], {}}
    BY <1>4 DEF StopNodeB, StopNodeB2, Finally, Kill, ingestVars
  <2> QED
    BY <2>1 DEF AirIsEmpty, Silent
<1>5. CASE Replay
  BY <1>5 DEF Replay, hubVars, routeVars, nodeVars, ingestVars, AirIsEmpty, Silent
<1>6. CASE Pump
  BY <1>6 DEF Pump, Route, AirIsEmpty, Silent
<1>7. CASE TimePasses \/ UNCHANGED vars
  BY <1>7 DEF TimePasses, WindowMoves, hubVars, routeVars, nodeVars, driverVars, ingestVars,
              vars, AirIsEmpty, Silent
<1>8. ASSUME NEW n \in Nodes, UNCHANGED driverVars,
             \/ GetsReady(n) \/ TakesBatch(n) \/ Hears(n)
             \/ \E e \in held[n] : Transmits(n, e)
      PROVE  Silent'
  <2>1. GetsReady(n)
    <3>1. ~TakesBatch(n)
      BY <1>1 DEF TakesBatch
    <3> QED
      BY <1>8, <3>1 DEF Hears, Transmits, AirIsEmpty, Silent
  <2> QED
    BY <1>8, <2>1 DEF GetsReady, hubVars, routeVars, driverVars, ingestVars, AirIsEmpty, Silent
<1> QED
  BY <1>2, <1>3, <1>4, <1>5, <1>6, <1>7, <1>8, Steps DEF DriverStep

(* Nobody knows an event before NodeA takes its batch.                      *)
LEMMA SeenStays ==
  ASSUME TypeOK, Silent, \A n \in Nodes : seen[n] = {}, [Next]_vars, ~TakesBatch(NodeA),
         ble_in[NodeB] = <<>>
  PROVE  \A n \in Nodes : seen'[n] = {}
<1> USE DEF NodeA, NodeB
<1>1. Nodes = {1, 2}
  BY StackAssumption
<1>2. CASE DriverStep
  <2>1. CASE StartNodes \/ StartNodeB2
    BY <2>1 DEF StartNodes, StartNodeB2, Starts, Spawn
  <2>2. CASE StopNodeB \/ StopNodeB2 \/ Finally
    BY <2>2 DEF StopNodeB, StopNodeB2, Finally, Kill
  <2>3. CASE Fresh
    BY <2>3 DEF Fresh, Everywhere
  <2> QED
    BY <1>2, <2>1, <2>2, <2>3
       DEF DriverStep, Inject, PumpEnds, Ingest, IngestAgain, WaitNodes, WaitNodeB2, WaitsFor,
           Replay, nodeVars
<1>3. CASE Pump \/ TimePasses \/ UNCHANGED vars
  BY <1>3 DEF Pump, TimePasses, nodeVars, vars
<1>4. ASSUME NEW n \in Nodes, UNCHANGED driverVars,
             \/ GetsReady(n) \/ TakesBatch(n) \/ Hears(n)
             \/ \E e \in held[n] : Transmits(n, e)
      PROVE  \A m \in Nodes : seen'[m] = {}
  <2>1. GetsReady(n)
    <3>1. ~TakesBatch(n)
      BY <1>1 DEF TakesBatch
    <3> QED
      BY <1>4, <3>1 DEF Hears, Transmits, AirIsEmpty, Silent
  <2> QED
    BY <2>1 DEF GetsReady
<1> QED
  BY <1>2, <1>3, <1>4, Steps

(* What a step does to the BLE sockets.                                     *)
LEMMA BleSteps ==
  ASSUME TypeOK, [Next]_vars
  PROVE  \/ ble_in' = ble_in
         \/ Inject /\ ble_in' = [ble_in EXCEPT ![NodeA] = Append(@, {Presence, Sos})]
         \/ /\ pc' \notin Starting \cup {"fresh", "inject"}
            /\ \A n \in Nodes : ble_in'[n] \in {ble_in[n], <<>>}
         \/ \E n \in Nodes : /\ TakesBatch(n) /\ UNCHANGED driverVars /\ ble_in[n] # <<>>
                             /\ ble_in' = [ble_in EXCEPT ![n] = Tail(@)]
<1>1. CASE Fresh \/ StartNodes \/ WaitNodes \/ PumpEnds \/ Ingest \/ StartNodeB2
           \/ WaitNodeB2 \/ Replay \/ IngestAgain
  BY <1>1 DEF Fresh, StartNodes, WaitNodes, PumpEnds, Ingest, StartNodeB2, WaitNodeB2, WaitsFor,
              Replay, IngestAgain, Starts, Spawn, nodeVars
<1>2. CASE Inject
  BY <1>2 DEF Inject
<1>3. CASE StopNodeB \/ StopNodeB2 \/ Finally
  BY <1>3 DEF StopNodeB, StopNodeB2, Finally, Goes, Kill, Starting
<1>4. CASE Pump \/ TimePasses \/ UNCHANGED vars
  BY <1>4 DEF Pump, TimePasses, nodeVars, vars
<1>5. ASSUME NEW n \in Nodes, UNCHANGED driverVars,
             \/ GetsReady(n) \/ TakesBatch(n) \/ Hears(n)
             \/ \E e \in held[n] : Transmits(n, e)
      PROVE  \/ ble_in' = ble_in
             \/ /\ TakesBatch(n) /\ UNCHANGED driverVars /\ ble_in[n] # <<>>
                /\ ble_in' = [ble_in EXCEPT ![n] = Tail(@)]
  BY <1>5 DEF GetsReady, TakesBatch, Hears, Transmits
<1> QED
  BY <1>1, <1>2, <1>3, <1>4, <1>5, Steps DEF DriverStep

(* A run leaves its first stage with nothing on air, and unless it keeps    *)
(* the journals with nothing in them.                                       *)
LEMMA FromFresh ==
  ASSUME QuietInv, [Next]_vars, pc = "fresh"
  PROVE  \/ UNCHANGED vars
         \/ /\ Fresh /\ AirIsEmpty' /\ UNCHANGED <<hubVars, ble_in, sos_frame>>
            /\ mode # "stream" => Silent' /\ \A n \in Nodes : seen'[n] = {}
<1>1. AirIsEmpty /\ \A n \in Nodes : ~up[n] /\ ~ready[n]
  BY DEF QuietInv
<1>2. Fresh \/ UNCHANGED vars
  BY <1>1, Steps DEF DriverStep, StartNodes, Inject, StartNodeB2, PumpEnds, Replay,
               WaitNodes, WaitNodeB2, WaitsFor, Ingest, IngestAgain, StopNodeB, StopNodeB2,
               Finally, Goes, Raises, Pump, TimePasses, GetsReady, TakesBatch, Hears, Transmits
<1>3. CASE Fresh
  <2>1. UNCHANGED <<hubVars, ble_in, sos_frame>>
    BY <1>3 DEF Fresh, ingestVars
  <2>2. AirIsEmpty'
    BY <1>1, <2>1 DEF AirIsEmpty, hubVars, routeVars
  <2> QED
    BY <1>3, <2>1, <2>2 DEF Fresh, Silent, Everywhere
<1> QED
  BY <1>2, <1>3

LEMMA StepQuiet ==
  ASSUME TypeOK, QuietInv, [Next]_vars
  PROVE  QuietInv'
<1> USE DEF NodeA, NodeB
<1>1. Nodes = {1, 2} /\ ble_in \in [Nodes -> Seq(SUBSET Events)] /\ mode' = mode
  BY StackAssumption, RunStays DEF TypeOK
<1>2. ble_in'[NodeB] = <<>> /\ ble_in'[NodeA] \in {<<>>, <<{Presence, Sos}>>}
  <2>1. ble_in[NodeB] = <<>> /\ ble_in[NodeA] \in {<<>>, <<{Presence, Sos}>>}
    BY DEF QuietInv
  <2>2. CASE Inject /\ ble_in' = [ble_in EXCEPT ![NodeA] = Append(@, {Presence, Sos})]
    <3>1. ble_in[NodeA] = <<>>
      BY <2>2 DEF QuietInv, Inject, Goes, Starting
    <3> QED
      BY <1>1, <2>1, <2>2, <3>1
  <2>3. ASSUME NEW n \in Nodes, ble_in[n] # <<>>, ble_in' = [ble_in EXCEPT ![n] = Tail(@)]
        PROVE  ble_in'[NodeB] = <<>> /\ ble_in'[NodeA] = <<>>
    <3>1. n = NodeA /\ ble_in[NodeA] = <<{Presence, Sos}>>
      BY <1>1, <2>1, <2>3
    <3>2. Tail(<<{Presence, Sos}>>) = <<>>
      OBVIOUS
    <3> QED
      BY <1>1, <2>1, <2>3, <3>1, <3>2
  <2> QED
    BY <1>1, <2>1, <2>2, <2>3, BleSteps
<1>3. CASE TakesBatch(NodeA)
  <2>1. ble_in[NodeA] # <<>> /\ ble_in'[NodeA] = Tail(ble_in[NodeA])
    BY <1>1, <1>3 DEF TakesBatch
  <2>2. ble_in[NodeA] = <<{Presence, Sos}>> /\ pc \notin Starting \cup {"fresh"}
    BY <2>1 DEF QuietInv
  <2>3. ble_in'[NodeA] = <<>>
    <3>1. Tail(<<{Presence, Sos}>>) = <<>>
      OBVIOUS
    <3> QED
      BY <2>1, <2>2, <3>1
  <2>4. pc' \notin Starting \cup {"fresh"}
    <3>1. CASE DriverStep
      BY <2>2, <3>1 DEF DriverStep, Fresh, StartNodes, Inject, StartNodeB2, PumpEnds, Replay,
              WaitNodes, WaitNodeB2, WaitsFor, Ingest, IngestAgain, StopNodeB, StopNodeB2,
              Finally, Goes, Raises, Starting
    <3>2. CASE ~DriverStep
      BY <2>2, <3>2, Steps DEF Pump, TimePasses, driverVars, vars
    <3> QED
      BY <3>1, <3>2
  <2> QED
    BY <1>2, <2>3, <2>4 DEF QuietInv
<1>4. CASE ~TakesBatch(NodeA)
  <2>1. pc' \in Starting \cup {"fresh"} \/ ble_in'[NodeA] # <<>> =>
           pc \in Starting \cup {"fresh"} \/ ble_in[NodeA] # <<>>
    <3>1. CASE DriverStep
      BY <1>1, <3>1 DEF DriverStep, Fresh, StartNodes, Inject, StartNodeB2, PumpEnds, Replay,
              WaitNodes, WaitNodeB2, WaitsFor, Ingest, IngestAgain, StopNodeB, StopNodeB2,
              Finally, Goes, Raises, Starting, Starts, Spawn, Kill, nodeVars
    <3>2. CASE ~DriverStep
      <4>1. pc' = pc
        BY <3>2, Steps DEF Pump, TimePasses, driverVars, vars
      <4>2. ble_in'[NodeA] # <<>> => ble_in[NodeA] # <<>>
        BY <1>1, <3>2, BleSteps DEF DriverStep
      <4> QED
        BY <4>1, <4>2
    <3> QED
      BY <3>1, <3>2
  <2>2. (pc' \in Starting \cup {"fresh"} => pc \in Starting \cup {"fresh"})
        /\ (pc' = "fresh" => pc = "fresh" /\ ~Fresh)
    <3>1. CASE DriverStep
      BY <3>1 DEF DriverStep, Fresh, StartNodes, Inject, StartNodeB2, PumpEnds, Replay,
              WaitNodes, WaitNodeB2, WaitsFor, Ingest, IngestAgain, StopNodeB, StopNodeB2,
              Finally, Goes, Raises, Starting
    <3>2. CASE ~DriverStep
      BY <3>2, Steps DEF Pump, TimePasses, driverVars, vars, DriverStep
    <3> QED
      BY <3>1, <3>2
  <2>3. pc' \in Starting \cup {"fresh"} => ble_in'[NodeA] = <<>>
    <3> SUFFICES ASSUME pc' \in Starting \cup {"fresh"}
                 PROVE  ble_in'[NodeA] = <<>>
      OBVIOUS
    <3>1. ble_in[NodeA] = <<>> /\ ble_in[NodeB] = <<>>
      BY <2>2 DEF QuietInv
    <3>2. ~Inject
      BY DEF Inject, Goes, Starting
    <3> QED
      BY <1>1, <1>4, <3>1, <3>2, BleSteps
  <2>4. pc' = "fresh" => AirIsEmpty' /\ \A n \in Nodes : ~up'[n] /\ ~ready'[n]
    <3> SUFFICES ASSUME pc' = "fresh"
                 PROVE  AirIsEmpty' /\ \A n \in Nodes : ~up'[n] /\ ~ready'[n]
      OBVIOUS
    <3>1. pc = "fresh" /\ ~Fresh
      BY <2>2
    <3>2. UNCHANGED vars
      BY <3>1, FromFresh
    <3> QED
      BY <3>1, <3>2 DEF QuietInv, AirIsEmpty, vars, hubVars, routeVars, nodeVars, driverVars,
                        ingestVars
  <2>5. ASSUME mode # "stream", pc' \in Starting \/ ble_in'[NodeA] # <<>>
        PROVE  Silent' /\ \A n \in Nodes : seen'[n] = {}
    <3>1. CASE pc = "fresh"
      <4>1. ~UNCHANGED vars
        BY <2>3, <2>5, <3>1 DEF vars, driverVars, Starting
      <4> QED
        BY <2>5, <3>1, <4>1, FromFresh
    <3>2. CASE pc # "fresh"
      <4>1. pc \in Starting \/ ble_in[NodeA] # <<>>
        BY <2>1, <2>5, <3>2
      <4>2. Silent /\ ble_in[NodeB] = <<>> /\ \A n \in Nodes : seen[n] = {}
        BY <2>5, <4>1 DEF QuietInv
      <4> QED
        BY <1>4, <4>2, SilentStays, SeenStays
    <3> QED
      BY <3>1, <3>2
  <2> QED
    BY <1>1, <1>2, <2>3, <2>4, <2>5 DEF QuietInv
<1> QED
  BY <1>3, <1>4

-----------------------------------------------------------------------------
(* The tap only grows, and only while the hub pumps.                        *)
LEMMA TapGrows ==
  ASSUME TypeOK, [Next]_vars
  PROVE  \/ /\ UNCHANGED <<taps, live_out, stats>>
            /\ DriverStep \/ UNCHANGED driverVars
         \/ /\ pc \in {"pump", "pump2"} /\ UNCHANGED driverVars
            /\ Len(taps) <= Len(taps') /\ \A k \in 1..Len(taps) : taps'[k] = taps[k]
            /\ \E frame \in Frames, tapped \in Fates, other \in Nodes, met \in Fates :
                  PumpStep(frame, tapped, other, met)
<1>1. CASE Pump
  <2>1. PICK frame \in Frames, tapped \in Fates, other \in Nodes, met \in Fates :
                  PumpStep(frame, tapped, other, met)
    BY <1>1, PumpSteps
  <2>2. taps \in Seq(Frames) /\ Copies(frame, tapped) \in Seq(Frames)
    BY CopiesOf DEF TypeOK
  <2>3. taps' = taps \o Copies(frame, tapped)
    BY <2>1 DEF PumpStep
  <2>4. Len(taps) <= Len(taps') /\ \A k \in 1..Len(taps) : taps'[k] = taps[k]
    BY <2>2, <2>3
  <2> QED
    BY <1>1, <2>1, <2>4 DEF Pump
<1>2. CASE ~Pump
  <2>1. CASE DriverStep
    BY <2>1 DEF DriverStep, Fresh, StartNodes, Inject, StartNodeB2, PumpEnds, Replay,
              WaitNodes, WaitNodeB2, WaitsFor, Ingest, IngestAgain, StopNodeB, StopNodeB2,
              Finally, Kill, ReplayTo, hubVars, routeVars
  <2>2. CASE TimePasses \/ UNCHANGED vars
    BY <2>2 DEF TimePasses, WindowMoves, routeVars, vars, hubVars
  <2>3. ASSUME NEW n \in Nodes, UNCHANGED driverVars,
             \/ GetsReady(n) \/ TakesBatch(n) \/ Hears(n)
             \/ \E e \in held[n] : Transmits(n, e)
        PROVE  UNCHANGED <<taps, live_out, stats, driverVars>>
    BY <2>3 DEF GetsReady, TakesBatch, Hears, Transmits, hubVars, routeVars
  <2> QED
    BY <1>2, <2>1, <2>2, <2>3, Steps
<1> QED
  BY <1>1, <1>2

(* So its first frames stay what they are.                                  *)
LEMMA PrefixStays ==
  ASSUME NEW s \in Seq(Frames), NEW t \in Seq(Frames), Len(s) <= Len(t),
         \A k \in 1..Len(s) : t[k] = s[k], NEW n \in 0..Len(s)
  PROVE  SubSeq(t, 1, n) = SubSeq(s, 1, n)
<1>1. n \in Nat /\ n <= Len(s) /\ n <= Len(t) /\ Len(s) \in Nat /\ Len(t) \in Nat
  OBVIOUS
<1>2. \A k \in 1..n : t[k] = s[k]
  BY <1>1
<1>3. SubSeq(t, 1, n) = [k \in 1..n |-> t[k]] /\ SubSeq(s, 1, n) = [k \in 1..n |-> s[k]]
  BY <1>1
<1> QED
  BY <1>2, <1>3

(* The gateway is fed every tap once, over the slices of the run.           *)
LEMMA StepFed ==
  ASSUME TypeOK, TypeOK', LifeInv, FedInv, [Next]_vars
  PROVE  FedInv'
<1> USE DEF EachTapIsFedOnce
<1>1. mode' = mode
  BY RunStays
<1>2. CASE DriverStep /\ UNCHANGED <<taps, live_out, stats>>
  <2>1. CASE Fresh
    <3>1. DOMAIN <<>> = {}
      OBVIOUS
    <3>2. mode # "stream" => feed_file' = <<>> /\ DOMAIN db' = {}
      BY <2>1, <3>1 DEF Fresh
    <3> QED
      BY <1>1, <1>2, <2>1, <3>2 DEF Fresh, Goes, FedInv
  <2>2. CASE StartNodes \/ Inject \/ StartNodeB2 \/ PumpEnds \/ StopNodeB \/ StopNodeB2
             \/ Finally
    BY <1>1, <1>2, <2>2 DEF StartNodes, Inject, StartNodeB2, PumpEnds, StopNodeB, StopNodeB2,
                            Finally, Goes, Starting, FedInv
  <2>3. CASE WaitNodes \/ WaitNodeB2
    BY <1>1, <1>2, <2>3 DEF WaitNodes, WaitNodeB2, WaitsFor, Goes, Raises, Starting, FedInv
  <2>4. CASE Ingest
    <3>1. mode # "stream" /\ feed_file = <<>> /\ pc = "ingest"
      BY <2>4 DEF Ingest, Goes, Raises, LifeInv, FedInv
    <3>2. taps \in Seq(Frames) /\ Feed(taps) \in Seq(Records)
      BY FeedOf DEF TypeOK
    <3>3. <<>> \o Feed(taps) = Feed(taps)
      BY <3>2
    <3>4. \/ pc' = "finally" /\ raised'
          \/ pc' \in {"restart", "finally"} /\ feed_file' = Feed(taps)
      BY <2>4, <3>1, <3>3 DEF Ingest, IngestFeed, Goes, Raises
    <3> QED
      BY <1>1, <1>2, <3>1, <3>4 DEF Starting, FedInv
  <2>5. CASE Replay
    <3>1. before' = Len(taps) /\ pc = "replay" /\ pc' = "pump2" /\ feed_file' = feed_file
      BY <2>5 DEF Replay, Goes
    <3>2. taps \in Seq(Frames) /\ Len(taps) \in Nat
      BY DEF TypeOK
    <3>3. SubSeq(taps, 1, Len(taps)) = taps
      BY <3>2
    <3>4. SubSeq(taps', 1, before') = taps /\ before' <= Len(taps') /\ taps' = taps
      BY <1>2, <3>1, <3>2, <3>3
    <3>5. mode # "stream" => feed_file' = Feed(taps)
      BY <3>1 DEF FedInv
    <3>6. mode = "stream" => live_out' = CallersLines \o taps'
      BY <1>2 DEF FedInv
    <3> QED
      BY <1>1, <3>1, <3>4, <3>5, <3>6 DEF Starting, FedInv
  <2>6. CASE IngestAgain
    <3> DEFINE new == SubSeq(taps, before + 1, Len(taps))
    <3>1. mode # "stream" /\ before \in 0..Len(taps) /\ taps \in Seq(Frames)
          /\ feed_file = Feed(SubSeq(taps, 1, before))
      BY <2>6 DEF IngestAgain, Goes, Raises, LifeInv, FedInv, TypeOK
    <3>2. Feed(SubSeq(taps, 1, before)) \o Feed(new) = Feed(taps)
          /\ SubSeq(taps, 1, before) \in Seq(Frames)
      BY <3>1, FeedInSlices
    <3>3. \/ pc' = "finally" /\ raised'
          \/ pc' = "stop2" /\ feed_file' = feed_file /\ Feed(new) = <<>>
          \/ pc' = "stop2" /\ feed_file' = feed_file \o Feed(new)
      BY <2>6 DEF IngestAgain, IngestFeed, Goes, Raises
    <3>4. Feed(new) = <<>> => Feed(taps) = feed_file
      <4>1. feed_file \o <<>> = feed_file
        BY DEF TypeOK
      <4> QED
        BY <3>1, <3>2, <4>1
    <3> HIDE DEF new
    <3> QED
      BY <1>1, <1>2, <3>1, <3>2, <3>3, <3>4 DEF Starting, FedInv
  <2> QED
    BY <1>2, <2>1, <2>2, <2>3, <2>4, <2>5, <2>6 DEF DriverStep
<1>3. CASE UNCHANGED driverVars /\ UNCHANGED <<taps, live_out, stats>>
  BY <1>1, <1>3 DEF driverVars, FedInv
<1>4. ASSUME pc \in {"pump", "pump2"}, UNCHANGED driverVars,
             Len(taps) <= Len(taps'), \A k \in 1..Len(taps) : taps'[k] = taps[k],
             NEW frame \in Frames, NEW tapped \in Fates, NEW other \in Nodes, NEW met \in Fates,
             PumpStep(frame, tapped, other, met)
      PROVE  FedInv'
  <2>1. taps \in Seq(Frames) /\ taps' \in Seq(Frames)
    BY DEF TypeOK
  <2>2. mode = "stream" => live_out' = CallersLines \o taps'
    <3> SUFFICES ASSUME mode = "stream"
                 PROVE  live_out' = CallersLines \o taps'
      OBVIOUS
    <3> DEFINE Any == [src : Nodes, event_id : Events \cup {NONE}, garbled : BOOLEAN]
               new == Copies(frame, tapped)
    <3>1. Frames \subseteq Any
      BY DEF Frames
    <3>2. CallersLines \in Seq(Any)
      BY StackAssumption DEF CallersLines, Line, NodeA
    <3>3. new \in Seq(Frames)
      BY CopiesOf
    <3> HIDE DEF Any, new
    <3>4. taps \in Seq(Any) /\ new \in Seq(Any)
      BY <2>1, <3>1, <3>3
    <3>5. (CallersLines \o taps) \o new = CallersLines \o (taps \o new)
      BY <3>2, <3>4
    <3> QED
      BY <1>4, <3>5 DEF PumpStep, FedInv, new
  <2>3. CASE pc = "pump"
    BY <1>1, <1>4, <2>2, <2>3 DEF driverVars, Starting, FedInv
  <2>4. CASE pc = "pump2" /\ mode # "stream"
    <3>1. before \in 0..Len(taps)
      BY <2>4 DEF FedInv, TypeOK
    <3>2. SubSeq(taps', 1, before) = SubSeq(taps, 1, before)
      BY <1>4, <2>1, <3>1, PrefixStays
    <3>3. before <= Len(taps')
      BY <1>4, <2>1, <3>1
    <3> QED
      BY <1>1, <1>4, <2>2, <2>4, <3>2, <3>3 DEF driverVars, Starting, FedInv
  <2>5. CASE pc = "pump2" /\ mode = "stream"
    BY <1>1, <1>4, <2>2, <2>5 DEF driverVars, Starting, FedInv
  <2> QED
    BY <1>4, <2>3, <2>4, <2>5
<1> QED
  BY <1>2, <1>3, <1>4, TapGrows

\* What the runs of a profile's name have of it.
LEMMA Profiles ==
  ASSUME TypeOK
  PROVE  /\ mode \in {"e2e", "stream", "chaos"}
         /\ mode = "e2e" => run.name = "e2e_real_stack" /\ profile = NoTrouble
         /\ run.name \in {"loss_50", "partition_heal", "asymmetric_link"} => mode = "chaos"
         /\ run.name = "e2e_real_stack" => mode = "e2e"
         /\ run.name = "partition_heal" => profile.drop_first_frames >= 2
         /\ profile.drop_first_frames \in Nat
<1>1. Cardinality(Events) = 2
  <2>1. Priority(Sos) # Priority(Presence)
    BY StackAssumption
  <2>2. Presence # Sos
    BY <2>1
  <2>3. Events = {Presence} \cup {Sos} /\ Sos \notin {Presence}
    BY <2>2, StackAssumption
  <2>4. IsFiniteSet({Presence}) /\ Cardinality({Presence}) = 1
    BY FS_Singleton
  <2>5. Cardinality({Presence} \cup {Sos}) = 2
    BY <2>3, <2>4, FS_AddElement
  <2> QED
    BY <2>3, <2>5
<1>2. run \in Runs /\ profile = run.profile
  BY DEF TypeOK
<1> QED
  BY <1>1, <1>2, StackAssumption DEF mode

(* The rows of the first ingest are those of the frames tapped by then, and *)
(* the second adds to them.                                                 *)
LEMMA StepHeard ==
  ASSUME TypeOK, TypeOK', LifeInv, FedInv, HeardInv, FirstInv, [Next]_vars
  PROVE  HeardInv'
<1>1. mode' = mode /\ taps \in Seq(Frames) /\ taps' \in Seq(Frames) /\ hub_in \in Seq(Frames)
  BY RunStays DEF TypeOK
<1>2. \A k \in DOMAIN hub_in' : ~hub_in'[k].garbled
  <2>1. \/ hub_in' = hub_in
        \/ hub_in # <<>> /\ hub_in' = Tail(hub_in)
        \/ \E n \in Nodes : \E e \in held[n] :
              hub_in' = Append(hub_in, [src |-> n, event_id |-> e.id, garbled |-> FALSE])
    <3>1. CASE DriverStep
      BY <3>1 DEF DriverStep, Fresh, StartNodes, Inject, StartNodeB2, PumpEnds, Replay,
              WaitNodes, WaitNodeB2, WaitsFor, Ingest, IngestAgain, StopNodeB, StopNodeB2,
              Finally, Kill, ReplayTo, hubVars, routeVars
    <3>2. CASE ~DriverStep
      BY <3>2, Steps DEF Pump, Route, TimePasses, WindowMoves, routeVars, vars, hubVars,
                         GetsReady, TakesBatch, Hears, Transmits
    <3> QED
      BY <3>1, <3>2
  <2>2. \A k \in DOMAIN hub_in : ~hub_in[k].garbled
    BY DEF HeardInv
  <2>3. CASE hub_in # <<>> /\ hub_in' = Tail(hub_in)
    BY <1>1, <2>2, <2>3
  <2>4. ASSUME NEW n \in Nodes, NEW e \in held[n],
               hub_in' = Append(hub_in, [src |-> n, event_id |-> e.id, garbled |-> FALSE])
        PROVE  \A k \in DOMAIN hub_in' : ~hub_in'[k].garbled
    <3> DEFINE frame == [src |-> n, event_id |-> e.id, garbled |-> FALSE]
    <3>1. ~frame.garbled
      OBVIOUS
    <3> HIDE DEF frame
    <3>2. \A k \in DOMAIN hub_in' : hub_in'[k] = frame \/ (k \in DOMAIN hub_in /\ hub_in'[k] = hub_in[k])
      BY <1>1, <2>4 DEF frame
    <3> QED
      BY <2>2, <3>1, <3>2
  <2> QED
    BY <2>1, <2>2, <2>3, <2>4
<1>3. CASE DriverStep /\ UNCHANGED <<taps, live_out, stats>>
  <2>1. CASE Fresh \/ StartNodes \/ Inject \/ StartNodeB2 \/ PumpEnds \/ StopNodeB \/ StopNodeB2
             \/ Finally
    BY <1>1, <1>2, <1>3, <2>1
       DEF Fresh, StartNodes, Inject, StartNodeB2, PumpEnds, StopNodeB, StopNodeB2,
           Finally, Goes, LifeInv, ingestVars, HeardInv
  <2>2. CASE WaitNodes \/ WaitNodeB2
    BY <1>1, <1>2, <1>3, <2>2 DEF WaitNodes, WaitNodeB2, WaitsFor, Goes, Raises, LifeInv,
                                  ingestVars, HeardInv
  <2>3. CASE Ingest
    <3>1. mode # "stream" /\ DOMAIN db = {} /\ pc = "ingest"
      BY <2>3 DEF Ingest, Goes, Raises, LifeInv, FedInv
    <3>2. Feed(taps) \in Seq(Records)
      BY <1>1, FeedOf
    <3>3. \/ pc' = "finally" /\ raised'
          \/ /\ pc' = IF mode = "e2e" THEN "restart" ELSE "finally"
             /\ db' = Ingested(db, Feed(taps))
             /\ events' = db' /\ events_after' = db' /\ feed_order' = FeedOrder(taps)
      BY <2>3 DEF Ingest, IngestFeed, Goes, Raises
    <3>4. DOMAIN Ingested(db, Feed(taps)) = IdsIn(Feed(taps))
      BY <3>1, <3>2, IngestAddsRows
    <3>5. FeedOrder(taps') = FeedOrder(taps) /\ Feed(taps') = Feed(taps)
      BY <1>3
    <3> QED
      BY <1>1, <1>2, <1>3, <3>1, <3>3, <3>4, <3>5 DEF HeardInv
  <2>4. CASE Replay
    <3>1. /\ before' = Len(taps) /\ pc = "replay" /\ pc' = "pump2"
          /\ UNCHANGED <<db, events, events_after>>
      BY <2>4 DEF Replay, Goes, ingestVars
    <3>2. SubSeq(taps', 1, before') = taps
      BY <1>1, <1>3, <3>1
    <3>3. events' = db' /\ events_after' = db' /\ DOMAIN db' = IdsIn(Feed(taps))
      BY <3>1 DEF HeardInv
    <3> QED
      BY <1>1, <1>2, <1>3, <3>1, <3>2, <3>3 DEF HeardInv
  <2>5. CASE IngestAgain
    <3> DEFINE new == SubSeq(taps, before + 1, Len(taps))
    <3>1. mode = "e2e" /\ before \in 0..Len(taps) /\ pc = "ingest2"
      BY <2>5 DEF IngestAgain, Goes, Raises, LifeInv, FedInv, TypeOK
    <3>2. Feed(new) \in Seq(Records)
      <4>1. new \in Seq(Frames)
        BY <1>1, <3>1, FeedInSlices
      <4> HIDE DEF new
      <4> QED
        BY <4>1, FeedOf
    <3>3. \/ pc' = "finally" /\ raised'
          \/ pc' = "stop2" /\ events_after' = events_after
          \/ /\ pc' = "stop2" /\ events_after' = db'
             /\ db' = Ingested(db, Feed(new))
      BY <2>5 DEF IngestAgain, IngestFeed, Goes, Raises
    <3>4. AddsRows(db, Feed(new), Ingested(db, Feed(new)))
      BY <3>2, IngestAddsRows
    <3>5. events = db /\ events_after = db /\ DOMAIN db = IdsIn(Feed(SubSeq(taps, 1, before)))
      BY <3>1 DEF HeardInv
    <3>6. UNCHANGED <<events, before, mode>>
      BY <1>1, <2>5 DEF IngestAgain
    <3> HIDE DEF new
    <3>7. \/ raised'
          \/ \A i \in DOMAIN events : i \in DOMAIN events_after' /\ events_after'[i] = events[i]
      BY <3>3, <3>4, <3>5 DEF AddsRows
    <3>8. SubSeq(taps', 1, before') = SubSeq(taps, 1, before) /\ before' <= Len(taps')
      BY <1>3, <3>1, <3>6
    <3> QED
      BY <1>1, <1>2, <1>3, <3>1, <3>3, <3>5, <3>6, <3>7, <3>8 DEF HeardInv
  <2> QED
    BY <1>3, <2>1, <2>2, <2>3, <2>4, <2>5 DEF DriverStep
<1>4. CASE UNCHANGED driverVars /\ UNCHANGED <<taps, live_out, stats>>
  BY <1>1, <1>2, <1>4 DEF driverVars, ingestVars, HeardInv
<1>5. ASSUME pc \in {"pump", "pump2"}, UNCHANGED driverVars,
             Len(taps) <= Len(taps'), \A k \in 1..Len(taps) : taps'[k] = taps[k],
             NEW frame \in Frames, NEW tapped \in Fates, NEW other \in Nodes, NEW met \in Fates,
             PumpStep(frame, tapped, other, met)
      PROVE  HeardInv'
  <2>1. mode = "e2e" => \A k \in DOMAIN taps' : ~taps'[k].garbled
    <3> SUFFICES ASSUME mode = "e2e"
                 PROVE  \A k \in DOMAIN taps' : ~taps'[k].garbled
      OBVIOUS
    <3>1. profile = NoTrouble /\ window = "ahead" /\ stats.rx_from_nodes \in Nat
      BY Profiles DEF FirstInv, TypeOK
    <3>2. tapped = "intact"
      BY <1>5, <3>1, FatesOf DEF PumpStep
    <3>3. taps' = taps \o <<frame>>
      BY <1>5, <3>2, CopiesOf DEF PumpStep
    <3>4. ~frame.garbled
      BY <1>1, <1>5 DEF PumpStep, HeardInv
    <3>5. \A k \in DOMAIN taps : ~taps[k].garbled
      BY DEF HeardInv
    <3>6. \A k \in DOMAIN taps' : taps'[k] = frame \/ (k \in DOMAIN taps /\ taps'[k] = taps[k])
      BY <1>1, <3>3
    <3> QED
      BY <3>4, <3>5, <3>6
  <2>2. CASE pc = "pump"
    BY <1>1, <1>2, <1>5, <2>1, <2>2 DEF driverVars, HeardInv
  <2>3. CASE pc = "pump2"
    <3>1. before \in 0..Len(taps)
      BY <2>3 DEF FedInv, LifeInv, TypeOK
    <3>2. SubSeq(taps', 1, before) = SubSeq(taps, 1, before)
      BY <1>1, <1>5, <3>1, PrefixStays
    <3>3. UNCHANGED <<pc, before, events, events_after, db>>
      BY <1>5 DEF driverVars, ingestVars
    <3> QED
      BY <1>1, <1>2, <2>1, <2>3, <3>2, <3>3 DEF HeardInv
  <2> QED
    BY <1>5, <2>2, <2>3
<1> QED
  BY <1>3, <1>4, <1>5, TapGrows

-----------------------------------------------------------------------------
(* Each frame the hub reads is counted once at the tap and once at the      *)
(* other node.                                                              *)
LEMMA StepCount ==
  ASSUME TypeOK, CountInv, [Next]_vars
  PROVE  CountInv'
<1>1. CASE UNCHANGED <<taps, live_out, stats>>
  BY <1>1 DEF CountInv, Sum
<1>2. ASSUME NEW frame \in Frames, NEW tapped \in Fates, NEW other \in Nodes, NEW met \in Fates,
             PumpStep(frame, tapped, other, met)
      PROVE  CountInv'
  <2>1. /\ stats.rx_from_nodes \in Nat /\ stats.tap \in [Fates -> Nat]
        /\ stats.fanout \in [Fates -> Nat] /\ taps \in Seq(Frames) /\ Len(taps) \in Nat
    BY DEF TypeOK
  <2>2. /\ stats'.rx_from_nodes = stats.rx_from_nodes + 1
        /\ stats'.tap = [stats.tap EXCEPT ![tapped] = @ + 1]
        /\ stats'.fanout = [stats.fanout EXCEPT ![met] = @ + 1]
    BY <1>2 DEF PumpStep
  <2>3. ASSUME NEW count \in [Fates -> Nat], NEW f \in Fates
        PROVE  Sum([count EXCEPT ![f] = @ + 1]) = Sum(count) + 1
    BY DEF Sum, Fates
  <2>4. /\ Sum(stats'.tap) = stats.rx_from_nodes + 1
        /\ Sum(stats'.fanout) = stats.rx_from_nodes + 1
    <3>1. /\ Sum([stats.tap EXCEPT ![tapped] = @ + 1]) = Sum(stats.tap) + 1
          /\ Sum([stats.fanout EXCEPT ![met] = @ + 1]) = Sum(stats.fanout) + 1
      BY <2>1, <2>3
    <3> QED
      BY <2>2, <3>1 DEF CountInv
  <2>5. Len(taps') = Len(taps) + IF tapped \in {"intact", "corrupt"} THEN 1 ELSE 0
    <3> DEFINE new == Copies(frame, tapped)
    <3>1. new \in Seq(Frames) /\ Len(new) = IF tapped \in {"intact", "corrupt"} THEN 1 ELSE 0
      BY CopiesOf DEF Fates
    <3>2. taps' = taps \o new
      BY <1>2 DEF PumpStep
    <3> HIDE DEF new
    <3>3. taps \in Seq(Frames) /\ new \in Seq(Frames)
      BY <2>1, <3>1
    <3>4. Len(taps \o new) = Len(taps) + Len(new)
      BY <3>3
    <3> QED
      BY <3>1, <3>2, <3>4
  <2>6. Len(taps') = stats'.tap["intact"] + stats'.tap["corrupt"]
    <3>1. PICK old \in [Fates -> Nat] : old = stats.tap
      BY <2>1
    <3>2. PICK new : new = [old EXCEPT ![tapped] = @ + 1]
      OBVIOUS
    <3>3. new["intact"] + new["corrupt"]
             = old["intact"] + old["corrupt"] + IF tapped \in {"intact", "corrupt"} THEN 1 ELSE 0
      BY <3>2 DEF Fates
    <3>4. stats'.tap = new /\ Len(taps) = old["intact"] + old["corrupt"]
      BY <2>2, <3>1, <3>2 DEF CountInv
    <3> QED
      BY <2>5, <3>3, <3>4
  <2> QED
    BY <2>2, <2>4, <2>6 DEF CountInv, Sum
<1> QED
  BY <1>1, <1>2, TapGrows

(* While the first frames are taken away, nobody but NodeA has heard of an  *)
(* event.                                                                   *)
LEMMA StepWindow ==
  ASSUME TypeOK, TypeOK', LifeInv, QuietInv, WindowInv, [Next]_vars
  PROVE  WindowInv'
<1> USE DEF NodeA, NodeB
<1>1. mode' = mode /\ profile' = profile /\ Nodes = {1, 2}
      /\ profile.drop_first_frames \in Nat /\ stats.rx_from_nodes \in Nat
  BY RunStays, Profiles, StackAssumption DEF TypeOK
<1> SUFFICES ASSUME stats'.rx_from_nodes <= profile.drop_first_frames, mode = "chaos",
                    pc' # "fresh"
             PROVE  /\ seen'[NodeB] = {} /\ taps' = <<>>
                    /\ held'[NodeB] = {} /\ \A n \in Nodes : node_in'[n] = <<>>
                    /\ \A k \in DOMAIN hub_in' : hub_in'[k].src = NodeA
  BY <1>1 DEF WindowInv
<1> DEFINE Kept == /\ seen[NodeB] = {} /\ taps = <<>>
                   /\ held[NodeB] = {} /\ \A n \in Nodes : node_in[n] = <<>>
                   /\ \A k \in DOMAIN hub_in : hub_in[k].src = NodeA
<1>2. CASE pc = "fresh"
  <2>1. ~UNCHANGED vars
    BY <1>2 DEF vars, driverVars
  <2>2. AirIsEmpty' /\ Silent' /\ seen'[NodeB] = {}
    BY <1>1, <1>2, <2>1, FromFresh
  <2> QED
    BY <1>1, <2>2 DEF AirIsEmpty, Silent
<1>3. CASE pc # "fresh" /\ UNCHANGED <<taps, live_out, stats>>
  <2>1. Kept
    BY <1>3 DEF WindowInv
  <2>2. CASE DriverStep
    <3>1. CASE Fresh \/ Inject \/ WaitNodes \/ WaitNodeB2 \/ PumpEnds \/ Ingest \/ IngestAgain
      BY <1>1, <1>3, <2>1, <3>1 DEF Fresh, Everywhere, Goes, Inject, WaitNodes, WaitNodeB2,
              WaitsFor, PumpEnds, Ingest, IngestAgain, hubVars, routeVars, nodeVars
    <3>2. CASE StartNodes \/ StartNodeB2
      BY <1>1, <2>1, <3>2 DEF StartNodes, StartNodeB2, Starts, Spawn, hubVars, routeVars
    <3>3. CASE StopNodeB \/ StopNodeB2 \/ Finally
      BY <1>1, <2>1, <3>3 DEF StopNodeB, StopNodeB2, Finally, Kill
    <3>4. ~Replay
      BY DEF Replay, Goes, LifeInv
    <3> QED
      BY <2>2, <3>1, <3>2, <3>3, <3>4 DEF DriverStep
  <2>3. CASE TimePasses \/ UNCHANGED vars
    BY <2>1, <2>3 DEF TimePasses, WindowMoves, routeVars, nodeVars, vars, hubVars
  <2>4. CASE Pump
    BY <1>1, <1>3, <2>4 DEF Pump, Route
  <2>5. ASSUME NEW n \in Nodes,
             \/ GetsReady(n) \/ TakesBatch(n) \/ Hears(n)
             \/ \E e \in held[n] : Transmits(n, e)
        PROVE  /\ seen'[NodeB] = {}
               /\ held'[NodeB] = {} /\ \A m \in Nodes : node_in'[m] = <<>>
               /\ \A k \in DOMAIN hub_in' : hub_in'[k].src = NodeA
    <3>1. CASE GetsReady(n)
      BY <2>1, <3>1 DEF GetsReady, hubVars, routeVars
    <3>2. CASE TakesBatch(n)
      <4>1. n = NodeA
        BY <1>1, <3>2 DEF TakesBatch, QuietInv
      <4> QED
        <5>1. DOMAIN held = Nodes /\ DOMAIN seen = Nodes
          BY DEF TypeOK
        <5>2. held'[NodeB] = held[NodeB] /\ seen'[NodeB] = seen[NodeB]
          BY <1>1, <3>2, <4>1, <5>1 DEF TakesBatch
        <5> QED
          BY <2>1, <3>2, <5>2 DEF TakesBatch, hubVars, routeVars
    <3>3. ~Hears(n)
      BY <2>1 DEF Hears
    <3>4. ASSUME NEW e \in held[n], Transmits(n, e)
          PROVE  /\ seen'[NodeB] = {}
                 /\ held'[NodeB] = {} /\ \A m \in Nodes : node_in'[m] = <<>>
                 /\ \A k \in DOMAIN hub_in' : hub_in'[k].src = NodeA
      <4>1. n = NodeA
        BY <1>1, <2>1, <3>4
      <4> DEFINE frame == [src |-> n, event_id |-> e.id, garbled |-> FALSE]
      <4>2. frame.src = NodeA
        BY <4>1
      <4>3. hub_in' = Append(hub_in, frame) /\ hub_in \in Seq(Frames)
        BY <3>4 DEF Transmits, TypeOK
      <4> HIDE DEF frame
      <4>4. \A k \in DOMAIN hub_in' : hub_in'[k] = frame \/ (k \in DOMAIN hub_in
                                                            /\ hub_in'[k] = hub_in[k])
        BY <4>3
      <4>5. \A k \in DOMAIN hub_in' : hub_in'[k].src = NodeA
        BY <2>1, <4>2, <4>4
      <4> QED
        BY <1>1, <2>1, <3>4, <4>1, <4>5 DEF Transmits, TypeOK
    <3> QED
      BY <2>5, <3>1, <3>2, <3>3, <3>4
  <2> QED
    BY <1>3, <2>1, <2>2, <2>3, <2>4, <2>5, Steps
<1>4. ASSUME NEW frame \in Frames, NEW tapped \in Fates, NEW other \in Nodes, NEW met \in Fates,
             PumpStep(frame, tapped, other, met), pc # "fresh"
      PROVE  /\ seen'[NodeB] = {} /\ taps' = <<>>
             /\ held'[NodeB] = {} /\ \A n \in Nodes : node_in'[n] = <<>>
             /\ \A k \in DOMAIN hub_in' : hub_in'[k].src = NodeA
  <2>1. stats.rx_from_nodes + 1 <= profile.drop_first_frames
    BY <1>4 DEF PumpStep
  <2>2. Kept
    BY <1>1, <1>4, <2>1 DEF WindowInv
  <2>3. Partitioned
    BY <2>1 DEF Partitioned
  <2>4. tapped = "partition" /\ met = "partition"
    BY <1>4, <2>3, FatesOf DEF PumpStep
  <2>5. Copies(frame, tapped) = <<>> /\ Copies(frame, met) = <<>> /\ <<>> \o <<>> = <<>>
    BY <2>4 DEF Copies
  <2>6. hub_in' = Tail(hub_in) /\ hub_in # <<>> /\ hub_in \in Seq(Frames)
    BY <1>4 DEF PumpStep, TypeOK
  <2>7. \A k \in DOMAIN hub_in' : hub_in'[k].src = NodeA
    BY <2>2, <2>6
  <2> QED
    BY <1>4, <2>2, <2>5, <2>7 DEF PumpStep, nodeVars
<1> QED
  BY <1>2, <1>3, <1>4, TapGrows

-----------------------------------------------------------------------------
(* The output of a node is emptied before the nodes start, and then only    *)
(* grows.                                                                   *)
LEMMA OutGrows ==
  ASSUME TypeOK, [Next]_vars, pc # "fresh", NEW n \in Nodes, NEW line,
         \E k \in DOMAIN out[n] : out[n][k] = line
  PROVE  \E k \in DOMAIN out'[n] : out'[n][k] = line
<1>1. out \in [Nodes -> Seq(OutLines)]
  BY DEF TypeOK
<1>2. CASE out' = out
  BY <1>2
<1>3. ASSUME NEW m \in Nodes, NEW more \in Seq(OutLines),
             out' = [out EXCEPT ![m] = out[m] \o more]
      PROVE  \E k \in DOMAIN out'[n] : out'[n][k] = line
  <2>1. PICK k \in DOMAIN out[n] : out[n][k] = line
    OBVIOUS
  <2>2. k \in DOMAIN (out[n] \o more) /\ (out[n] \o more)[k] = line
    BY <1>1, <2>1
  <2>3. out'[n] = out[n] \/ out'[n] = out[n] \o more
    BY <1>1, <1>3
  <2> QED
    BY <2>1, <2>2, <2>3
<1>4. CASE DriverStep
  <2>1. out' = out
    BY <1>4 DEF DriverStep, Fresh, StartNodes, Inject, StartNodeB2, PumpEnds, Replay,
              WaitNodes, WaitNodeB2, WaitsFor, Ingest, IngestAgain, StopNodeB, StopNodeB2,
              Finally, Goes, Kill, Starts, Spawn, nodeVars
  <2> QED
    BY <1>2, <2>1
<1>5. CASE Pump \/ TimePasses \/ UNCHANGED vars
  <2>1. out' = out
    BY <1>5 DEF Pump, TimePasses, vars, nodeVars
  <2> QED
    BY <1>2, <2>1
<1>6. ASSUME NEW m \in Nodes,
             \/ GetsReady(m) \/ TakesBatch(m) \/ Hears(m)
             \/ \E e \in held[m] : Transmits(m, e)
      PROVE  \E k \in DOMAIN out'[n] : out'[n][k] = line
  <2>1. CASE Hears(m)
    BY <1>2, <2>1 DEF Hears
  <2>2. ASSUME NEW said \in OutLines, out' = [out EXCEPT ![m] = Append(out[m], said)]
        PROVE  \E k \in DOMAIN out'[n] : out'[n][k] = line
    <3>1. Append(out[m], said) = out[m] \o <<said>> /\ <<said>> \in Seq(OutLines)
      BY <1>1
    <3> QED
      BY <1>3, <2>2, <3>1
  <2>3. CASE GetsReady(m)
    <3>1. "ready" \in OutLines /\ out' = [out EXCEPT ![m] = Append(out[m], "ready")]
      BY <2>3 DEF GetsReady, OutLines
    <3> QED
      BY <2>2, <3>1
  <2>4. ASSUME NEW e \in held[m], Transmits(m, e)
        PROVE  \E k \in DOMAIN out'[n] : out'[n][k] = line
    <3> DEFINE said == IF e.tries = 0 THEN "transmit" ELSE "retransmit"
    <3>1. said \in OutLines /\ out' = [out EXCEPT ![m] = Append(out[m], said)]
      BY <2>4 DEF Transmits, OutLines
    <3> HIDE DEF said
    <3> QED
      BY <2>2, <3>1
  <2>5. CASE TakesBatch(m)
    <3> DEFINE more == [k \in 1..Cardinality(Head(ble_in[m])) |-> "receipt"]
    <3>1. out' = [out EXCEPT ![m] = out[m] \o more]
      BY <2>5 DEF TakesBatch
    <3>2. more \in Seq(OutLines)
      <4>1. Head(ble_in[m]) \in SUBSET Events
        BY <2>5 DEF TakesBatch, TypeOK
      <4>2. Events = {Presence} \cup {Sos}
        BY StackAssumption
      <4>3. IsFiniteSet(Events)
        BY <4>2, FS_Singleton, FS_AddElement
      <4>4. Cardinality(Head(ble_in[m])) \in Nat
        BY <4>1, <4>3, FS_Subset, FS_CardinalityType
      <4> QED
        BY <4>4 DEF OutLines
    <3> HIDE DEF more
    <3> QED
      BY <1>3, <3>1, <3>2
  <2> QED
    BY <1>6, <2>1, <2>3, <2>4, <2>5
<1> QED
  BY <1>4, <1>5, <1>6, Steps

(* The batch of the phone: what NodeA knew before it is nothing.            *)
LEMMA Batch ==
  ASSUME TypeOK, QuietInv, mode # "stream", TakesBatch(NodeA)
  PROVE  /\ Silent /\ pc # "fresh"
         /\ held' = [held EXCEPT ![NodeA] = {Unsent(Presence), Unsent(Sos)}]
<1> USE DEF NodeA, NodeB
<1>1. Nodes = {1, 2} /\ DOMAIN held = Nodes
  BY StackAssumption DEF TypeOK
<1>2. ble_in[NodeA] = <<{Presence, Sos}>> /\ pc # "fresh"
  BY DEF QuietInv, TakesBatch
<1>3. Silent /\ seen[NodeA] = {}
  BY <1>1, <1>2 DEF QuietInv
<1>4. Head(ble_in[NodeA]) \ seen[NodeA] = {Presence, Sos} /\ held[NodeA] = {}
  <2>1. Head(<<{Presence, Sos}>>) = {Presence, Sos}
    OBVIOUS
  <2> QED
    BY <1>1, <1>2, <1>3, <2>1 DEF AirIsEmpty, Silent
<1>5. held' = [held EXCEPT ![NodeA] = [id : {Presence, Sos}, relay : {FALSE}, tries : {0}]]
  BY <1>4 DEF TakesBatch
<1>6. [id : {Presence, Sos}, relay : {FALSE}, tries : {0}] = {Unsent(Presence), Unsent(Sos)}
  <2>1. ASSUME NEW e \in [id : {Presence, Sos}, relay : {FALSE}, tries : {0}]
        PROVE  e \in {Unsent(Presence), Unsent(Sos)}
    <3>1. e = Unsent(e.id) /\ e.id \in {Presence, Sos}
      BY DEF Unsent
    <3> QED
      BY <3>1
  <2>2. \A i \in {Presence, Sos} : Unsent(i) \in [id : {Presence, Sos}, relay : {FALSE}, tries : {0}]
    BY DEF Unsent
  <2> QED
    BY <2>1, <2>2
<1> QED
  BY <1>2, <1>3, <1>5, <1>6

(* Nothing is under way before NodeA has given its receipts.                *)
LEMMA StepReceipt ==
  ASSUME TypeOK, QuietInv, ReceiptInv, [Next]_vars
  PROVE  ReceiptInv'
<1> USE DEF NodeA, NodeB
<1>1. Nodes = {1, 2} /\ mode' = mode
  BY StackAssumption, RunStays
<1> SUFFICES ASSUME mode # "stream", pc' # "fresh"
             PROVE  Silent' \/ \E k \in DOMAIN out'[NodeA] : out'[NodeA][k] = "receipt"
  BY <1>1 DEF ReceiptInv
<1>2. CASE pc # "fresh" /\ \E k \in DOMAIN out[NodeA] : out[NodeA][k] = "receipt"
  BY <1>1, <1>2, OutGrows
<1>3. CASE Silent /\ ~TakesBatch(NodeA)
  BY <1>3, SilentStays DEF QuietInv
<1>4. CASE TakesBatch(NodeA)
  <2>1. ble_in[NodeA] = <<{Presence, Sos}>>
    BY <1>4 DEF QuietInv, TakesBatch
  <2> DEFINE receipts == [k \in 1..Cardinality({Presence, Sos}) |-> "receipt"]
  <2>2. out' = [out EXCEPT ![NodeA] = out[NodeA] \o receipts]
    <3>1. Head(<<{Presence, Sos}>>) = {Presence, Sos}
      OBVIOUS
    <3> QED
      BY <1>4, <2>1, <3>1 DEF TakesBatch
  <2>3. receipts \in Seq(OutLines) /\ Len(receipts) >= 1 /\ receipts[1] = "receipt"
    <3> DEFINE both == {Presence} \cup {Sos}
               many == Cardinality(both)
    <3>1. IsFiniteSet(both)
      BY FS_Singleton, FS_AddElement
    <3>2. both # {} /\ {Presence, Sos} = both
      OBVIOUS
    <3> HIDE DEF both
    <3>3. many \in Nat /\ many # 0
      BY <3>1, <3>2, FS_CardinalityType, FS_EmptySet
    <3>4. receipts = [k \in 1..many |-> "receipt"] /\ "receipt" \in OutLines
      BY <3>2 DEF OutLines
    <3> HIDE DEF many, receipts
    <3> QED
      BY <3>3, <3>4
  <2>4. out \in [Nodes -> Seq(OutLines)]
    BY DEF TypeOK
  <2> HIDE DEF receipts
  <2>5. out'[NodeA] = out[NodeA] \o receipts /\ out[NodeA] \in Seq(OutLines)
    BY <1>1, <2>2, <2>4
  <2>6. Len(out[NodeA]) + 1 \in DOMAIN out'[NodeA]
        /\ out'[NodeA][Len(out[NodeA]) + 1] = "receipt"
    BY <2>3, <2>5
  <2> QED
    BY <2>6
<1>5. CASE pc = "fresh"
  BY <1>5, FromFresh DEF vars, driverVars
<1> QED
  BY <1>2, <1>3, <1>4, <1>5 DEF ReceiptInv

-----------------------------------------------------------------------------
(* Without trouble the first frame on air is NodeA's SOS.                   *)
LEMMA StepFirst ==
  ASSUME TypeOK, TypeOK', LifeInv, QuietInv, FirstInv, [Next]_vars
  PROVE  FirstInv'
<1> USE DEF NodeA, NodeB
<1>1. mode' = mode /\ Nodes = {1, 2} /\ taps \in Seq(Frames) /\ hub_in \in Seq(Frames)
      /\ taps' \in Seq(Frames) /\ DOMAIN held = Nodes
  BY RunStays, StackAssumption DEF TypeOK
<1> SUFFICES ASSUME mode = "e2e"
             PROVE  FirstInv'
  BY <1>1 DEF FirstInv
<1>2. profile = NoTrouble /\ stats.rx_from_nodes \in Nat
  BY Profiles DEF TypeOK
<1>0. CASE pc = "fresh"
  <2>1. CASE UNCHANGED vars
    BY <1>0, <1>1, <2>1 DEF vars, hubVars, routeVars, nodeVars, driverVars, ingestVars, FirstInv
  <2>2. CASE ~UNCHANGED vars
    <3>1. AirIsEmpty' /\ Silent' /\ window' = window
      BY <1>0, <2>2, FromFresh DEF hubVars
    <3> QED
      BY <1>1, <3>1 DEF FirstInv, AirIsEmpty, Silent
  <2> QED
    BY <2>1, <2>2
<1> SUFFICES ASSUME pc # "fresh"
             PROVE  FirstInv'
  BY <1>0
<1>3. /\ window = "ahead" /\ (taps = <<>> => sos_frame = <<>>)
      /\ taps # <<>> => taps[1].event_id = Sos
      /\ (taps = <<>> /\ hub_in # <<>>) => hub_in[1].event_id = Sos
      /\ (taps = <<>> /\ hub_in = <<>>) =>
            /\ held[NodeA] \in {{}, {Unsent(Presence), Unsent(Sos)}}
            /\ held[NodeB] = {} /\ \A n \in Nodes : node_in[n] = <<>>
  BY DEF FirstInv
<1>4. CASE DriverStep /\ UNCHANGED <<taps, live_out, stats>>
  <2>1. window' = window /\ hub_in' = hub_in
    BY <1>4 DEF DriverStep, Fresh, StartNodes, Inject, StartNodeB2, PumpEnds, Replay, ReplayTo,
              WaitNodes, WaitNodeB2, WaitsFor, Ingest, IngestAgain, StopNodeB, StopNodeB2,
              Finally, Kill, hubVars, routeVars
  <2>2. taps = <<>> => sos_frame' = <<>>
    <3>1. CASE Ingest
      BY <1>1, <3>1, TappedSosOf DEF Ingest
    <3>2. CASE ~Ingest
      BY <1>3, <1>4, <3>2 DEF DriverStep, Fresh, StartNodes, Inject, StartNodeB2, PumpEnds, Replay,
              WaitNodes, WaitNodeB2, WaitsFor, IngestAgain, StopNodeB, StopNodeB2,
              Finally, ingestVars
    <3> QED
      BY <3>1, <3>2
  <2>3. ASSUME taps = <<>>
        PROVE  \A n \in Nodes : held'[n] \in {held[n], {}} /\ node_in'[n] \in {node_in[n], <<>>}
    <3>1. CASE StopNodeB \/ StopNodeB2 \/ Finally
      BY <3>1 DEF StopNodeB, StopNodeB2, Finally, Kill
    <3>2. CASE Replay
      BY <1>3, <2>3, <3>2 DEF Replay, hubVars, routeVars, nodeVars
    <3>3. CASE ~(StopNodeB \/ StopNodeB2 \/ Finally \/ Replay)
      BY <1>4, <3>3 DEF DriverStep, Fresh, StartNodes, Inject, StartNodeB2, PumpEnds,
              WaitNodes, WaitNodeB2, WaitsFor, Ingest, IngestAgain, Starts, Spawn, Everywhere,
              hubVars, routeVars, nodeVars
    <3> QED
      BY <3>1, <3>2, <3>3
  <2> QED
    BY <1>1, <1>3, <1>4, <2>1, <2>2, <2>3 DEF FirstInv
<1>5. CASE TimePasses \/ UNCHANGED vars
  <2>1. ~TimePasses
    BY <1>2 DEF TimePasses, WindowMoves, NoTrouble
  <2> QED
    BY <1>1, <1>3, <1>5, <2>1 DEF vars, hubVars, routeVars, nodeVars, driverVars, ingestVars, FirstInv
<1>6. ASSUME NEW frame \in Frames, NEW tapped \in Fates, NEW other \in Nodes, NEW met \in Fates,
             PumpStep(frame, tapped, other, met)
      PROVE  FirstInv'
  <2>1. /\ tapped \in TapFates /\ taps' = taps \o Copies(frame, tapped)
        /\ hub_in # <<>> /\ frame = Head(hub_in) /\ window' = window
    BY <1>6 DEF PumpStep
  <2>2. tapped = "intact"
    BY <1>2, <1>3, <2>1, FatesOf
  <2>3. taps' = taps \o <<frame>> /\ hub_in # <<>> /\ frame = hub_in[1] /\ window' = window
    <3>1. Copies(frame, tapped) = <<frame>>
      BY <2>2, CopiesOf
    <3>2. Head(hub_in) = hub_in[1]
      BY <1>1, <2>1
    <3> QED
      BY <2>1, <3>1, <3>2
  <2>4. taps' # <<>> /\ taps'[1] = IF taps = <<>> THEN frame ELSE taps[1]
    BY <1>1, <2>3
  <2>5. taps'[1].event_id = Sos
    <3>1. CASE taps = <<>>
      BY <1>3, <2>3, <2>4, <3>1
    <3>2. CASE taps # <<>>
      BY <1>3, <2>4, <3>2
    <3> QED
      BY <3>1, <3>2
  <2> QED
    BY <1>1, <1>3, <2>3, <2>4, <2>5 DEF FirstInv
<1>7. ASSUME NEW n \in Nodes, UNCHANGED driverVars,
             \/ GetsReady(n) \/ TakesBatch(n) \/ Hears(n)
             \/ \E e \in held[n] : Transmits(n, e)
      PROVE  FirstInv'
  <2>1. UNCHANGED <<window, taps, sos_frame>>
    BY <1>7 DEF GetsReady, TakesBatch, Hears, Transmits, hubVars, routeVars, driverVars, ingestVars
  <2>2. CASE GetsReady(n)
    BY <1>1, <1>3, <2>1, <2>2 DEF GetsReady, hubVars, routeVars, FirstInv
  <2>3. CASE TakesBatch(n)
    <3>1. n = NodeA /\ UNCHANGED <<hub_in, node_in>>
      BY <1>1, <2>3 DEF TakesBatch, QuietInv, hubVars, routeVars
    <3>2. held' = [held EXCEPT ![NodeA] = {Unsent(Presence), Unsent(Sos)}]
      BY <2>3, <3>1, Batch
    <3>3. held'[NodeA] = {Unsent(Presence), Unsent(Sos)} /\ held'[NodeB] = held[NodeB]
      BY <1>1, <3>2
    <3> QED
      BY <1>1, <1>3, <2>1, <3>1, <3>3 DEF FirstInv
  <2>4. CASE Hears(n)
    <3>1. ~(taps = <<>> /\ hub_in = <<>>) /\ hub_in' = hub_in
      BY <1>3, <2>4 DEF Hears
    <3> QED
      BY <1>1, <1>3, <2>1, <3>1 DEF FirstInv
  <2>5. ASSUME NEW e \in held[n], Transmits(n, e)
        PROVE  FirstInv'
    <3> DEFINE frame == [src |-> n, event_id |-> e.id, garbled |-> FALSE]
    <3>1. hub_in' = Append(hub_in, frame)
      BY <2>5 DEF Transmits
    <3>2. frame.event_id = e.id
      OBVIOUS
    <3>3. (taps = <<>> /\ hub_in = <<>>) => e.id = Sos
      <4> SUFFICES ASSUME taps = <<>>, hub_in = <<>>
                   PROVE  e.id = Sos
        OBVIOUS
      <4>1. n = NodeA /\ held[n] = {Unsent(Presence), Unsent(Sos)}
        BY <1>1, <1>3
      <4>2. e \in {Unsent(Presence), Unsent(Sos)} /\ Unsent(Sos) \in held[n]
        BY <4>1
      <4>3. \A i : Unsent(i).id = i /\ Unsent(i).tries = 0
        BY DEF Unsent
      <4>4. Priority(e.id) <= Priority(Sos)
        BY <2>5, <4>2, <4>3 DEF Transmits
      <4> QED
        BY <4>2, <4>3, <4>4, StackAssumption
    <3> HIDE DEF frame
    <3>4. hub_in' # <<>> /\ hub_in'[1] = IF hub_in = <<>> THEN frame ELSE hub_in[1]
      BY <1>1, <3>1
    <3>5. taps = <<>> => hub_in'[1].event_id = Sos
      <4>1. CASE hub_in = <<>>
        BY <3>2, <3>3, <3>4, <4>1
      <4>2. CASE hub_in # <<>>
        BY <1>3, <3>4, <4>2
      <4> QED
        BY <4>1, <4>2
    <3> QED
      BY <1>1, <1>3, <2>1, <3>4, <3>5 DEF FirstInv
  <2> QED
    BY <1>7, <2>2, <2>3, <2>4, <2>5
<1>8. CASE Pump
  BY <1>6, <1>8, PumpSteps
<1>9. CASE DriverStep
  BY <1>4, <1>6, <1>9, TapGrows
<1> QED
  BY <1>5, <1>7, <1>8, <1>9, Steps

(* Before NodeA repeats itself there are no more frames than events.        *)
Attempts ==
  /\ stats.rx_from_nodes + Len(hub_in) + (IF Unsent(Sos) \in held[NodeA] THEN 1 ELSE 0)
       + (IF Unsent(Presence) \in held[NodeA] THEN 1 ELSE 0) <= 2
  /\ \A e \in held[NodeA] : e.tries = 0 => e \in {Unsent(Sos), Unsent(Presence)}

LEMMA StepAttempt ==
  ASSUME TypeOK, TypeOK', LifeInv, QuietInv, WindowInv, AttemptInv, [Next]_vars
  PROVE  AttemptInv'
<1> USE DEF NodeA, NodeB
<1>1. /\ mode' = mode /\ profile' = profile /\ Nodes = {1, 2}
      /\ stats.rx_from_nodes \in Nat /\ hub_in \in Seq(Frames) /\ Len(hub_in) \in Nat
      /\ DOMAIN held = Nodes /\ profile.drop_first_frames \in Nat
      /\ Presence # Sos /\ Unsent(Sos) # Unsent(Presence)
  <2>1. Presence # Sos
    BY StackAssumption
  <2>2. Unsent(Sos) # Unsent(Presence)
    BY <2>1 DEF Unsent
  <2>3. mode' = mode /\ profile' = profile /\ profile.drop_first_frames \in Nat
    BY RunStays, Profiles
  <2>4. /\ stats.rx_from_nodes \in Nat /\ hub_in \in Seq(Frames) /\ Len(hub_in) \in Nat
        /\ DOMAIN held = Nodes
    BY DEF TypeOK
  <2> QED
    BY <2>1, <2>2, <2>3, <2>4, StackAssumption
<1> SUFFICES ASSUME mode = "chaos", pc' # "fresh", profile.drop_first_frames >= 2,
                    ~\E k \in DOMAIN out'[NodeA] : out'[NodeA][k] = "retransmit"
             PROVE  Attempts'
  BY <1>1 DEF AttemptInv, Attempts
<1>2. CASE pc = "fresh"
  <2>1. ~UNCHANGED vars
    BY <1>2 DEF vars, driverVars
  <2>2. Silent'
    BY <1>2, <2>1, FromFresh
  <2>3. stats'.rx_from_nodes = 0 /\ Len(hub_in') = 0 /\ held'[NodeA] = {}
    BY <1>1, <2>2 DEF AirIsEmpty, Silent
  <2> QED
    BY <2>3 DEF Attempts
<1>3. CASE pc # "fresh"
  <2>1. Attempts
    BY <1>1, <1>3, OutGrows DEF AttemptInv, Attempts
  <2>2. stats.rx_from_nodes <= profile.drop_first_frames
    BY <1>1, <2>1 DEF Attempts
  <2>3. held[NodeB] = {} /\ \A n \in Nodes : node_in[n] = <<>>
    BY <1>3, <2>2 DEF WindowInv
  <2>4. CASE DriverStep
    <3>1. hub_in' = hub_in /\ held'[NodeA] \in {held[NodeA], {}} /\ stats' = stats
      BY <1>1, <1>3, <2>4 DEF DriverStep, Fresh, StartNodes, Inject, StartNodeB2, PumpEnds, Replay,
              WaitNodes, WaitNodeB2, WaitsFor, Ingest, IngestAgain, StopNodeB, StopNodeB2,
              Finally, Goes, Kill, ReplayTo, Starts, Spawn, hubVars, routeVars, nodeVars
    <3> QED
      BY <1>1, <2>1, <3>1 DEF Attempts
  <2>5. CASE TimePasses \/ UNCHANGED vars
    <3>1. UNCHANGED <<hub_in, held, stats>>
      BY <2>5 DEF TimePasses, WindowMoves, vars, hubVars, routeVars, nodeVars
    <3> QED
      BY <2>1, <3>1 DEF Attempts
  <2>6. CASE Pump
    <3>1. PICK frame \in Frames, tapped \in Fates, other \in Nodes, met \in Fates :
              PumpStep(frame, tapped, other, met)
      BY <2>6, PumpSteps
    <3>2. hub_in # <<>> /\ hub_in' = Tail(hub_in) /\ held' = held
          /\ stats'.rx_from_nodes = stats.rx_from_nodes + 1
      BY <3>1 DEF PumpStep, nodeVars
    <3>3. Len(hub_in') = Len(hub_in) - 1
      BY <1>1, <3>2
    <3> QED
      BY <1>1, <2>1, <3>2, <3>3 DEF Attempts
  <2>7. ASSUME NEW n \in Nodes,
               \/ GetsReady(n) \/ TakesBatch(n) \/ Hears(n)
               \/ \E e \in held[n] : Transmits(n, e)
        PROVE  Attempts'
    <3>1. CASE GetsReady(n)
      BY <2>1, <3>1 DEF GetsReady, hubVars, routeVars, Attempts
    <3>2. CASE TakesBatch(n)
      <4>1. n = NodeA /\ UNCHANGED <<hub_in, stats>>
        BY <1>1, <3>2 DEF TakesBatch, QuietInv, hubVars, routeVars
      <4>2. Silent /\ held' = [held EXCEPT ![NodeA] = {Unsent(Presence), Unsent(Sos)}]
        BY <3>2, <4>1, Batch
      <4>3. held'[NodeA] = {Unsent(Presence), Unsent(Sos)}
            /\ stats'.rx_from_nodes = 0 /\ Len(hub_in') = 0
        BY <1>1, <4>1, <4>2 DEF AirIsEmpty, Silent
      <4> QED
        BY <4>3 DEF Attempts
    <3>3. ~Hears(n)
      BY <2>3 DEF Hears
    <3>4. ASSUME NEW e \in held[n], Transmits(n, e)
          PROVE  Attempts'
      <4>1. n = NodeA /\ stats' = stats
        BY <1>1, <2>3, <3>4 DEF Transmits
      <4>2. e.tries = 0
        <5> DEFINE said == IF e.tries = 0 THEN "transmit" ELSE "retransmit"
        <5>1. out' = [out EXCEPT ![NodeA] = Append(out[NodeA], said)]
              /\ out[NodeA] \in Seq(OutLines) /\ DOMAIN out = Nodes
          BY <1>1, <3>4, <4>1 DEF Transmits, TypeOK
        <5> HIDE DEF said
        <5>2. out'[NodeA] = Append(out[NodeA], said)
          BY <1>1, <5>1
        <5>3. \E k \in DOMAIN out'[NodeA] : out'[NodeA][k] = said
          BY <5>1, <5>2, AppendedIsNumbered
        <5> QED
          BY <5>3 DEF said
      <4>3. e \in {Unsent(Sos), Unsent(Presence)}
        BY <2>1, <4>1, <4>2 DEF Attempts
      <4> DEFINE more == IF e.tries + 1 = MAX_ATTEMPTS THEN {}
                         ELSE {[e EXCEPT !.tries = e.tries + 1]}
      <4>4. \A f \in more : f.tries = 1
        <5>1. e.tries = 0 /\ e = [id |-> e.id, relay |-> FALSE, tries |-> 0]
          BY <4>3 DEF Unsent
        <5> QED
          BY <5>1
      <4>5. held'[NodeA] = (held[NodeA] \ {e}) \cup more
        BY <1>1, <3>4, <4>1 DEF Transmits
      <4>6. Len(hub_in') = Len(hub_in) + 1
        BY <1>1, <3>4 DEF Transmits
      <4> HIDE DEF more
      <4>7. \A f \in held'[NodeA] : f.tries = 0 => f \in held[NodeA] \ {e}
        BY <4>4, <4>5
      <4>8. Unsent(Sos).tries = 0 /\ Unsent(Presence).tries = 0
        BY DEF Unsent
      <4>9. CASE e = Unsent(Sos)
        <5>1. /\ Unsent(Sos) \in held[NodeA] /\ Unsent(Sos) \notin held'[NodeA]
              /\ Unsent(Presence) \in held'[NodeA] => Unsent(Presence) \in held[NodeA]
          BY <4>1, <4>7, <4>8, <4>9
        <5> QED
          BY <1>1, <2>1, <4>1, <4>6, <4>7, <5>1 DEF Attempts
      <4>10. CASE e = Unsent(Presence)
        <5>1. /\ Unsent(Presence) \in held[NodeA] /\ Unsent(Presence) \notin held'[NodeA]
              /\ Unsent(Sos) \in held'[NodeA] => Unsent(Sos) \in held[NodeA]
          BY <4>1, <4>7, <4>8, <4>10
        <5> QED
          BY <1>1, <2>1, <4>1, <4>6, <4>7, <5>1 DEF Attempts
      <4> QED
        BY <4>3, <4>9, <4>10
    <3> QED
      BY <2>7, <3>1, <3>2, <3>3, <3>4
  <2> QED
    BY <2>4, <2>5, <2>6, <2>7, Steps
<1> QED
  BY <1>2, <1>3

-----------------------------------------------------------------------------
(* What the verdict rests on is settled by the first ingest.                *)
LEMMA StepVerdict ==
  ASSUME TypeOK, LifeInv, FedInv, HeardInv, WindowInv, FirstInv, ReceiptInv, AttemptInv,
         VerdictInv, [Next]_vars
  PROVE  VerdictInv'
<1> USE DEF NodeA, NodeB
<1>1. mode' = mode /\ run' = run /\ Nodes = {1, 2} /\ taps \in Seq(Frames)
  BY RunStays, StackAssumption DEF TypeOK
<1>2. CASE Ingest /\ ~raised'
  <2>1. /\ pc = "ingest" /\ pc' \in {"restart", "finally"} /\ db' = Ingested(db, Feed(taps))
        /\ events' = db' /\ feed_order' = FeedOrder(taps)
        /\ counted' = [receipts |-> Lines(NodeA, "receipt"),
                       retransmits |-> Lines(NodeA, "retransmit")]
    BY <1>2 DEF Ingest, IngestFeed, Goes, Raises
  <2>2. mode # "stream" /\ DOMAIN db = {}
    BY <2>1 DEF LifeInv, FedInv
  <2>3. DOMAIN events' = IdsIn(Feed(taps))
    <3>1. Feed(taps) \in Seq(Records)
      BY <1>1, FeedOf
    <3> QED
      BY <2>1, <2>2, <3>1, IngestAddsRows
  <2> SUFFICES ASSUME IdsIn(Feed(taps)) # {}
               PROVE  /\ mode = "e2e" => /\ counted'.receipts >= 1
                                         /\ feed_order' # <<>> /\ feed_order'[1] = Sos
                      /\ run.name = "partition_heal" => counted'.retransmits >= 1
    BY <1>1, <2>3 DEF VerdictInv
  <2>4. taps # <<>>
    <3>1. PICK i : i \in IdsIn(Feed(taps))
      OBVIOUS
    <3>2. PICK k \in DOMAIN taps : taps[k].event_id = i
      BY <1>1, <3>1, FeedOf
    <3> QED
      BY <1>1, <3>2
  <2>5. mode = "e2e" => counted'.receipts >= 1
    <3>1. \E k \in DOMAIN out[NodeA] : out[NodeA][k] = "receipt"
      BY <2>1, <2>2, <2>4 DEF ReceiptInv, AirIsEmpty, Silent
    <3> QED
      BY <1>1, <2>1, <3>1, LinesOf
  <2>6. mode = "e2e" => feed_order' # <<>> /\ feed_order'[1] = Sos
    <3> SUFFICES ASSUME mode = "e2e"
                 PROVE  feed_order' # <<>> /\ feed_order'[1] = Sos
      OBVIOUS
    <3>1. 1 \in DOMAIN taps
      BY <1>1, <2>4
    <3>2. taps[1].event_id = Sos /\ ~taps[1].garbled
      BY <2>4, <3>1 DEF FirstInv, HeardInv
    <3>3. FeedOrder(taps) \in Seq(Events) /\ 1 \in DOMAIN FeedOrder(taps)
          /\ FeedOrder(taps)[1] = taps[1].event_id
      BY <1>1, <3>1, <3>2, OrderOf
    <3> QED
      BY <2>1, <3>2, <3>3
  <2>7. run.name = "partition_heal" => counted'.retransmits >= 1
    <3> SUFFICES ASSUME run.name = "partition_heal"
                 PROVE  counted'.retransmits >= 1
      OBVIOUS
    <3>1. mode = "chaos" /\ profile.drop_first_frames >= 2 /\ profile.drop_first_frames \in Nat
      BY Profiles
    <3>2. \E k \in DOMAIN out[NodeA] : out[NodeA][k] = "retransmit"
      <4> SUFFICES ASSUME ~\E k \in DOMAIN out[NodeA] : out[NodeA][k] = "retransmit"
                   PROVE  FALSE
        OBVIOUS
      <4>1. stats.rx_from_nodes + Len(hub_in) + (IF Unsent(Sos) \in held[NodeA] THEN 1 ELSE 0)
             + (IF Unsent(Presence) \in held[NodeA] THEN 1 ELSE 0) <= 2
        BY <2>1, <3>1 DEF AttemptInv
      <4>2. stats.rx_from_nodes \in Nat /\ Len(hub_in) \in Nat
        BY DEF TypeOK
      <4>3. stats.rx_from_nodes <= profile.drop_first_frames
        BY <3>1, <4>1, <4>2
      <4> QED
        BY <2>1, <2>4, <3>1, <4>3 DEF WindowInv
    <3> QED
      BY <1>1, <2>1, <3>2, LinesOf
  <2> QED
    BY <2>5, <2>6, <2>7
<1>3. CASE raised'
  BY <1>3 DEF VerdictInv
<1>4. CASE DriverStep /\ ~Ingest /\ ~raised'
  <2>1. UNCHANGED <<events, feed_order, counted>>
    BY <1>4 DEF DriverStep, Fresh, StartNodes, Inject, StartNodeB2, PumpEnds, Replay,
              WaitNodes, WaitNodeB2, WaitsFor, IngestAgain, StopNodeB, StopNodeB2,
              Finally, ingestVars
  <2>2. CASE pc \in {"restart", "restart2", "wait2", "replay", "pump2", "ingest2", "stop2",
                     "finally", "over"}
    <3>1. ~raised
      BY <1>4, <2>2 DEF DriverStep, Fresh, StartNodes, Inject, StartNodeB2, PumpEnds, Replay,
              WaitNodes, WaitNodeB2, WaitsFor, IngestAgain, StopNodeB, StopNodeB2, Finally, Goes,
              Raises
    <3> QED
      BY <1>1, <2>1, <2>2, <3>1 DEF VerdictInv
  <2>3. CASE pc \notin {"restart", "restart2", "wait2", "replay", "pump2", "ingest2", "stop2",
                        "finally", "over"}
    <3>1. \/ pc' \notin {"restart", "restart2", "wait2", "replay", "pump2", "ingest2", "stop2",
                         "finally", "over"}
          \/ PumpEnds /\ pc' = "finally" /\ mode = "stream"
      BY <1>4, <2>3 DEF DriverStep, Fresh, StartNodes, Inject, StartNodeB2, PumpEnds, Replay,
              WaitNodes, WaitNodeB2, WaitsFor, IngestAgain, StopNodeB, StopNodeB2, Finally, Goes,
              Raises
    <3>2. run.name = "partition_heal" => mode = "chaos"
      BY Profiles
    <3> QED
      BY <1>1, <3>1, <3>2 DEF VerdictInv
  <2> QED
    BY <2>2, <2>3
<1>5. CASE UNCHANGED driverVars
  BY <1>1, <1>5 DEF driverVars, ingestVars, VerdictInv
<1> QED
  BY <1>2, <1>3, <1>4, <1>5, Steps DEF DriverStep, Pump, TimePasses, vars

-----------------------------------------------------------------------------
(* The inductive invariant: the types and all the parts.                    *)
StackInv ==
  /\ TypeOK /\ LifeInv /\ ReadyInv /\ QuietInv /\ FedInv /\ HeardInv
  /\ WindowInv /\ CountInv /\ FirstInv /\ ReceiptInv /\ AttemptInv /\ VerdictInv

(* In the first state nothing has happened yet.                             *)
LEMMA InitStack == Init => StackInv
<1> SUFFICES ASSUME Init
             PROVE  StackInv
  OBVIOUS
<1> USE DEF NodeA, NodeB
<1>1. TypeOK
  BY InitTypes
<1>2. /\ pc = "fresh" /\ raised = FALSE /\ second = FALSE /\ live_out = CallersLines
      /\ hub_in = <<>> /\ node_in = [n \in Nodes |-> <<>>] /\ taps = <<>> /\ window = "ahead"
      /\ stats = [rx_from_nodes |-> 0, tap |-> [f \in Fates |-> 0], fanout |-> [f \in Fates |-> 0]]
      /\ ble_in = Nowhere /\ up = Everywhere(FALSE) /\ ready = Everywhere(FALSE)
      /\ sos_frame = <<>>
  BY DEF Init, HubInit
<1>3. Nodes = {1, 2}
  BY StackAssumption
<1>4. LifeInv /\ ReadyInv
  BY <1>2 DEF LifeInv, ReadyInv, OnlyNodeB2Outlives, ReadyIsItsOwn
<1>5. AirIsEmpty
  BY <1>2 DEF AirIsEmpty
<1>6. QuietInv
  BY <1>2, <1>3, <1>5 DEF QuietInv, Nowhere, Everywhere, Starting
<1>7. FedInv
  <2>1. CallersLines \o <<>> = CallersLines
    BY <1>3 DEF CallersLines
  <2> QED
    BY <1>2, <2>1 DEF FedInv, EachTapIsFedOnce, Starting
<1>8. HeardInv
  BY <1>2 DEF HeardInv
<1>9. WindowInv /\ AttemptInv /\ ReceiptInv /\ VerdictInv
  BY <1>2 DEF WindowInv, AttemptInv, ReceiptInv, VerdictInv
<1>10. CountInv
  BY <1>2 DEF CountInv, Sum, Fates
<1>11. FirstInv
  BY <1>2, <1>3 DEF FirstInv, Everywhere
<1> QED
  BY <1>1, <1>4, <1>6, <1>7, <1>8, <1>9, <1>10, <1>11 DEF StackInv

(* The inductive invariant holds in every state of a run.                   *)
THEOREM StackHolds == Spec => []StackInv
<1>1. StackInv /\ [Next]_vars => StackInv'
  <2> SUFFICES ASSUME StackInv, [Next]_vars
               PROVE  StackInv'
    OBVIOUS
  <2>1. /\ TypeOK /\ LifeInv /\ ReadyInv /\ QuietInv /\ FedInv /\ HeardInv
        /\ WindowInv /\ CountInv /\ FirstInv /\ ReceiptInv /\ AttemptInv /\ VerdictInv
    BY DEF StackInv
  <2>2. TypeOK'
    <3>1. CASE UNCHANGED vars
      BY <2>1, <3>1 DEF TypeOK, vars, hubVars, routeVars, nodeVars, driverVars, ingestVars
    <3> QED
      BY <2>1, <3>1, Steps, DriverTypes, HubTypes, NodeTypes
  <2>3. LifeInv' /\ ReadyInv' /\ QuietInv' /\ FedInv'
    BY <2>1, <2>2, StepLife, StepReady, StepQuiet, StepFed
  <2>4. HeardInv' /\ WindowInv' /\ CountInv' /\ FirstInv'
    BY <2>1, <2>2, StepHeard, StepWindow, StepCount, StepFirst
  <2>5. ReceiptInv' /\ AttemptInv' /\ VerdictInv'
    BY <2>1, <2>2, StepReceipt, StepAttempt, StepVerdict
  <2> QED
    BY <2>2, <2>3, <2>4, <2>5 DEF StackInv
<1> QED
  BY <1>1, InitStack, PTL DEF Spec

-----------------------------------------------------------------------------
(* What follows for the nodes' processes and for the feed. *)

(* When a run is over no node outlives it, but for a second NodeB after an  *)
(* exception: the finally clause stops node_a and the first node_b.         *)
THEOREM NodesAreStopped == Spec => []OnlyNodeB2Outlives
<1>1. StackInv => OnlyNodeB2Outlives
  BY DEF StackInv, LifeInv
<1> QED
  BY <1>1, StackHolds, PTL

(* wait_ready lets the driver go on only when the process it started is     *)
(* ready: a ready line that an earlier process left does not count.         *)
THEOREM DriverGoesOnWhenReady == Spec => []ReadyIsItsOwn
<1>1. StackInv => ReadyIsItsOwn
  BY DEF StackInv, ReadyInv
<1> QED
  BY <1>1, StackHolds, PTL

(* A run that starts fresh injects events NodeA has not seen, whatever the  *)
(* journals of an earlier run held.                                         *)
THEOREM PhoneIsNeverStale == Spec => []InjectedIsNews
<1>1. StackInv => InjectedIsNews
  <2> SUFFICES ASSUME StackInv, mode # "stream", ble_in[NodeA] # <<>>
               PROVE  Head(ble_in[NodeA]) \cap seen[NodeA] = {}
    BY DEF InjectedIsNews
  <2>1. seen[NodeA] = {}
    BY StackAssumption DEF StackInv, QuietInv, NodeA
  <2> QED
    BY <2>1
<1> QED
  BY <1>1, StackHolds, PTL

(* The slices a run ingests make up the tap, each frame once and in order,  *)
(* and the live feed has each frame behind what its owner wrote.            *)
THEOREM TapsAreFedOnce == Spec => []EachTapIsFedOnce
<1>1. StackInv => EachTapIsFedOnce
  BY DEF StackInv, FedInv
<1> QED
  BY <1>1, StackHolds, PTL

(* While the first frames are taken away NodeB learns nothing, and what the *)
(* window counts are attempts of NodeA.                                     *)
THEOREM WindowCountsNodeA == Spec => []WindowIsNodeAs
<1>1. StackInv => WindowIsNodeAs
  BY DEF StackInv, WindowInv, WindowIsNodeAs
<1> QED
  BY <1>1, StackHolds, PTL

\* The intact frames among the first n have the ids of that slice of the feed.
LEMMA IdsOfPrefix ==
  ASSUME taps \in Seq(Frames), NEW n \in 0..Len(taps)
  PROVE  \A i : i \in IdsIn(Feed(SubSeq(taps, 1, n))) <=>
                   \E k \in 1..n : ~taps[k].garbled /\ taps[k].event_id = i
<1> DEFINE first == SubSeq(taps, 1, n)
<1>1. first \in Seq(Frames) /\ Len(first) = n
  BY FeedInSlices
<1>2. DOMAIN first = 1..n /\ \A k \in 1..n : first[k] = taps[k]
  OBVIOUS
<1> HIDE DEF first
<1>3. \A i : i \in IdsIn(Feed(first)) <=>
                \E k \in DOMAIN first : ~first[k].garbled /\ first[k].event_id = i
  BY <1>1, FeedOf
<1> QED
  BY <1>2, <1>3 DEF first

(* The restart of NodeB and the replay leave every canonical row as it was, *)
(* and add one only for an event that was not heard before them.            *)
THEOREM RestartDisturbsNothing == Spec => []RestartAddsOnlyUnheard
<1>1. StackInv => RestartAddsOnlyUnheard
  <2> SUFFICES ASSUME StackInv, pc = "over", ~raised, mode = "e2e"
               PROVE  /\ \A i \in DOMAIN events :
                            i \in DOMAIN events_after /\ events_after[i] = events[i]
                      /\ \A i \in DOMAIN events_after \ DOMAIN events :
                            \A k \in 1..before : taps[k].event_id # i
    BY DEF RestartAddsOnlyUnheard
  <2>1. TypeOK /\ HeardInv
    BY DEF StackInv
  <2>2. /\ before <= Len(taps) /\ DOMAIN events = IdsIn(Feed(SubSeq(taps, 1, before)))
        /\ \A i \in DOMAIN events : i \in DOMAIN events_after /\ events_after[i] = events[i]
        /\ \A k \in DOMAIN taps : ~taps[k].garbled
    BY <2>1 DEF HeardInv
  <2>3. taps \in Seq(Frames) /\ before \in 0..Len(taps) /\ 1..before \subseteq DOMAIN taps
    BY <2>1, <2>2 DEF TypeOK
  <2>4. \A i : i \in DOMAIN events <=>
                  \E k \in 1..before : ~taps[k].garbled /\ taps[k].event_id = i
    BY <2>2, <2>3, IdsOfPrefix
  <2> QED
    BY <2>2, <2>3, <2>4
<1> QED
  BY <1>1, StackHolds, PTL

-----------------------------------------------------------------------------
(* The report and the verdict say what happened. *)

LEMMA LargerThanZero ==
  ASSUME NEW a \in Nat
  PROVE  Max({a, 0}) = a
<1>1. a \in {a, 0} /\ \A y \in {a, 0} : a >= y
  OBVIOUS
<1>2. \A x \in {a, 0} : (\A y \in {a, 0} : x >= y) => x = a
  OBVIOUS
<1> QED
  BY <1>1, <1>2 DEF Max

\* The frames that repeat an event are those the database did without.
LEMMA Deduplicated ==
  ASSUME taps \in Seq(Frames)
  PROVE  LET intact == {k \in DOMAIN taps : ~taps[k].garbled}
             repeats == {k \in intact : \E j \in intact :
                            j < k /\ taps[j].event_id = taps[k].event_id}
         IN /\ Len(FeedOrder(taps)) - Cardinality(IdsIn(Feed(taps))) = Cardinality(repeats)
            /\ Cardinality(repeats) \in Nat
<1> DEFINE intact == {k \in DOMAIN taps : ~taps[k].garbled}
           repeats == {k \in intact : \E j \in intact :
                          j < k /\ taps[j].event_id = taps[k].event_id}
           id == [k \in DOMAIN taps |-> taps[k].event_id]
           values == {id[k] : k \in intact}
           again == {k \in intact : \E j \in intact : j < k /\ id[j] = id[k]}
<1>1. DOMAIN taps = 1..Len(taps) /\ Len(taps) \in Nat
  OBVIOUS
<1>2. again = repeats
  OBVIOUS
<1>3. values = IdsIn(Feed(taps))
  <2>1. \A i : i \in IdsIn(Feed(taps)) <=>
                  \E k \in DOMAIN taps : ~taps[k].garbled /\ taps[k].event_id = i
    BY FeedOf
  <2>2. \A i : i \in values <=> \E k \in intact : id[k] = i
    OBVIOUS
  <2>3. \A k \in intact : id[k] = taps[k].event_id
    OBVIOUS
  <2> QED
    BY <2>1, <2>2, <2>3
<1>4. Len(FeedOrder(taps)) = Cardinality(intact)
  BY OrderOf
<1>5. /\ Cardinality(again) = Cardinality(intact) - Cardinality(values)
      /\ Cardinality(again) \in Nat
  <2>1. intact \subseteq 1..Len(taps)
    BY <1>1
  <2> HIDE DEF intact, id
  <2> QED
    BY <1>1, <2>1, RepeatsAreTheRest
<1> HIDE DEF values, again
<1> QED
  BY <1>2, <1>3, <1>4, <1>5

\* Every canonical row of a chaos run has a frame in the feed order.
LEMMA RowsAreFed ==
  ASSUME TypeOK, feed_order = FeedOrder(taps), DOMAIN events = IdsIn(Feed(taps))
  PROVE  \A i \in DOMAIN events : FeedCount(i) >= 1
<1> SUFFICES ASSUME NEW i \in DOMAIN events
             PROVE  FeedCount(i) >= 1
  OBVIOUS
<1> DEFINE at == {k \in DOMAIN feed_order : feed_order[k] = i}
<1>1. taps \in Seq(Frames) /\ feed_order \in Seq(Events)
  BY DEF TypeOK
<1>2. PICK k \in DOMAIN taps : ~taps[k].garbled /\ taps[k].event_id = i
  BY <1>1, FeedOf
<1>3. at # {}
  BY <1>1, <1>2, OrderOf
<1>4. IsFiniteSet(at)
  <2>1. DOMAIN feed_order = 1..Len(feed_order) /\ Len(feed_order) \in Nat
    BY <1>1
  <2>2. IsFiniteSet(1..Len(feed_order))
    BY <2>1, FS_Interval
  <2>3. at \subseteq 1..Len(feed_order)
    BY <2>1
  <2> QED
    BY <2>2, <2>3, FS_Subset
<1>5. Cardinality(at) \in Nat /\ Cardinality(at) # 0
  BY <1>3, <1>4, FS_CardinalityType, FS_EmptySet
<1> QED
  BY <1>5 DEF FeedCount

(* The chaos report is about the run that returns it: its rows each have a  *)
(* frame, its SOS is delivered if and only if the gateway heard one, and    *)
(* the frames it calls deduplicated are those that repeat an event.         *)
THEOREM ChaosReportIsTrue == Spec => []ReportIsTrue
<1>1. StackInv => ReportIsTrue
  <2> DEFINE intact == {k \in DOMAIN taps : ~taps[k].garbled}
             repeats == {k \in intact : \E j \in intact :
                            j < k /\ taps[j].event_id = taps[k].event_id}
  <2> SUFFICES ASSUME StackInv, pc = "over", ~raised, mode = "chaos"
               PROVE  /\ report.no_duplicate_canonical
                      /\ report.sos_delivered <=> \E k \in intact : taps[k].event_id = Sos
                      /\ report.dedup = Cardinality(repeats)
                      /\ Len(taps) = stats.tap["intact"] + stats.tap["corrupt"]
                      /\ Sum(stats.tap) = stats.rx_from_nodes
                      /\ Sum(stats.fanout) = stats.rx_from_nodes * (Cardinality(Nodes) - 1)
    BY DEF ReportIsTrue
  <2>1. TypeOK /\ HeardInv /\ CountInv
    BY DEF StackInv
  <2>2. DOMAIN events = IdsIn(Feed(taps)) /\ feed_order = FeedOrder(taps)
    BY <2>1 DEF HeardInv
  <2>3. taps \in Seq(Frames) /\ stats.rx_from_nodes \in Nat
    BY <2>1 DEF TypeOK
  <2>4. report.no_duplicate_canonical
    BY <2>1, <2>2, RowsAreFed DEF report
  <2>5. report.sos_delivered <=> \E k \in intact : taps[k].event_id = Sos
    <3>1. \A i : i \in DOMAIN events <=>
                    \E k \in DOMAIN taps : ~taps[k].garbled /\ taps[k].event_id = i
      BY <2>2, <2>3, FeedOf
    <3>2. report.sos_delivered <=> Sos \in DOMAIN events
      BY DEF report
    <3> QED
      BY <3>1, <3>2
  <2>6. report.dedup = Cardinality(repeats)
    <3>1. /\ Len(feed_order) - Cardinality(DOMAIN events) = Cardinality(repeats)
          /\ Cardinality(repeats) \in Nat
      BY <2>2, <2>3, Deduplicated
    <3>2. report.dedup = Max({Len(feed_order) - Cardinality(DOMAIN events), 0})
      BY DEF report
    <3> HIDE DEF repeats
    <3>3. Max({Cardinality(repeats), 0}) = Cardinality(repeats)
      BY <3>1, LargerThanZero
    <3> QED
      BY <3>1, <3>2, <3>3
  <2>7. stats.rx_from_nodes * (Cardinality(Nodes) - 1) = stats.rx_from_nodes
    <3>1. IsFiniteSet({1}) /\ Cardinality({1}) = 1
      BY FS_Singleton
    <3>2. 2 \notin {1} /\ Nodes = {1} \cup {2}
      BY StackAssumption
    <3>3. Cardinality({1} \cup {2}) = 2
      BY <3>1, <3>2, FS_AddElement
    <3>4. Cardinality(Nodes) = 2
      BY <3>2, <3>3
    <3> QED
      BY <2>3, <3>4
  <2> HIDE DEF intact, repeats
  <2> QED
    BY <2>1, <2>4, <2>5, <2>6, <2>7 DEF CountInv
<1> QED
  BY <1>1, StackHolds, PTL

(* GATE-SCEN passes e2e_real_stack if and only if the gateway heard both    *)
(* events before the restart, and a chaos scenario if and only if it heard  *)
(* the SOS (asymmetric_link: and NodeA repeated itself).                    *)
THEOREM GateSaysWhatHappened == Spec => []VerdictIsTrue
<1>1. StackInv => VerdictIsTrue
  <2> DEFINE Heard(i, frames) == \E k \in 1..frames : taps[k].event_id = i /\ ~taps[k].garbled
  <2> SUFFICES ASSUME StackInv, pc = "over", ~raised,
                      run.name \in {"e2e_real_stack", "loss_50", "partition_heal",
                                    "asymmetric_link"}
               PROVE  Passes <=>
                        IF mode = "e2e" THEN \A i \in Events : Heard(i, before)
                        ELSE /\ Heard(Sos, Len(taps))
                             /\ run.name = "asymmetric_link" => counted.retransmits > 0
    BY DEF VerdictIsTrue
  <2>1. TypeOK /\ HeardInv /\ VerdictInv
    BY DEF StackInv
  <2>2. /\ taps \in Seq(Frames) /\ DOMAIN taps = 1..Len(taps) /\ Len(taps) \in Nat
        /\ before \in Nat /\ DOMAIN events \subseteq Events /\ DOMAIN events_after \subseteq Events
        /\ counted.retransmits \in Nat /\ counted.receipts \in Nat
    BY <2>1 DEF TypeOK
  <2>3. Sos \in Events /\ Presence # Sos
    BY StackAssumption
  <2>4. CASE mode = "e2e"
    <3>1. /\ before <= Len(taps) /\ DOMAIN events = IdsIn(Feed(SubSeq(taps, 1, before)))
          /\ \A i \in DOMAIN events : i \in DOMAIN events_after
      BY <2>1, <2>4 DEF HeardInv
    <3>2. \A i : i \in DOMAIN events <=> Heard(i, before)
      <4>1. before \in 0..Len(taps)
        BY <2>2, <3>1
      <4> QED
        BY <2>2, <3>1, <4>1, IdsOfPrefix
    <3> HIDE DEF Heard
    <3>3. (\A i \in Events : Heard(i, before)) <=> DOMAIN events = Events
      BY <2>2, <3>2
    <3>4. Passes <=> /\ DOMAIN events = Events
                     /\ \E j \in DOMAIN feed_order :
                           feed_order[j] = Sos /\ \A k \in 1..j : feed_order[k] # Presence
                     /\ counted.receipts >= 1
                     /\ DOMAIN events_after = DOMAIN events
      BY <2>4 DEF Passes
    <3>5. ASSUME DOMAIN events = Events
          PROVE  /\ \E j \in DOMAIN feed_order :
                       feed_order[j] = Sos /\ \A k \in 1..j : feed_order[k] # Presence
                 /\ counted.receipts >= 1
                 /\ DOMAIN events_after = DOMAIN events
      <4>1. DOMAIN events # {}
        BY <2>3, <3>5
      <4>2. counted.receipts >= 1 /\ feed_order # <<>> /\ feed_order[1] = Sos
        BY <2>1, <2>4, <4>1 DEF VerdictInv
      <4>3. 1 \in DOMAIN feed_order /\ \A k \in 1..1 : feed_order[k] # Presence
        <5>1. feed_order \in Seq(Events)
          BY <2>1 DEF TypeOK
        <5> QED
          BY <2>3, <4>2, <5>1
      <4> QED
        BY <2>2, <3>1, <3>5, <4>2, <4>3
    <3> QED
      BY <2>4, <3>3, <3>4, <3>5
  <2>5. CASE mode # "e2e"
    <3>1. mode = "chaos" /\ run.name # "e2e_real_stack"
      BY <2>1, <2>5, Profiles
    <3>2. DOMAIN events = IdsIn(Feed(taps)) /\ feed_order = FeedOrder(taps)
      BY <2>1, <3>1 DEF HeardInv
    <3>3. Sos \in DOMAIN events <=> Heard(Sos, Len(taps))
      BY <2>2, <3>2, FeedOf
    <3>4. /\ report.sos_delivered <=> Sos \in DOMAIN events
          /\ report.no_duplicate_canonical
      BY <2>1, <3>2, RowsAreFed DEF report
    <3>5. Passes <=> /\ report.sos_delivered /\ report.no_duplicate_canonical
                     /\ run.name \in {"partition_heal", "asymmetric_link"} =>
                           counted.retransmits > 0
      BY <3>1 DEF Passes
    <3>6. Sos \in DOMAIN events /\ run.name = "partition_heal" => counted.retransmits > 0
      <4> SUFFICES ASSUME Sos \in DOMAIN events, run.name = "partition_heal"
                   PROVE  counted.retransmits > 0
        OBVIOUS
      <4>1. DOMAIN events # {}
        OBVIOUS
      <4>2. counted.retransmits >= 1
        BY <2>1, <4>1 DEF VerdictInv
      <4> QED
        BY <2>2, <4>2
    <3> HIDE DEF Heard
    <3> QED
      BY <2>5, <3>3, <3>4, <3>5, <3>6
  <2> QED
    BY <2>4, <2>5
<1> QED
  BY <1>1, StackHolds, PTL
=============================================================================
