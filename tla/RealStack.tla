------------------------------ MODULE RealStack ------------------------------
(***************************************************************************)
(* A run of the real stack (ignirelay_lab/e2e_real_stack.py): two node     *)
(* processes, the hub and the gateway program, driven step by step by      *)
(* run_e2e_real_stack, run_chaos_real_stack or stream_e2e_real_stack while *)
(* the nodes go on on their own.  A pump may end at any instant: when the  *)
(* medium looks idle, or when its time is up.                              *)
(***************************************************************************)
EXTENDS FieldNode, GatewayDb, Subsequences, FiniteSetsExt

CONSTANTS
    Runs,             \* the runs considered: scenario, profile, and as a bound the
                      \* frames the nodes put on air
    Presence, Sos     \* the two events the phone makes, in this order

\* The profile of a hub that is given none: only the chaos runs give it one.
NoTrouble == [packet_loss_percent |-> 0, corrupt_percent |-> 0, drop_first_frames |-> 0,
              timed |-> FALSE, down |-> {}]

ASSUME StackAssumption ==
    /\ Nodes = {1, 2} /\ Events = {Presence, Sos}
    /\ {Priority(Sos), Priority(Presence)} \subseteq Nat /\ Priority(Sos) < Priority(Presence)
    /\ \A r \in Runs :
          /\ {r.profile.packet_loss_percent, r.profile.corrupt_percent} \subseteq 0..100
          /\ r.profile.drop_first_frames \in Nat /\ r.profile.timed \in BOOLEAN
          /\ r.profile.down \subseteq Nodes \X Nodes /\ r.frames \in Nat
          /\ r.name \in {"e2e_real_stack", "c4_live"} => r.profile = NoTrouble
          /\ r.name = "partition_heal" => r.profile.drop_first_frames >= Cardinality(Events)

VARIABLES
    run, pc,
    raised,          \* an exception is on its way out
    start_offset,    \* node -> where its process's own output begins
    db,              \* gateway.sqlite
    feed_file,       \* gateway_feed.jsonl
    events,          \* what the first ingest returned
    events_after,    \* what the run returned last
    feed_order,      \* the intact frames of the feed first ingested: their events
    counted,         \* receipts and retransmits NodeA had printed by then
    sos_frame,       \* NodeA's tapped SOS frame, or none
    before,          \* taps when the second pump started
    second           \* NodeB has been replaced by node_b2

ingestVars == <<events, events_after, feed_order, counted, sos_frame>>
driverVars == <<run, pc, raised, start_offset, db, feed_file, ingestVars, before, second>>
vars == <<hubVars, nodeVars, driverVars>>

\* The function that runs a scenario.
mode == CASE run.name = "e2e_real_stack" -> "e2e" [] run.name = "c4_live" -> "stream"
          [] OTHER -> "chaos"

NodeA == 1
NodeB == 2
NONE == "none"
Nowhere == [n \in Nodes |-> <<>>]
Everywhere(x) == [n \in Nodes |-> x]
Line(i) == [src |-> NodeA, event_id |-> i, garbled |-> FALSE]
CallersLines == <<Line(NONE)>>    \* what the owner of the live feed wrote first

\* gateway_feed: the records of some taps.
Feed(frames) == [k \in DOMAIN frames |->
                    [frame |-> frames[k], last_hop_node_id |-> frames[k].src]]

\* What an earlier run may have left in a journal to put on air.
Left(n, ids) == {[id |-> i, relay |-> n # NodeA, tries |-> 0] : i \in ids}

\* The files of an earlier run may lie about: its database, feed and journals.
Init ==
    /\ run \in Runs /\ profile = run.profile
    /\ pc = "fresh" /\ raised = FALSE /\ second = FALSE
    /\ HubInit /\ live_out = CallersLines
    /\ ble_in = Nowhere /\ up = Everywhere(FALSE) /\ ready = Everywhere(FALSE)
    /\ start_offset = Everywhere(0)
    /\ out \in {Nowhere, Everywhere(<<"ready">>)}
    /\ \E old \in {<<>>, Feed(<<Line(Presence)>>)} :
          /\ feed_file = old /\ db = Ingested(<<>>, old)
          /\ seen = Everywhere(IdsIn(old))
          /\ held \in {Everywhere({}), [n \in Nodes |-> Left(n, IdsIn(old))]}
    /\ events = <<>> /\ events_after = <<>> /\ sos_frame = <<>> /\ before = 0
    /\ feed_order = <<>> /\ counted = [receipts |-> 0, retransmits |-> 0]

Goes(from, to) == pc = from /\ pc' = to

\* An exception: to the finally clause.
Raises(from) == Goes(from, "finally") /\ raised' = TRUE

Bug_KeepsDatabase ==
    /\ Goes("fresh", "start")
    /\ out' = Nowhere
    /\ UNCHANGED <<db, feed_file>> /\ seen' = Everywhere({}) /\ held' = Everywhere({})
    /\ UNCHANGED <<hubVars, up, ready, ble_in, run, raised, start_offset,
                   ingestVars, before, second>>

Bug_KeepsJournals ==
    /\ Goes("fresh", "start")
    /\ out' = Nowhere
    /\ IF mode = "stream" THEN UNCHANGED <<db, feed_file>>
                          ELSE db' = <<>> /\ feed_file' = <<>>
    /\ UNCHANGED <<hubVars, up, ready, seen, held, ble_in, run, raised, start_offset,
                   ingestVars, before, second>>

\* The output files are emptied; the database, the feed and the journals are
\* removed, except by stream_e2e_real_stack, whose live feed belongs to its caller.
Fresh ==
    /\ Goes("fresh", "start")
    /\ out' = Nowhere
    /\ IF mode = "stream" THEN UNCHANGED <<db, feed_file, seen, held>>
       ELSE /\ db' = <<>> /\ feed_file' = <<>>
            /\ seen' = Everywhere({}) /\ held' = Everywhere({})
    /\ UNCHANGED <<hubVars, up, ready, ble_in, run, raised, start_offset,
                   ingestVars, before, second>>

Bug_ReadsWholeOutput(nodes) ==
    /\ Spawn(nodes)
    /\ start_offset' = [n \in Nodes |-> IF n \in nodes THEN 0 ELSE start_offset[n]]

\* NodeProcess.start: the output file is appended to, and its length remembered.
Starts(nodes) ==
    /\ Spawn(nodes)
    /\ start_offset' = [n \in Nodes |-> IF n \in nodes THEN Len(out[n])
                                                       ELSE start_offset[n]]

\* NodeProcess.wait_ready: the ready line is in the process's own output.
SaysReady(n) == \E k \in start_offset[n] + 1..Len(out[n]) : out[n][k] = "ready"

StartNodes ==
    /\ Goes("start", "wait")
    /\ Starts(Nodes)
    /\ UNCHANGED <<hubVars, run, raised, db, feed_file, ingestVars, before, second>>

\* A node that is not ready in time, or exits, ends the run.
WaitsFor(from, nodes, to) ==
    /\ \/ (\A n \in nodes : SaysReady(n)) /\ Goes(from, to) /\ UNCHANGED raised
       \/ (\E n \in nodes : ~SaysReady(n)) /\ Raises(from)
    /\ UNCHANGED <<hubVars, nodeVars, run, start_offset, db, feed_file, ingestVars, before, second>>

WaitNodes == WaitsFor("wait", Nodes, "inject")

Bug_InjectsOneByOne ==
    /\ Goes("inject", "pump")
    /\ ble_in' = [ble_in EXCEPT ![NodeA] = @ \o <<{Presence}, {Sos}>>]
    /\ UNCHANGED <<hubVars, up, ready, out, seen, held, run, raised, start_offset,
                   db, feed_file, ingestVars, before, second>>

\* inject_ble: both envelopes in one datagram.
Inject ==
    /\ Goes("inject", "pump")
    /\ ble_in' = [ble_in EXCEPT ![NodeA] = Append(@, {Presence, Sos})]
    /\ UNCHANGED <<hubVars, up, ready, out, seen, held, run, raised, start_offset,
                   db, feed_file, ingestVars, before, second>>

Pump ==
    /\ pc \in {"pump", "pump2"}
    /\ Route(up, mode = "stream")
    /\ UNCHANGED <<nodeVars, driverVars>>

PumpEnds ==
    /\ \/ Goes("pump", IF mode = "stream" THEN "finally" ELSE "ingest")
       \/ Goes("pump2", "ingest2")
    /\ UNCHANGED <<hubVars, nodeVars, run, raised, start_offset, db, feed_file,
                   ingestVars, before, second>>

Bug_ReplacesDatabase(feed) == feed_file' = feed_file \o feed /\ db' = Ingested(<<>>, feed)

\* ingest_feed with a feed: the slice is appended to the feed file and ingested.
IngestFeed(feed) == feed_file' = feed_file \o feed /\ db' = Ingested(db, feed)

\* ... and the gateway program fails, or is not there.
IngestFails(feed) ==
    \/ UNCHANGED <<feed_file, db>>
    \/ feed_file' = feed_file \o feed /\ db' \in PartlyIngested(db, feed)

\* _feed_order_and_counts: the events of the frames that verify, in order.
FeedOrder(frames) ==
    LET intact == Subsequence(frames, {k \in DOMAIN frames : ~frames[k].garbled})
    IN [k \in DOMAIN intact |-> intact[k].event_id]

FeedCount(i) == Cardinality({k \in DOMAIN feed_order : feed_order[k] = i})

\* count_node_receipt_emits and count_lora_tx
Lines(n, line) == Cardinality({k \in DOMAIN out[n] : out[n][k] = line})

\* NodeA's first intact tapped SOS frame, if there is one.
TappedSos ==
    LET mine == Subsequence(taps, {k \in DOMAIN taps : /\ taps[k].src = NodeA
                                                      /\ taps[k].event_id = Sos
                                                      /\ ~taps[k].garbled})
    IN IF mine = <<>> THEN <<>> ELSE <<Head(mine)>>

Ingest ==
    /\ \/ /\ Goes("ingest", IF mode = "e2e" THEN "restart" ELSE "finally")
          /\ IngestFeed(Feed(taps))
          /\ events' = db' /\ events_after' = db' /\ feed_order' = FeedOrder(taps)
          /\ counted' = [receipts |-> Lines(NodeA, "receipt"),
                         retransmits |-> Lines(NodeA, "retransmit")]
          /\ UNCHANGED raised
       \/ /\ Raises("ingest") /\ IngestFails(Feed(taps))
          /\ UNCHANGED <<events, events_after, feed_order, counted>>
    /\ sos_frame' = IF mode = "e2e" THEN TappedSos ELSE <<>>
    /\ UNCHANGED <<hubVars, nodeVars, run, start_offset, before, second>>

\* node_b.stop(), then node_b2 on the same ports, journal and output file.
StopNodeB ==
    /\ Goes("restart", "restart2")
    /\ Kill({NodeB})
    /\ UNCHANGED <<run, raised, start_offset, db, feed_file, ingestVars, before, second>>

StartNodeB2 ==
    /\ Goes("restart2", "wait2") /\ second' = TRUE
    /\ Starts({NodeB})
    /\ UNCHANGED <<hubVars, run, raised, db, feed_file, ingestVars, before>>

WaitNodeB2 == WaitsFor("wait2", {NodeB}, "replay")

Bug_ForgetsWhatWasFed ==
    /\ Goes("replay", "pump2")
    /\ before' = 0
    /\ IF sos_frame # <<>> THEN ReplayTo(sos_frame[1], NodeB) ELSE UNCHANGED hubVars
    /\ UNCHANGED <<nodeVars, run, raised, start_offset, db, feed_file, ingestVars, second>>

Replay ==
    /\ Goes("replay", "pump2")
    /\ before' = Len(taps)
    /\ IF sos_frame # <<>> THEN ReplayTo(sos_frame[1], NodeB) ELSE UNCHANGED hubVars
    /\ UNCHANGED <<nodeVars, run, raised, start_offset, db, feed_file, ingestVars, second>>

\* Only what was tapped since is ingested, if anything was.
IngestAgain ==
    /\ LET new_feed == Feed(SubSeq(taps, before + 1, Len(taps)))
       IN \/ /\ Goes("ingest2", "stop2") /\ UNCHANGED raised
             /\ IF new_feed # <<>> THEN IngestFeed(new_feed) /\ events_after' = db'
                                   ELSE UNCHANGED <<feed_file, db, events_after>>
          \/ /\ new_feed # <<>> /\ Raises("ingest2")
             /\ IngestFails(new_feed) /\ UNCHANGED events_after
    /\ UNCHANGED <<hubVars, nodeVars, run, start_offset, events, feed_order, counted, sos_frame,
                   before, second>>

StopNodeB2 ==
    /\ Goes("stop2", "finally")
    /\ Kill({NodeB})
    /\ UNCHANGED <<run, raised, start_offset, db, feed_file, ingestVars, before, second>>

Bug_CleansUpOnSuccessOnly ==
    /\ Goes("finally", "over")
    /\ Kill(IF raised THEN {} ELSE IF second THEN {NodeA} ELSE Nodes)
    /\ UNCHANGED <<run, raised, start_offset, db, feed_file, ingestVars, before, second>>

\* The finally clause stops node_a and node_b: a NodeB that was replaced is not
\* the one it stops.
Finally ==
    /\ Goes("finally", "over")
    /\ Kill(IF second THEN {NodeA} ELSE Nodes)
    /\ UNCHANGED <<run, raised, start_offset, db, feed_file, ingestVars, before, second>>

\* The figures of the chaos report, from what the run ingested and counted.
report ==
    [dedup |-> Max({Len(feed_order) - Cardinality(DOMAIN events), 0}),
     sos_delivered |-> Sos \in DOMAIN events,
     no_duplicate_canonical |-> \A i \in DOMAIN events : FeedCount(i) >= 1]

\* evaluate of cli.py, on what scenario.py makes of the result.
Passes ==
    CASE mode = "e2e" ->
           /\ DOMAIN events = Events
           /\ \E j \in DOMAIN feed_order :
                 feed_order[j] = Sos /\ \A k \in 1..j : feed_order[k] # Presence
           /\ counted.receipts >= 1
           /\ DOMAIN events_after = DOMAIN events
      [] mode = "chaos" ->
           /\ report.sos_delivered /\ report.no_duplicate_canonical
           /\ run.name \in {"partition_heal", "asymmetric_link"} => counted.retransmits > 0

Driver ==
    \/ Fresh \/ StartNodes \/ WaitNodes \/ Inject \/ Pump \/ PumpEnds \/ Ingest
    \/ StopNodeB \/ StartNodeB2 \/ WaitNodeB2 \/ Replay \/ IngestAgain
    \/ StopNodeB2 \/ Finally

FieldNodes ==
    /\ FieldNodeStep
    /\ stats.rx_from_nodes + Len(hub_in') <= run.frames
    /\ UNCHANGED driverVars

\* Time runs once the events are injected.
TimePasses ==
    /\ pc \notin {"fresh", "start", "wait", "inject"} /\ WindowMoves
    /\ UNCHANGED <<nodeVars, driverVars>>

Next == Driver \/ FieldNodes \/ TimePasses

Spec == Init /\ [][Next]_vars

-----------------------------------------------------------------------------
Frames == [src : Nodes, event_id : Events, garbled : BOOLEAN]
Records == [frame : Frames, last_hop_node_id : Nodes]
OutLines == {"ready", "receipt", "transmit", "retransmit"}

TypeOK ==
    /\ run \in Runs /\ profile = run.profile /\ window \in {"ahead", "open", "past"}
    /\ pc \in {"fresh", "start", "wait", "inject", "pump", "ingest", "restart", "restart2",
               "wait2", "replay", "pump2", "ingest2", "stop2", "finally", "over"}
    /\ raised \in BOOLEAN /\ second \in BOOLEAN
    /\ hub_in \in Seq(Frames) /\ node_in \in [Nodes -> Seq(Frames)] /\ taps \in Seq(Frames)
    /\ live_out \in Seq([src : Nodes, event_id : Events \cup {NONE}, garbled : BOOLEAN])
    /\ stats \in [rx_from_nodes : Nat, tap : [Fates -> Nat], fanout : [Fates -> Nat]]
    /\ up \in [Nodes -> BOOLEAN] /\ ready \in [Nodes -> BOOLEAN]
    /\ out \in [Nodes -> Seq(OutLines)] /\ start_offset \in [Nodes -> Nat]
    /\ seen \in [Nodes -> SUBSET Events] /\ ble_in \in [Nodes -> Seq(SUBSET Events)]
    /\ held \in [Nodes -> SUBSET {e \in Held : e.tries < MAX_ATTEMPTS}]
    /\ feed_file \in Seq(Records) /\ feed_order \in Seq(Events)
    /\ counted \in [receipts : Nat, retransmits : Nat] /\ before \in Nat
    /\ sos_frame \in {<<>>} \cup {<<f>> : f \in Frames}
    /\ \A table \in {db, events, events_after} : DOMAIN table \subseteq Events

(* The restart of NodeB and the replay change no canonical row, and add one *)
(* only for an event the gateway had not heard before the restart.          *)
RestartAddsOnlyUnheard ==
    pc = "over" /\ ~raised /\ mode = "e2e" =>
        /\ \A i \in DOMAIN events : i \in DOMAIN events_after /\ events_after[i] = events[i]
        /\ \A i \in DOMAIN events_after \ DOMAIN events :
              \A k \in 1..before : taps[k].event_id # i

(* Every tapped frame is fed to the gateway once, in order, over the two    *)
(* slices of a run; a live feed has every frame at once, behind what its    *)
(* owner wrote.                                                             *)
EachTapIsFedOnce ==
    /\ pc = "over" /\ ~raised /\ mode # "stream" => feed_file = Feed(taps)
    /\ mode = "stream" => live_out = CallersLines \o taps

(* The driver goes on after a restart only when the new NodeB is ready: the *)
(* ready line its predecessor left in the same file does not count.         *)
ReadyIsItsOwn ==
    /\ pc \in {"inject", "pump"} => ready[NodeA] /\ ready[NodeB]
    /\ pc \in {"replay", "pump2"} => ready[NodeB]

(* In a run that starts fresh NodeA has never seen what it is given, though *)
(* the phone makes the same event ids in every run.                         *)
InjectedIsNews ==
    mode # "stream" /\ ble_in[NodeA] # <<>> => Head(ble_in[NodeA]) \cap seen[NodeA] = {}

Sum(fates) == fates["intact"] + fates["corrupt"] + fates["loss"] + fates["partition"]
                + fates["asymmetric"]

(* The chaos report is about this run, whatever an earlier one left behind:  *)
(* no canonical row without a frame of it, an SOS is delivered if and only   *)
(* if the gateway heard one, the deduplicated frames are those beyond the    *)
(* first of their event, and the counters have each frame once at the tap    *)
(* and once for each other node.                                             *)
ReportIsTrue ==
    pc = "over" /\ ~raised /\ mode = "chaos" =>
        LET intact == {k \in DOMAIN taps : ~taps[k].garbled}
            repeats == {k \in intact : \E j \in intact :
                            j < k /\ taps[j].event_id = taps[k].event_id}
        IN /\ report.no_duplicate_canonical
           /\ report.sos_delivered <=> \E k \in intact : taps[k].event_id = Sos
           /\ report.dedup = Cardinality(repeats)
           /\ Len(taps) = stats.tap["intact"] + stats.tap["corrupt"]
           /\ Sum(stats.tap) = stats.rx_from_nodes
           /\ Sum(stats.fanout) = stats.rx_from_nodes * (Cardinality(Nodes) - 1)

(* GATE-SCEN says what happened: e2e_real_stack passes if and only if the   *)
(* gateway heard both events before the restart, in whatever order they     *)
(* were injected and whatever the restart brings; a chaos scenario passes   *)
(* if and only if the gateway heard the SOS, and asymmetric_link saw NodeA  *)
(* repeat itself.  An SOS heard after the partition was retransmitted.      *)
VerdictIsTrue ==
    pc = "over" /\ ~raised /\ run.name \in {"e2e_real_stack", "loss_50", "partition_heal",
                                             "asymmetric_link"} =>
        LET Heard(i, frames) == \E k \in 1..frames : taps[k].event_id = i /\ ~taps[k].garbled
        IN Passes <=>
             IF mode = "e2e" THEN \A i \in Events : Heard(i, before)
             ELSE /\ Heard(Sos, Len(taps))
                  /\ run.name = "asymmetric_link" => counted.retransmits > 0

(* While the partition lasts NodeB knows nothing and stays silent, so the   *)
(* frames the window counts are all NodeA's own attempts.                   *)
WindowIsNodeAs ==
    stats.rx_from_nodes <= profile.drop_first_frames /\ mode = "chaos" /\ pc # "fresh" =>
        /\ seen[NodeB] = {} /\ taps = <<>>
        /\ \A k \in DOMAIN hub_in : hub_in[k].src = NodeA

(* When the run is over no node outlives it, but for a second NodeB after   *)
(* an exception.                                                            *)
OnlyNodeB2Outlives == pc = "over" => ~up[NodeA] /\ (up[NodeB] => second /\ raised)
=============================================================================
