----------------------------- MODULE RunScenario ----------------------------
(***************************************************************************)
(* The scenarios of the lab that run on simulated nodes (run_scenario of   *)
(* ignirelay_lab/scenario.py) and what GATE-SCEN says of each (evaluate of *)
(* cli.py).  A scenario is a plan: the calls its function makes, in their  *)
(* order.  The main ones go round a loop in which NodeA transmits, the     *)
(* channel drains and NodeB receives what came.  The actions are           *)
(* RelayLab's, put in order; the sink is FakeGatewaySink or, in cli mode,  *)
(* GatewayCliSink, whose gateway program succeeds here.                    *)
(***************************************************************************)
EXTENDS RelayLab, GatewayDb

CONSTANTS
    Runs,         \* what to run: scenario, gateway mode, profile, steps of the loop
    VALIDITY_MS,  \* _DEFAULT_VALIDITY_MS
    STEP_MS       \* milliseconds from a step to the next

\* What the phone builds: its counter makes the id.
Built(event_type, priority, created_ms, counter, validity_ms) ==
    [id |-> counter, fault |-> "none", event_type |-> event_type, priority |-> priority,
     created_ms |-> created_ms, created_counter |-> counter,
     expires_ms |-> created_ms + validity_ms, max_hops |-> 0, author |-> "phone",
     anon |-> IF event_type = "presence" THEN 1 ELSE 0]

PhonePresence == Built("presence", ALERT, 0, 1, VALIDITY_MS)
SecondSos == Built("sos", SOS_RED, 1, 2, VALIDITY_MS)
OnlySos == Built("sos", SOS_RED, 0, 1, VALIDITY_MS)
ExpiredSos == Built("sos", SOS_RED, 99, 1, 0)

PhoneEvents == {PhonePresence, SecondSos, OnlySos, ExpiredSos}

MAIN_SOS_SCENARIOS == {"normal", "loss_20", "busy_sos", "gateway_cli"}

\* The calls of a plan.
Send(t, env) == [call |-> "send", at |-> t, env |-> env]
Call(what, t) == [call |-> what, at |-> t]

\* The same event from ten relays.
StormPlan ==
    <<Send(0, OnlySos), Call("build storm", 0),
      Call("hear", 100), Call("hear", 101), Call("hear", 102), Call("hear", 103),
      Call("hear", 104), Call("hear", 105), Call("hear", 106), Call("hear", 107),
      Call("hear", 108), Call("hear", 109), Call("finalize", 0)>>

\* The scenarios with a script of their own; the first two calls of most are
\* _ingest_one_sos.
SpecialPlans ==
    [node_reboot |->
        <<Send(0, OnlySos), Call("build", 0), Call("hear", 100), Call("reboot", 150),
          Call("overhear", 200), Call("finalize", 0)>>,
     replayed_valid_packet |->
        <<Send(0, OnlySos), Call("build", 0), Call("hear", 100), Call("overhear", 300),
          Call("finalize", 0)>>,
     gateway_reboot |->
        <<Send(0, OnlySos), Call("build", 0), Call("hear", 100), Call("finalize", 100),
          Call("restart", 200), Call("finalize", 0)>>,
     duplicate_storm_10_nodes |-> StormPlan,
     expired_event |-> <<Send(100, ExpiredSos), Call("finalize", 0)>>]

Plan(name) ==
    IF name \in DOMAIN SpecialPlans THEN SpecialPlans[name]
    ELSE IF name \in MAIN_SOS_SCENARIOS
    THEN <<Send(1, PhonePresence), Send(1, SecondSos), Call("loop", 0), Call("finalize", 0)>>
    ELSE <<Send(1, PhonePresence), Call("loop", 0), Call("finalize", 0)>>

ASSUME ScenarioAssumption ==
    /\ Envelopes = PhoneEvents /\ {run.profile : run \in Runs} = Profiles
    /\ STEP_MS \in Nat /\ VALIDITY_MS \in Nat
    /\ \A run \in Runs :
          /\ run.mode \in {"fake", "cli"} /\ run.steps \in Nat \ {0}
          /\ run.name \in MAIN_SOS_SCENARIOS \cup DOMAIN SpecialPlans

\* The instants of the calls: those of the scripts, and the steps of the loop.
ASSUME InstantsAssumption ==
    /\ 0..300 \subseteq Times
    /\ \A run \in Runs : \A step \in 0..run.steps - 1 : step * STEP_MS \in Times

\* What the figures of the lab are to each other: there is room for two events,
\* a frame has hops left and comes within the replay window, and without a busy
\* channel the steps are enough for as many attempts as two events may have, each
\* after the longest backoff, and for the frame of the last.
ASSUME FiguresAssumption ==
    /\ VALIDITY_MS > 0 /\ STEP_MS > 0 /\ max_queue_size > 1
    /\ DEFAULT_TTL % BYTE # 0 /\ \A t \in Times : t <= HLC_REPLAY_WINDOW_MS
    /\ \A run \in Runs : run.profile.channel_busy_percent = 0 =>
          \A delay \in run.profile.delays :
             (LOSS_BUDGET_CRITICAL + LOSS_BUDGET_DEFAULT + 2)
                 * (RETRY_BACKOFF_MS + RETRY_JITTER_MS + STEP_MS) + delay + 1
               <= (run.steps - 1) * STEP_MS

VARIABLES
    run,        \* the member of Runs that runs
    plan,       \* the calls left to make
    phase,      \* where in a step the loop is
    step,       \* its step
    table,      \* the table of the gateway program
    reasons     \* the refusals in the log

driverVars == <<run, plan, phase, step, table, reasons>>
runVars == <<vars, driverVars>>

RunInit ==
    /\ Init
    /\ run \in {r \in Runs : r.profile = profile}
    /\ plan = Plan(run.name) /\ phase = "transmit" /\ step = 0
    /\ table = <<>> /\ reasons = {}

Calls(what) == plan # <<>> /\ Head(plan).call = what
at == Head(plan).at
Done == plan' = Tail(plan) /\ UNCHANGED <<run, phase, step>>

-----------------------------------------------------------------------------
(* The sink *)

\* gateway_reboot has its own sink.
CliSink == run.mode = "cli" \/ run.name = "gateway_reboot"

SinkReceives(inbound) ==
    IF CliSink THEN routes' = Append(routes, inbound) /\ UNCHANGED events
               ELSE GatewayReceive(inbound)

Records ==
    [k \in DOMAIN routes |->
        [frame |-> [event_id |-> routes[k].event_id, garbled |-> FALSE],
         last_hop_node_id |-> routes[k].last_hop]]

Finalize ==
    /\ Calls("finalize") /\ Done
    /\ IF CliSink /\ routes # <<>>
       THEN table' = Ingested(table, Records) /\ events' = table'
       ELSE UNCHANGED <<table, events>>
    /\ UNCHANGED <<nodeVars, channelVars, b_seen_lora, inbox, handed, routes, historyVars,
                   reasons>>

\* A new sink on the same files, which is given the event by another last hop.
SinkRestarts ==
    /\ Calls("restart") /\ Done /\ routes # <<>>
    /\ events' = <<>>
    /\ routes' = <<[routes[1] EXCEPT !.last_hop = "NodeC", !.packet_seq = @ + 1]>>
    /\ UNCHANGED <<nodeVars, channelVars, b_seen_lora, inbox, handed, historyVars, table,
                   reasons>>

-----------------------------------------------------------------------------
(* The calls *)

Refusal(reason, holds) == reasons' = reasons \cup (IF holds THEN {reason} ELSE {})

Ingest ==
    /\ Calls("send") /\ Done
    /\ LET env == Head(plan).env
       IN /\ PhoneSends(at, env)
          /\ Refusal("envelope-expired", env.expires_ms < at)
    /\ UNCHANGED table

\* A frame made without the channel, twice for the plans that replay it.
Build ==
    /\ Calls("build") /\ Done
    /\ \E event \in queue :
          /\ IsFront(event)
          /\ packet_seq' = packet_seq + 1
          /\ inbox' = <<Frame(event), Frame(event)>>
    /\ UNCHANGED <<queue, seen_ble, seen_lora, retry, dropped_events, anon_by_author,
                   channelVars, b_seen_lora, handed, events, routes, historyVars, table,
                   reasons>>

\* The same event from each of ten relays.
BuildStorm ==
    /\ Calls("build storm") /\ Done
    /\ \E event \in queue :
          /\ IsFront(event)
          /\ inbox' = [k \in 1..10 |->
                [Frame(event) EXCEPT !.src = 9 + k, !.ttl = 5, !.raw.ttl = 5,
                                     !.packet_seq = k, !.raw.packet_seq = k]]
    /\ UNCHANGED <<nodeVars, channelVars, b_seen_lora, handed, events, routes,
                   historyVars, table, reasons>>

\* The frame fails no check but the last.
Replayed(frame, t) ==
    /\ ~frame.corrupted /\ frame.raw.ttl # 0
    /\ Distance(frame.raw.hlc_ms, t) <= HLC_REPLAY_WINDOW_MS

\* receive_lora at t, and the call that hands on what it returned: nothing else
\* runs between the two.  What is overheard goes to no sink.
NodeBHears(t, heard) ==
    /\ \/ /\ NodeBAccepts(t) /\ UNCHANGED reasons
          /\ IF heard THEN SinkReceives(Handed) ELSE UNCHANGED <<events, routes>>
       \/ /\ NodeBIgnores(t) /\ UNCHANGED <<events, routes>>
          /\ Refusal("replay-duplicate", Replayed(Head(inbox), t))
    /\ UNCHANGED <<handed, table>>

Hear == Calls("hear") /\ Done /\ NodeBHears(at, TRUE)
Overhear == Calls("overhear") /\ Done /\ NodeBHears(at, FALSE)

RebootB ==
    /\ Calls("reboot") /\ Done
    /\ NodeBReboots(TRUE)
    /\ UNCHANGED <<table, reasons>>

-----------------------------------------------------------------------------
(* The loop *)

now_ms == step * STEP_MS
InLoop(there) == Calls("loop") /\ phase = there
ToPhase(next) == phase' = next /\ UNCHANGED <<run, plan, step>>

Transmit ==
    /\ InLoop("transmit") /\ ToPhase("drain")
    /\ NodeATransmits(now_ms)
    /\ UNCHANGED <<table, reasons>>

DrainAir ==
    /\ InLoop("drain") /\ ToPhase("receive")
    /\ ChannelDrains(now_ms)
    /\ UNCHANGED <<table, reasons>>

Receive == InLoop("receive") /\ ToPhase("receive") /\ NodeBHears(now_ms, TRUE)

Bug_StopsWhenQueueEmpties == queue = {}

\* len(gateway.events) >= len(accepted): a GatewayCliSink has none until it is
\* finalized.
Complete == Cardinality(DOMAIN events) >= Cardinality(accepted)

EndStep ==
    /\ InLoop("receive") /\ inbox = <<>>
    /\ IF Complete \/ step + 1 = run.steps
       THEN plan' = Tail(plan) /\ UNCHANGED <<run, phase, step>>
       ELSE phase' = "transmit" /\ step' = step + 1 /\ UNCHANGED <<run, plan>>
    /\ UNCHANGED <<vars, table, reasons>>

RunNext ==
    \/ Ingest \/ Build \/ BuildStorm \/ Hear \/ Overhear \/ RebootB
    \/ Transmit \/ DrainAir \/ Receive \/ EndStep
    \/ Finalize \/ SinkRestarts

\* A scenario is sequential code: it goes on for as long as it can.
RunSpec == RunInit /\ [][RunNext]_runVars /\ WF_runVars(RunNext)

-----------------------------------------------------------------------------
(* GATE-SCEN *)

Over == plan = <<>>

\* The result: what the sink delivered, the SOS and what the driver thinks was
\* accepted, which the special scenarios say outright.
Delivered == DOMAIN events
SosId == IF run.name \in MAIN_SOS_SCENARIOS THEN SecondSos.id ELSE OnlySos.id
AcceptedIds ==
    CASE run.name = "expired_event" -> {}
      [] run.name \in DOMAIN SpecialPlans \ {"expired_event"} -> {OnlySos.id}
      [] OTHER -> {row.event_id : row \in accepted}

\* evaluate
Passes ==
    LET n == Cardinality(Delivered)
        sos_ok == SosId \in Delivered
        no_dup == n <= Cardinality(IF AcceptedIds = {} THEN Delivered ELSE AcceptedIds)
    IN CASE run.name \in {"normal", "gateway_cli"} -> n = 2 /\ sos_ok /\ no_dup
         [] run.name = "loss_20" -> sos_ok /\ no_dup
         [] run.name = "busy_sos" -> sos_ok
         [] run.name \in {"node_reboot", "replayed_valid_packet", "duplicate_storm_10_nodes"} ->
              n = 1 /\ "replay-duplicate" \in reasons
         [] run.name = "gateway_reboot" -> n = 1
         [] run.name = "expired_event" -> n = 0 /\ "envelope-expired" \in reasons

-----------------------------------------------------------------------------
NeverBusy == profile.channel_busy_percent = 0
Lossless == profile.packet_loss_percent = 0 /\ profile.corrupt_percent = 0
Settled == DOMAIN events \cup IdsOf(dropped_events)

\* The events whose loss alone makes GATE-SCEN fail.
Needed ==
    {SosId} \cup IF run.name \in {"normal", "gateway_cli"} THEN AcceptedIds ELSE {}

(* Whatever the channel's draws and delays are, a run fails GATE-SCEN only  *)
(* where an event it needs used up its attempts on a lossy channel, or the  *)
(* steps ran out on a busy one: the runs without loss and without busy      *)
(* channel always pass, in both gateway modes.                              *)
GateScenPasses ==
    Over /\ ~Passes =>
        \/ ~Lossless /\ Needed \cap IdsOf(dropped_events) # {}
        \/ ~NeverBusy /\ step + 1 = run.steps

(* When a run is over, each event NodeA accepted is in the gateway or       *)
(* dropped; a busy channel may leave the steps too few, and then the event  *)
(* is still queued or on air: the stop loses nothing.                       *)
NothingVanishes ==
    Over =>
        LET ids == {row.event_id : row \in accepted} IN
        \/ ids \subseteq Settled
        \/ /\ ~NeverBusy /\ step + 1 = run.steps
           /\ ids \subseteq Settled \cup OnAir \cup IdsOf(queue)

(* On a channel that is never busy every accepted event reaches the gateway *)
(* or is dropped in the end, whatever is lost, doubled or reordered.        *)
EventuallySettled ==
    \A i \in Ids :
        (NeverBusy /\ i \in {row.event_id : row \in accepted}) ~> i \in Settled

(* Where every frame takes some time and less than a step, no event reaches *)
(* the gateway while a more severe one still waits or is on its way.        *)
SevereArriveFirst ==
    (\A delay \in profile.delays : 0 < delay /\ delay < STEP_MS) =>
        \A k \in DOMAIN routes : \A row \in accepted :
            row.priority < routes[k].priority =>
                \/ row.event_id \in IdsOf(dropped_events)
                \/ \E j \in 1..k : routes[j].event_id = row.event_id
=============================================================================
