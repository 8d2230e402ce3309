--------------------------- MODULE RunScenarioProofs --------------------------
(***************************************************************************)
(* What holds of the lab's own driver: where delays are above 0 and below  *)
(* a step no severe event is overtaken, a run that ends loses nothing, and *)
(* GATE-SCEN fails only where the channel did it, for every profile, every *)
(* number of steps that is enough, and all delays, backoffs and budgets.   *)
(* The scenarios with a script of their own have an invariant that follows *)
(* the script; the main loop has one that says where each of its two       *)
(* events is, and how far the clock may be.                                *)
(***************************************************************************)
EXTENDS RunScenario, RelayLabProofs

-----------------------------------------------------------------------------
(* Where the script is. *)
Script == Plan(run.name)
Stage == Len(Script) - Len(plan)

(* The calls left are the last ones of the script. *)
PlanInv ==
  /\ run \in Runs /\ run.profile = profile /\ step \in 0..run.steps - 1
  /\ phase \in {"transmit", "drain", "receive"}
  /\ plan \in Seq(Range(Script)) /\ Len(plan) <= Len(Script)
  /\ \A k \in DOMAIN plan : plan[k] = Script[Stage + k]

Main == run.name \in MAIN_SOS_SCENARIOS

(* The presence has the id 1, the SOS of the main loop the id 2. *)
IsOf(i, priority) == (i = 1 /\ priority = ALERT) \/ (i = 2 /\ priority = SOS_RED)

AllAccepted == {row.event_id : row \in accepted}
Lost == IdsOf(dropped_events)
Heard == {routes[k].event_id : k \in DOMAIN routes}
IntactIds(frames) == {f.raw.event_id : f \in {g \in frames : ~g.corrupted}}

(* Before the loop: what was sent is queued, and nothing else has happened. *)
Fresh ==
  /\ step = 0 /\ phase = "transmit" /\ pending = << >> /\ inbox = << >>
  /\ dropped_events = {} /\ retry = [i \in Ids |-> NoRetry] /\ sent = {}
  /\ b_seen_lora = {} /\ events = << >> /\ routes = << >>

FreshInv ==
  /\ Stage = 0 => Fresh /\ queue = {} /\ seen_ble = {} /\ accepted = {}
  /\ Stage = 1 => /\ Fresh /\ seen_ble = {1} /\ \E e \in queue : queue = {e}
                  /\ \E one : accepted = {one} /\ one.event_id = 1
  /\ Stage >= 2 =>
        \E one, two : accepted = {one, two} /\ one.event_id = 1 /\ two.event_id = 2

(* An event is in one place: it waits, or was dropped, or was sent, and     *)
(* then it is on air or NodeB has it and handed it on.                      *)
PlaceInv ==
  /\ \A e \in queue : IsOf(e.id, e.priority) /\ e.created_ms \in 0..1 /\ e.ttl = DEFAULT_TTL
  /\ \A e, f \in queue : e.id = f.id => e = f
  /\ IdsOf(queue) \cap (sent \cup Lost) = {}
  /\ AllAccepted \subseteq IdsOf(queue) \cup sent \cup Lost
  /\ \A row \in accepted : IsOf(row.event_id, row.priority)
  /\ sent = IntactIds(Flying) \cup b_seen_lora
  /\ sent \subseteq {1, 2}
  /\ \A f \in Flying : ~f.corrupted =>
        /\ IsOf(f.raw.event_id, f.raw.priority)
        /\ f.raw.ttl = DEFAULT_TTL % BYTE /\ f.raw.hlc_ms <= 1
  /\ \A k \in DOMAIN routes : IsOf(routes[k].event_id, routes[k].priority)
  /\ Heard = b_seen_lora
  /\ phase # "receive" => inbox = << >>

(* The sink has what NodeB handed on; a GatewayCliSink shows it at the end. *)
SinkInv ==
  /\ table # << >> => Stage = 4
  /\ DOMAIN events = IF CliSink /\ Stage < 4 THEN {} ELSE b_seen_lora

(* A channel without loss costs no attempt, and the attempts have a bound.  *)
AttemptsInv ==
  /\ retry[1].loss_attempts <= LOSS_BUDGET_DEFAULT
  /\ retry[2].loss_attempts <= LOSS_BUDGET_CRITICAL
  /\ Lossless => /\ dropped_events = {}
                 /\ retry[1].loss_attempts = 0 /\ retry[2].loss_attempts = 0

-----------------------------------------------------------------------------
(* An intact frame of the SOS is due by t; the presence is not due by t.    *)
SosDueBy(t) ==
  \E d \in Range(pending) :
     ~d.frame.corrupted /\ d.frame.raw.event_id = 2 /\ d.due_ms <= t
PresenceDueAfter(t) ==
  \A d \in Range(pending) :
     ~d.frame.corrupted /\ d.frame.raw.event_id = 1 => d.due_ms > t

(* The SOS is ahead of the presence on its way to NodeB: the presence is    *)
(* not sent before the step in which the SOS is drained.                    *)
Ahead ==
  CASE phase = "transmit" -> 1 \notin sent /\ SosDueBy(now_ms)
    [] phase = "drain" -> \/ 1 \notin sent /\ SosDueBy(now_ms + STEP_MS)
                          \/ SosDueBy(now_ms) /\ PresenceDueAfter(now_ms)
    [] phase = "receive" -> \/ 1 \notin sent /\ SosDueBy(now_ms + STEP_MS)
                            \/ 2 \in IntactIds(Range(inbox)) /\ 1 \notin IntactIds(Range(inbox))

InOrder ==
  \A k \in DOMAIN routes : routes[k].event_id = 1 =>
     \E j \in 1..k : routes[j].event_id = 2

Swift == \A delay \in profile.delays : 0 < delay /\ delay < STEP_MS

SevereInv ==
  Swift /\ Stage >= 2 /\ 2 \notin Lost =>
     \/ 2 \in IdsOf(queue) /\ 1 \notin sent
     \/ 2 \in sent /\ 2 \notin b_seen_lora /\ 1 \notin b_seen_lora /\ Ahead
     \/ 2 \in b_seen_lora /\ InOrder

-----------------------------------------------------------------------------
(* The longest an attempt can put off the next step that does something.    *)
Wait == RETRY_BACKOFF_MS + RETRY_JITTER_MS + STEP_MS

(* The turns NodeA has had: attempts that failed and events it is done with.*)
Gone(i) == IF i \in IdsOf(queue) THEN 0 ELSE 1
Turns == retry[1].loss_attempts + retry[2].loss_attempts + Gone(1) + Gone(2)

(* The loop is never further than its turns account for.                    *)
TimeInv ==
  NeverBusy /\ Stage = 2 =>
     /\ \A i \in {1, 2} : \/ retry[i].next_attempt_ms = 0
                          \/ retry[i].next_attempt_ms + STEP_MS <= Turns * Wait
     /\ queue # {} =>
           IF phase = "transmit" THEN now_ms <= Turns * Wait
                                 ELSE now_ms + STEP_MS <= Turns * Wait
     /\ \A d \in Range(pending) :
           \E delay \in profile.delays : d.due_ms <= Turns * Wait + delay + 1
     /\ phase = "receive" => \A d \in Range(pending) : d.due_ms > now_ms

(* How the loop ends.                                                       *)
EndInv ==
  Stage >= 3 =>
     \/ AllAccepted \subseteq b_seen_lora \cup Lost
     \/ ~NeverBusy /\ step + 1 = run.steps

MainInv ==
  /\ TypeOK /\ FreshInv /\ PlaceInv /\ SinkInv /\ AttemptsInv
  /\ SevereInv /\ TimeInv /\ EndInv

-----------------------------------------------------------------------------
(* The scripts of their own: one SOS, whose frames NodeB hears once and     *)
(* then refuses.                                                            *)
TheSos == QueuedAs(OnlySos, ZeroAnon)

IsSosFrame(f) ==
  /\ ~f.corrupted /\ f.dst = "NodeB"
  /\ f.raw.event_id = 1 /\ f.raw.priority = SOS_RED /\ f.raw.hlc_ms = 0 /\ f.raw.ttl # 0

Expires == run.name = "expired_event"

(* The SOS is queued once it is sent, unless it has expired.                *)
SosQueued ==
  /\ Stage = 0 => /\ queue = {} /\ seen_ble = {} /\ accepted = {}
                  /\ anon_by_author = [a \in Authors |-> ZeroAnon]
  /\ Stage > 0 /\ ~Expires => queue = {TheSos} /\ accepted = {RowOf(TheSos)}
  /\ Expires => queue = {} /\ accepted = {}
  /\ Expires /\ Stage > 0 => "envelope-expired" \in reasons

(* NodeB hears it at the third call.                                        *)
SosHeard ==
  /\ \E frames : inbox \in Seq(frames) /\ \A f \in frames : IsSosFrame(f)
  /\ b_seen_lora = IF Stage >= 3 /\ ~Expires THEN {1} ELSE {}
  /\ DOMAIN routes = 1..Len(routes) /\ Len(routes) \in Nat
  /\ routes = << >> <=> b_seen_lora = {}
  /\ \A k \in DOMAIN routes :
        /\ routes[k].event_id = 1 /\ routes[k].priority = SOS_RED
        /\ {"event_id", "priority"} \subseteq DOMAIN routes[k]

(* The sink shows what NodeB handed on, a GatewayCliSink in the end.        *)
SosShown ==
  /\ DOMAIN events \subseteq b_seen_lora /\ DOMAIN table \subseteq b_seen_lora
  /\ ~CliSink \/ (Over /\ ~Expires) => DOMAIN events = b_seen_lora

\* The stage at which a frame has been refused as a replay.
RefusedAt == IF run.name = "node_reboot" THEN 5 ELSE 4
RefusesReplay ==
  run.name \in {"node_reboot", "replayed_valid_packet", "duplicate_storm_10_nodes"}

ReplayRefused ==
  RefusesReplay /\ Stage >= RefusedAt => "replay-duplicate" \in reasons

SpecialInv == SosQueued /\ SosHeard /\ SosShown /\ ReplayRefused

(* The inductive invariant of a run. *)
RunInv == PlanInv /\ IF Main THEN MainInv ELSE SpecialInv

-----------------------------------------------------------------------------
(* The scripts *)

(* A list is the function of its places. *)
Listed(s) == s = [k \in DOMAIN s |-> s[k]]

LEMMA SpecialNames ==
  /\ DOMAIN SpecialPlans = {"node_reboot", "replayed_valid_packet", "gateway_reboot",
                            "duplicate_storm_10_nodes", "expired_event"}
  /\ MAIN_SOS_SCENARIOS \cap DOMAIN SpecialPlans = {}
BY DEF SpecialPlans, MAIN_SOS_SCENARIOS

(* The calls of some names, at an instant of the scripts. *)
AnyCall(whats) == {Call(what, t) : what \in whats, t \in 0..300}

LEMMA CallFields ==
  ASSUME NEW whats, NEW c \in AnyCall(whats)
  PROVE  c.call \in whats /\ c.at \in 0..300
BY DEF AnyCall, Call

LEMMA MainScript ==
  ASSUME Main
  PROVE  /\ Len(Script) = 4 /\ DOMAIN Script = 1..4
         /\ Listed(Script)
         /\ Script[1] = Send(1, PhonePresence) /\ Script[2] = Send(1, SecondSos)
         /\ Script[3] = Call("loop", 0) /\ Script[4] = Call("finalize", 0)
<1>1. run.name \notin DOMAIN SpecialPlans
  BY SpecialNames DEF Main
<1>2. Script = <<Send(1, PhonePresence), Send(1, SecondSos), Call("loop", 0),
                 Call("finalize", 0)>>
  BY <1>1 DEF Script, Plan, Main
<1> QED
  BY <1>2 DEF Listed

LEMMA StormCalls ==
  /\ Len(StormPlan) = 13 /\ DOMAIN StormPlan = 1..13 /\ Listed(StormPlan)
  /\ StormPlan[1] = Send(0, OnlySos) /\ StormPlan[2] = Call("build storm", 0)
  /\ StormPlan[3] = Call("hear", 100) /\ StormPlan[13] = Call("finalize", 0)
  /\ \A k \in 3..12 : StormPlan[k] \in AnyCall({"hear"})
<1>1. Len(StormPlan) = 13 /\ DOMAIN StormPlan = 1..13 /\ Listed(StormPlan)
  BY DEF StormPlan, Listed
<1>2. /\ StormPlan[1] = Send(0, OnlySos) /\ StormPlan[2] = Call("build storm", 0)
      /\ StormPlan[13] = Call("finalize", 0)
  BY DEF StormPlan
<1>3. /\ StormPlan[3] = Call("hear", 100) /\ StormPlan[4] = Call("hear", 101)
      /\ StormPlan[5] = Call("hear", 102) /\ StormPlan[6] = Call("hear", 103)
      /\ StormPlan[7] = Call("hear", 104) /\ StormPlan[8] = Call("hear", 105)
      /\ StormPlan[9] = Call("hear", 106) /\ StormPlan[10] = Call("hear", 107)
      /\ StormPlan[11] = Call("hear", 108) /\ StormPlan[12] = Call("hear", 109)
  BY DEF StormPlan
<1>4. \A k \in 3..12 : \/ k = 3 \/ k = 4 \/ k = 5 \/ k = 6 \/ k = 7 \/ k = 8
                       \/ k = 9 \/ k = 10 \/ k = 11 \/ k = 12
  OBVIOUS
<1>5. \A k \in 3..12 : StormPlan[k] \in AnyCall({"hear"})
  <2>1. StormPlan[3] \in AnyCall({"hear"})
    BY <1>3 DEF AnyCall
  <2>2. StormPlan[4] \in AnyCall({"hear"})
    BY <1>3 DEF AnyCall
  <2>3. StormPlan[5] \in AnyCall({"hear"})
    BY <1>3 DEF AnyCall
  <2>4. StormPlan[6] \in AnyCall({"hear"})
    BY <1>3 DEF AnyCall
  <2>5. StormPlan[7] \in AnyCall({"hear"})
    BY <1>3 DEF AnyCall
  <2>6. StormPlan[8] \in AnyCall({"hear"})
    BY <1>3 DEF AnyCall
  <2>7. StormPlan[9] \in AnyCall({"hear"})
    BY <1>3 DEF AnyCall
  <2>8. StormPlan[10] \in AnyCall({"hear"})
    BY <1>3 DEF AnyCall
  <2>9. StormPlan[11] \in AnyCall({"hear"})
    BY <1>3 DEF AnyCall
  <2>10. StormPlan[12] \in AnyCall({"hear"})
    BY <1>3 DEF AnyCall
  <2> QED
    BY <1>4, <2>1, <2>2, <2>3, <2>4, <2>5, <2>6, <2>7, <2>8, <2>9, <2>10, Zenon
<1> QED
  BY <1>1, <1>2, <1>3, <1>5, Zenon

\* The calls that come after the frames are made: one script restarts the sink.
AfterBuild == {"hear", "overhear", "reboot", "finalize"}
                \cup IF run.name = "gateway_reboot" THEN {"restart"} ELSE {}

(* The calls of a script of its own: the event is sent, its frames are      *)
(* made, NodeB hears the first, and the last call is finalize.              *)
LEMMA SpecialScript ==
  ASSUME run \in Runs, ~Main
  PROVE  /\ DOMAIN Script = 1..Len(Script) /\ Listed(Script)
         /\ Expires => /\ Len(Script) = 2 /\ Script[1] = Send(100, ExpiredSos)
                       /\ Script[2] \in AnyCall({"finalize"})
         /\ ~Expires =>
               /\ Len(Script) \in 5..13 /\ Script[1] = Send(0, OnlySos)
               /\ Script[2] \in AnyCall({"build", "build storm"})
               /\ Script[3] = Call("hear", 100)
               /\ \A k \in 3..Len(Script) : Script[k] \in AnyCall(AfterBuild)
               /\ Script[Len(Script)] \in AnyCall({"finalize"})
               /\ RefusesReplay => Script[RefusedAt] \in AnyCall({"hear", "overhear"})
<1>1. run.name \in DOMAIN SpecialPlans
  BY ScenarioAssumption DEF Main
<1>2. Script = SpecialPlans[run.name]
  BY <1>1 DEF Script, Plan
<1>3. CASE run.name = "node_reboot"
  <2>1. Script = <<Send(0, OnlySos), Call("build", 0), Call("hear", 100), Call("reboot", 150), Call("overhear", 200),
               Call("finalize", 0)>>
    BY <1>2, <1>3 DEF SpecialPlans
  <2>2. /\ Len(Script) = 6 /\ DOMAIN Script = 1..6 /\ Listed(Script)
        /\ Script[1] = Send(0, OnlySos) /\ Script[2] = Call("build", 0)
        /\ Script[3] = Call("hear", 100)
        /\ Script[4] = Call("reboot", 150)
        /\ Script[5] = Call("overhear", 200)
        /\ Script[6] = Call("finalize", 0)
    BY <2>1 DEF Listed
  <2>3. \A k \in 3..6 : k = 3 \/ k = 4 \/ k = 5 \/ k = 6
    OBVIOUS
  <2>4. \A k \in 3..6 : Script[k] \in AnyCall(AfterBuild)
    BY <2>2, <2>3 DEF AnyCall, AfterBuild
  <2>5. Script[2] \in AnyCall({"build", "build storm"}) /\ Script[6] \in AnyCall({"finalize"})
    BY <2>2 DEF AnyCall
  <2>6. Script[5] \in AnyCall({"hear", "overhear"}) /\ RefusedAt = 5
    BY <1>3, <2>2 DEF AnyCall, RefusedAt
  <2> QED
    <3>1. ~Expires /\ Len(Script) \in 5..13
      BY <1>3, <2>2 DEF Expires
    <3> QED
      BY <2>2, <2>4, <2>5, <2>6, <3>1, Zenon
<1>4. CASE run.name = "replayed_valid_packet"
  <2>1. Script = <<Send(0, OnlySos), Call("build", 0), Call("hear", 100), Call("overhear", 300), Call("finalize", 0)>>
    BY <1>2, <1>4 DEF SpecialPlans
  <2>2. /\ Len(Script) = 5 /\ DOMAIN Script = 1..5 /\ Listed(Script)
        /\ Script[1] = Send(0, OnlySos) /\ Script[2] = Call("build", 0)
        /\ Script[3] = Call("hear", 100)
        /\ Script[4] = Call("overhear", 300)
        /\ Script[5] = Call("finalize", 0)
    BY <2>1 DEF Listed
  <2>3. \A k \in 3..5 : k = 3 \/ k = 4 \/ k = 5
    OBVIOUS
  <2>4. \A k \in 3..5 : Script[k] \in AnyCall(AfterBuild)
    BY <2>2, <2>3 DEF AnyCall, AfterBuild
  <2>5. Script[2] \in AnyCall({"build", "build storm"}) /\ Script[5] \in AnyCall({"finalize"})
    BY <2>2 DEF AnyCall
  <2>6. Script[4] \in AnyCall({"hear", "overhear"}) /\ RefusedAt = 4
    BY <1>4, <2>2 DEF AnyCall, RefusedAt
  <2> QED
    <3>1. ~Expires /\ Len(Script) \in 5..13
      BY <1>4, <2>2 DEF Expires
    <3> QED
      BY <2>2, <2>4, <2>5, <2>6, <3>1, Zenon
<1>5. CASE run.name = "gateway_reboot"
  <2>1. Script = <<Send(0, OnlySos), Call("build", 0), Call("hear", 100), Call("finalize", 100), Call("restart", 200),
               Call("finalize", 0)>>
    BY <1>2, <1>5 DEF SpecialPlans
  <2>2. /\ Len(Script) = 6 /\ DOMAIN Script = 1..6 /\ Listed(Script)
        /\ Script[1] = Send(0, OnlySos) /\ Script[2] = Call("build", 0)
        /\ Script[3] = Call("hear", 100)
        /\ Script[4] = Call("finalize", 100)
        /\ Script[5] = Call("restart", 200)
        /\ Script[6] = Call("finalize", 0)
    BY <2>1 DEF Listed
  <2>3. \A k \in 3..6 : k = 3 \/ k = 4 \/ k = 5 \/ k = 6
    OBVIOUS
  <2>4. \A k \in 3..6 : Script[k] \in AnyCall(AfterBuild)
    <3>1. AfterBuild = {"hear", "overhear", "reboot", "finalize", "restart"}
      BY <1>5 DEF AfterBuild
    <3> QED
      BY <2>2, <2>3, <3>1 DEF AnyCall
  <2>5. Script[2] \in AnyCall({"build", "build storm"}) /\ Script[6] \in AnyCall({"finalize"})
    BY <2>2 DEF AnyCall
  <2>6. ~RefusesReplay
    BY <1>5 DEF RefusesReplay
  <2> QED
    <3>1. ~Expires /\ Len(Script) \in 5..13
      BY <1>5, <2>2 DEF Expires
    <3> QED
      BY <2>2, <2>4, <2>5, <2>6, <3>1, Zenon
<1>6. CASE run.name = "duplicate_storm_10_nodes"
  <2>1. Script = StormPlan
    BY <1>2, <1>6 DEF SpecialPlans
  <2>2. \A k \in 3..13 : k \in 3..12 \/ k = 13
    OBVIOUS
  <2>3. \A k \in 3..12 : StormPlan[k] \in AnyCall(AfterBuild)
    <3>1. AnyCall({"hear"}) \subseteq AnyCall(AfterBuild)
      BY DEF AnyCall, AfterBuild
    <3> QED
      BY <3>1, StormCalls, Zenon
  <2>4. /\ StormPlan[13] \in AnyCall({"finalize"}) /\ StormPlan[13] \in AnyCall(AfterBuild)
        /\ StormPlan[2] \in AnyCall({"build", "build storm"})
    <3>1. /\ Call("finalize", 0) \in AnyCall({"finalize"})
          /\ Call("finalize", 0) \in AnyCall(AfterBuild)
          /\ Call("build storm", 0) \in AnyCall({"build", "build storm"})
      BY DEF AnyCall, AfterBuild
    <3> QED
      BY <3>1, StormCalls, Zenon
  <2>5. StormPlan[4] \in AnyCall({"hear", "overhear"}) /\ ~Expires /\ RefusedAt = 4
    <3>1. 4 \in 3..12 /\ AnyCall({"hear"}) \subseteq AnyCall({"hear", "overhear"})
      BY DEF AnyCall
    <3>2. StormPlan[4] \in AnyCall({"hear", "overhear"})
      BY <3>1, StormCalls, Zenon
    <3> QED
      BY <1>6, <3>2 DEF Expires, RefusedAt
  <2>6. \A k \in 3..13 : StormPlan[k] \in AnyCall(AfterBuild)
    BY <2>2, <2>3, <2>4
  <2>7. /\ Len(StormPlan) = 13 /\ DOMAIN StormPlan = 1..13 /\ Listed(StormPlan)
        /\ StormPlan[1] = Send(0, OnlySos) /\ StormPlan[3] = Call("hear", 100)
    BY StormCalls
  <2> QED
    <3>1. 13 \in 5..13
      OBVIOUS
    <3> QED
      BY <2>1, <2>4, <2>5, <2>6, <2>7, <3>1, Zenon
<1>7. CASE run.name = "expired_event"
  <2>1. Script = <<Send(100, ExpiredSos), Call("finalize", 0)>>
    BY <1>2, <1>7 DEF SpecialPlans
  <2>2. /\ Len(Script) = 2 /\ DOMAIN Script = 1..2 /\ Listed(Script)
        /\ Script[1] = Send(100, ExpiredSos) /\ Script[2] = Call("finalize", 0)
    BY <2>1 DEF Listed
  <2>3. Script[2] \in AnyCall({"finalize"})
    BY <2>2 DEF AnyCall
  <2> QED
    BY <1>7, <2>2, <2>3 DEF Expires
<1> QED
  BY <1>1, <1>3, <1>4, <1>5, <1>6, <1>7, SpecialNames

LEMMA ScriptIsASequence ==
  ASSUME run \in Runs
  PROVE  /\ Len(Script) \in Nat \ {0} /\ DOMAIN Script = 1..Len(Script)
         /\ Script \in Seq(Range(Script)) /\ Script[Len(Script)] \in AnyCall({"finalize"})
<1>1. Len(Script) \in Nat \ {0} /\ DOMAIN Script = 1..Len(Script) /\ Listed(Script)
  <2>1. CASE Main
    <3>1. Len(Script) = 4 /\ DOMAIN Script = 1..4 /\ Listed(Script)
      BY <2>1, MainScript
    <3> QED
      BY <3>1
  <2>2. CASE ~Main
    <3>1. /\ DOMAIN Script = 1..Len(Script) /\ Listed(Script)
          /\ Len(Script) = 2 \/ Len(Script) \in 5..13
      BY <2>2, SpecialScript
    <3> QED
      BY <3>1
  <2> QED
    BY <2>1, <2>2
<1>2. Script[Len(Script)] \in AnyCall({"finalize"})
  <2>1. CASE Main
    <3>1. Len(Script) = 4 /\ Script[4] = Call("finalize", 0)
      BY <2>1, MainScript
    <3>2. 0 \in 0..300
      OBVIOUS
    <3> QED
      BY <3>1, <3>2 DEF AnyCall
  <2>2. CASE ~Main /\ Expires
    <3>1. Len(Script) = 2 /\ Script[2] \in AnyCall({"finalize"})
      BY <2>2, SpecialScript
    <3> QED
      BY <3>1
  <2>3. CASE ~Main /\ ~Expires
    BY <2>3, SpecialScript
  <2> QED
    BY <2>1, <2>2, <2>3
<1>3. Script \in [1..Len(Script) -> Range(Script)]
  BY <1>1 DEF Range, Listed
<1> QED
  BY <1>1, <1>2, <1>3

-----------------------------------------------------------------------------
(* Where the script is *)

LEMMA PlanHead ==
  ASSUME PlanInv
  PROVE  /\ Stage \in 0..Len(Script) /\ Len(Script) \in Nat
         /\ plan = << >> <=> Stage = Len(Script)
         /\ plan # << >> => Stage + 1 \in DOMAIN Script /\ Head(plan) = Script[Stage + 1]
<1>1. Len(Script) \in Nat /\ DOMAIN Script = 1..Len(Script)
  BY ScriptIsASequence DEF PlanInv
<1>2. /\ plan \in Seq(Range(Script)) /\ Len(plan) <= Len(Script)
      /\ \A k \in DOMAIN plan : plan[k] = Script[Stage + k]
  BY DEF PlanInv
<1>3. Len(plan) \in Nat /\ DOMAIN plan = 1..Len(plan) /\ (plan = << >> <=> Len(plan) = 0)
  BY <1>2
<1>4. /\ Stage \in 0..Len(Script) /\ (plan = << >> <=> Stage = Len(Script))
      /\ plan # << >> => Stage + 1 \in 1..Len(Script)
  <2>1. Stage = Len(Script) - Len(plan) /\ Len(plan) <= Len(Script)
    BY <1>2 DEF Stage
  <2>2. PICK n \in Nat : n = Len(Script)
    BY <1>1
  <2>3. PICK m \in Nat : m = Len(plan)
    BY <1>3
  <2>4. Stage = n - m /\ m <= n
    BY <2>1, <2>2, <2>3, Zenon
  <2>5. /\ Stage \in 0..n /\ (m = 0 <=> Stage = n)
        /\ m # 0 => Stage + 1 \in 1..n
    BY <2>4
  <2> QED
    BY <1>3, <2>2, <2>3, <2>5, Zenon
<1>5. plan # << >> => Head(plan) = plan[1] /\ 1 \in DOMAIN plan
  BY <1>2, <1>3
<1> QED
  BY <1>1, <1>2, <1>4, <1>5

(* A call that is made is off the plan; during the loop the plan stays.     *)
LEMMA PlanMoves ==
  ASSUME PlanInv, plan # << >>, UNCHANGED <<run, profile>>, plan' = Tail(plan),
         UNCHANGED <<phase, step>>
  PROVE  PlanInv' /\ Stage' = Stage + 1 /\ Script' = Script /\ (Main' <=> Main)
<1>1. Script' = Script /\ (Main' <=> Main)
  BY DEF Script, Main
<1>2. /\ plan \in Seq(Range(Script)) /\ Len(plan) <= Len(Script)
      /\ \A k \in DOMAIN plan : plan[k] = Script[Stage + k]
  BY DEF PlanInv
<1>3. /\ Tail(plan) \in Seq(Range(Script)) /\ Len(Tail(plan)) = Len(plan) - 1
      /\ Len(plan) \in Nat \ {0} /\ DOMAIN plan = 1..Len(plan)
      /\ DOMAIN Tail(plan) = 1..Len(plan) - 1
      /\ \A k \in 1..Len(plan) - 1 : Tail(plan)[k] = plan[k + 1]
  BY <1>2
<1>4. Len(Script) \in Nat
  BY PlanHead
<1>5. Stage' = Stage + 1
  BY <1>1, <1>3, <1>4 DEF Stage
<1>6. \A k \in DOMAIN plan' : plan'[k] = Script[Stage' + k]
  <2>1. Stage = Len(Script) - Len(plan)
    BY DEF Stage
  <2>2. ASSUME NEW k \in 1..Len(plan) - 1
        PROVE  plan'[k] = Script[Stage' + k]
    <3>1. k + 1 \in DOMAIN plan /\ (Stage + 1) + k = Stage + (k + 1)
      BY <1>3, <1>4, <2>1
    <3> QED
      BY <1>2, <1>3, <1>5, <3>1
  <2> QED
    BY <1>3, <2>2
<1>7. Len(plan') <= Len(Script) /\ plan' \in Seq(Range(Script))
  BY <1>2, <1>3, <1>4
<1> QED
  BY <1>1, <1>5, <1>6, <1>7 DEF PlanInv

LEMMA PlanStays ==
  ASSUME PlanInv, UNCHANGED <<run, profile, plan>>
  PROVE  Stage' = Stage /\ Script' = Script /\ (Main' <=> Main)
BY DEF Script, Main, Stage

LEMMA PlanInit ==
  ASSUME RunInit
  PROVE  PlanInv /\ Stage = 0
<1>1. run \in Runs /\ run.profile = profile /\ plan = Script /\ phase = "transmit" /\ step = 0
  BY DEF RunInit, Script
<1>2. Len(Script) \in Nat \ {0} /\ Script \in Seq(Range(Script))
  BY <1>1, ScriptIsASequence
<1>3. run.steps \in Nat \ {0}
  BY <1>1, ScenarioAssumption
<1>4. Stage = 0
  BY <1>1, <1>2 DEF Stage
<1>5. \A k \in DOMAIN plan : plan[k] = Script[Stage + k]
  BY <1>1, <1>2, <1>4
<1>6. 0 \in 0..run.steps - 1
  BY <1>3
<1> QED
  BY <1>1, <1>2, <1>4, <1>5, <1>6 DEF PlanInv

(* Which call comes at which stage. *)
LEMMA MainCalls ==
  ASSUME PlanInv, Main, plan # << >>
  PROVE  \/ Stage = 0 /\ Head(plan) = Send(1, PhonePresence)
         \/ Stage = 1 /\ Head(plan) = Send(1, SecondSos)
         \/ Stage = 2 /\ Head(plan) = Call("loop", 0)
         \/ Stage = 3 /\ Head(plan) = Call("finalize", 0)
<1>1. /\ Len(Script) = 4 /\ DOMAIN Script = 1..4
      /\ Script[1] = Send(1, PhonePresence) /\ Script[2] = Send(1, SecondSos)
      /\ Script[3] = Call("loop", 0) /\ Script[4] = Call("finalize", 0)
  BY MainScript
<1>2. /\ Stage \in 0..4 /\ Stage # 4 /\ Head(plan) = Script[Stage + 1]
  BY <1>1, PlanHead
<1>3. Stage = 0 \/ Stage = 1 \/ Stage = 2 \/ Stage = 3
  BY <1>2
<1> QED
  BY <1>1, <1>2, <1>3

LEMMA MainCallIs ==
  ASSUME PlanInv, Main
  PROVE  /\ Calls("send") => \/ Stage = 0 /\ Head(plan) = Send(1, PhonePresence)
                             \/ Stage = 1 /\ Head(plan) = Send(1, SecondSos)
         /\ Calls("loop") => Stage = 2
         /\ Calls("finalize") => Stage = 3
         /\ \A what : Calls(what) => what \in {"send", "loop", "finalize"}
<1>1. \A t, env : Send(t, env).call = "send"
  BY DEF Send
<1>2. \A t, what : Call(what, t).call = what
  BY DEF Call
<1>3. plan # << >> =>
         \/ Stage = 0 /\ Head(plan) = Send(1, PhonePresence) /\ Head(plan).call = "send"
         \/ Stage = 1 /\ Head(plan) = Send(1, SecondSos) /\ Head(plan).call = "send"
         \/ Stage = 2 /\ Head(plan).call = "loop"
         \/ Stage = 3 /\ Head(plan).call = "finalize"
  <2>1. /\ Send(1, PhonePresence).call = "send" /\ Send(1, SecondSos).call = "send"
        /\ Call("loop", 0).call = "loop" /\ Call("finalize", 0).call = "finalize"
    BY <1>1, <1>2, Zenon
  <2> QED
    BY <2>1, MainCalls, Zenon
<1> QED
  BY <1>3 DEF Calls

LEMMA SpecialCallIs ==
  ASSUME PlanInv, ~Main, plan # << >>
  PROVE  /\ Stage = 0 => Head(plan) = IF Expires THEN Send(100, ExpiredSos) ELSE Send(0, OnlySos)
         /\ Stage = 1 /\ ~Expires => Head(plan) \in AnyCall({"build", "build storm"})
         /\ Stage = 2 => Head(plan) = Call("hear", 100) /\ ~Expires
         /\ Stage >= 2 => Head(plan) \in AnyCall(AfterBuild)
         /\ Expires /\ Stage > 0 => Head(plan) \in AnyCall({"finalize"})
         /\ RefusesReplay /\ Stage + 1 = RefusedAt => Head(plan) \in AnyCall({"hear", "overhear"})
<1>1. /\ Stage \in 0..Len(Script) - 1 /\ Head(plan) = Script[Stage + 1]
      /\ run \in Runs /\ Len(Script) \in Nat
  BY PlanHead DEF PlanInv
<1>2. CASE Expires
  <2>1. Len(Script) = 2 /\ Script[1] = Send(100, ExpiredSos) /\ Script[2] \in AnyCall({"finalize"})
    BY <1>1, <1>2, SpecialScript
  <2>2. Stage = 0 \/ Stage = 1
    BY <1>1, <2>1
  <2>3. ~RefusesReplay
    BY <1>2 DEF Expires, RefusesReplay
  <2> QED
    BY <1>1, <1>2, <2>1, <2>2, <2>3
<1>3. CASE ~Expires
  <2>1. /\ Len(Script) \in 5..13 /\ Script[1] = Send(0, OnlySos)
        /\ Script[2] \in AnyCall({"build", "build storm"})
        /\ Script[3] = Call("hear", 100)
        /\ \A k \in 3..Len(Script) : Script[k] \in AnyCall(AfterBuild)
        /\ RefusesReplay => Script[RefusedAt] \in AnyCall({"hear", "overhear"})
    BY <1>1, <1>3, SpecialScript
  <2>2. Stage >= 2 => Stage + 1 \in 3..Len(Script)
    BY <1>1
  <2>3. /\ Stage = 0 => Head(plan) = Send(0, OnlySos)
        /\ Stage = 1 => Head(plan) \in AnyCall({"build", "build storm"})
        /\ Stage = 2 => Head(plan) = Call("hear", 100)
        /\ Stage >= 2 => Head(plan) \in AnyCall(AfterBuild)
    <3>1. /\ Stage = 0 => Stage + 1 = 1
          /\ Stage = 1 => Stage + 1 = 2
          /\ Stage = 2 => Stage + 1 = 3
      OBVIOUS
    <3> QED
      BY <1>1, <2>1, <2>2, <3>1, Zenon
  <2>4. RefusesReplay /\ Stage + 1 = RefusedAt => Head(plan) \in AnyCall({"hear", "overhear"})
    BY <1>1, <2>1, Zenon
  <2> QED
    BY <1>3, <2>3, <2>4, Zenon
<1> QED
  BY <1>2, <1>3

-----------------------------------------------------------------------------
(* Where the events of the main loop are, whatever moves them *)

(* Nothing is sent or heard; what leaves the queue was dropped.             *)
Settles ==
  /\ queue' \subseteq queue /\ dropped_events' = dropped_events \cup (queue \ queue')
  /\ Flying \subseteq Flying' /\ \A f \in Flying' : f \in Flying \/ f.corrupted
  /\ UNCHANGED <<sent, accepted, b_seen_lora, routes>>

LEMMA PlaceSettles ==
  ASSUME PlaceInv, Settles, phase' # "receive" => inbox' = << >>
  PROVE  PlaceInv'
<1>1. IntactIds(Flying') = IntactIds(Flying)
  BY DEF Settles, IntactIds
<1>2. /\ IdsOf(queue') \subseteq IdsOf(queue)
      /\ IdsOf(queue) \subseteq IdsOf(queue') \cup Lost'
      /\ Lost \subseteq Lost' /\ Lost' \subseteq Lost \cup IdsOf(queue)
  BY DEF Settles, IdsOf, Lost
<1>3. IdsOf(queue') \cap Lost' = {}
  <2>1. ASSUME NEW e \in queue', NEW f \in dropped_events', e.id = f.id
        PROVE  FALSE
    <3>1. e \in queue /\ (f \in dropped_events \/ f \in queue \ queue')
      BY DEF Settles
    <3>2. f \notin dropped_events
      BY <2>1, <3>1 DEF PlaceInv, IdsOf, Lost
    <3>3. e = f
      BY <2>1, <3>1, <3>2 DEF PlaceInv
    <3> QED
      BY <3>1, <3>2, <3>3
  <2> QED
    BY <2>1 DEF IdsOf, Lost
<1>4. AllAccepted' = AllAccepted /\ Heard' = Heard
  BY DEF Settles, AllAccepted, Heard
<1>5. /\ \A e \in queue' : IsOf(e.id, e.priority) /\ e.created_ms \in 0..1 /\ e.ttl = DEFAULT_TTL
      /\ \A e, f \in queue' : e.id = f.id => e = f
  BY DEF Settles, PlaceInv
<1>6. \A f \in Flying' : ~f.corrupted =>
        /\ IsOf(f.raw.event_id, f.raw.priority)
        /\ f.raw.ttl = DEFAULT_TTL % BYTE /\ f.raw.hlc_ms <= 1
  BY DEF Settles, PlaceInv
<1>7. IdsOf(queue') \cap (sent' \cup Lost') = {}
  BY <1>2, <1>3 DEF Settles, PlaceInv
<1>8. AllAccepted' \subseteq IdsOf(queue') \cup sent' \cup Lost'
  BY <1>2, <1>4 DEF Settles, PlaceInv
<1>9. /\ sent' = IntactIds(Flying') \cup b_seen_lora' /\ sent' \subseteq {1, 2}
      /\ Heard' = b_seen_lora'
      /\ \A row \in accepted' : IsOf(row.event_id, row.priority)
      /\ \A k \in DOMAIN routes' : IsOf(routes'[k].event_id, routes'[k].priority)
  BY <1>1, <1>4 DEF Settles, PlaceInv
<1> QED
  BY <1>5, <1>6, <1>7, <1>8, <1>9 DEF PlaceInv

(* What the frame of a queued event says. *)
(* The clocks of the lab's events fit in the wire's. *)
LEMMA ClocksFit ==
  0 % U48 = 0 /\ 1 % U48 \in 0..1
BY NodeAssumption

LEMMA QueuedFrame ==
  ASSUME PlaceInv, NEW best \in queue
  PROVE  /\ IsOf(best.id, best.priority) /\ best.id \in {1, 2}
         /\ ~Frame(best).corrupted /\ Corrupt(Frame(best)).corrupted
         /\ Frame(best).raw.event_id = best.id
         /\ IsOf(Frame(best).raw.event_id, Frame(best).raw.priority)
         /\ Frame(best).raw.ttl = DEFAULT_TTL % BYTE /\ Frame(best).raw.hlc_ms <= 1
<1>1. IsOf(best.id, best.priority) /\ best.created_ms \in 0..1 /\ best.ttl = DEFAULT_TTL
  BY DEF PlaceInv
<1>2. best.id \in {1, 2}
  BY <1>1 DEF IsOf
<1>3. Frame(best).raw.priority = best.priority
  BY DEF Frame, BuildFrame
<1>4. best.created_ms % U48 <= 1
  BY <1>1, ClocksFit
<1> QED
  BY <1>1, <1>2, <1>3, <1>4, BuiltFrames

LEMMA PlaceSends ==
  ASSUME PlaceInv, NEW best \in queue, Sends(best), UNCHANGED dropped_events,
         inbox' = << >>
  PROVE  PlaceInv'
<1>1. /\ queue' = queue \ {best} /\ sent' = sent \cup {best.id}
      /\ Flying' = Flying \cup {Frame(best)}
      /\ UNCHANGED <<accepted, b_seen_lora, routes, dropped_events>>
  BY DEF Sends, gatewayVars
<1>2. best.id \in {1, 2} /\ ~Frame(best).corrupted /\ Frame(best).raw.event_id = best.id
  BY QueuedFrame
<1>3. IntactIds(Flying') = IntactIds(Flying) \cup {best.id}
  BY <1>1, <1>2 DEF IntactIds
<1>4. /\ IdsOf(queue') \subseteq IdsOf(queue) /\ best.id \notin IdsOf(queue')
      /\ IdsOf(queue) \subseteq IdsOf(queue') \cup {best.id} /\ Lost' = Lost
  BY <1>1 DEF IdsOf, Lost, PlaceInv
<1>5. AllAccepted' = AllAccepted /\ Heard' = Heard
  BY <1>1 DEF AllAccepted, Heard
<1>6. /\ \A e \in queue' : IsOf(e.id, e.priority) /\ e.created_ms \in 0..1 /\ e.ttl = DEFAULT_TTL
      /\ \A e, f \in queue' : e.id = f.id => e = f
  BY <1>1 DEF PlaceInv
<1>7. \A f \in Flying' : ~f.corrupted =>
        /\ IsOf(f.raw.event_id, f.raw.priority)
        /\ f.raw.ttl = DEFAULT_TTL % BYTE /\ f.raw.hlc_ms <= 1
  <2>1. \A f \in Flying : ~f.corrupted =>
          /\ IsOf(f.raw.event_id, f.raw.priority)
          /\ f.raw.ttl = DEFAULT_TTL % BYTE /\ f.raw.hlc_ms <= 1
    BY DEF PlaceInv
  <2> QED
    BY <1>1, <2>1, QueuedFrame
<1>8. /\ IdsOf(queue') \cap (sent' \cup Lost') = {}
      /\ AllAccepted' \subseteq IdsOf(queue') \cup sent' \cup Lost'
  BY <1>1, <1>4, <1>5 DEF PlaceInv
<1>9. /\ sent' = IntactIds(Flying') \cup b_seen_lora' /\ sent' \subseteq {1, 2}
      /\ Heard' = b_seen_lora'
      /\ \A row \in accepted' : IsOf(row.event_id, row.priority)
      /\ \A k \in DOMAIN routes' : IsOf(routes'[k].event_id, routes'[k].priority)
  BY <1>1, <1>2, <1>3, <1>5 DEF PlaceInv
<1> QED
  BY <1>6, <1>7, <1>8, <1>9 DEF PlaceInv

(* NodeB takes a frame; it is new to NodeB and handed on, or it is garbled, *)
(* or NodeB has had its event.                                              *)
HearsNew(frame) ==
  /\ ~frame.corrupted /\ frame.raw.event_id \notin b_seen_lora
  /\ b_seen_lora' = b_seen_lora \cup {frame.raw.event_id}
  /\ routes' = Append(routes, NodeB!Inbound("NodeB", frame))

HearsNothing(frame) ==
  /\ frame.corrupted \/ frame.raw.event_id \in b_seen_lora
  /\ UNCHANGED <<b_seen_lora, routes, events>>

LEMMA RouteAdded ==
  ASSUME NEW frame, routes' = Append(routes, NodeB!Inbound("NodeB", frame)),
         DOMAIN routes = 1..Len(routes), Len(routes) \in Nat
  PROVE  /\ DOMAIN routes' = 1..Len(routes') /\ Len(routes') = Len(routes) + 1
         /\ \A k \in DOMAIN routes : routes'[k] = routes[k]
         /\ routes'[Len(routes) + 1].event_id = frame.raw.event_id
         /\ routes'[Len(routes) + 1].priority = frame.raw.priority
         /\ Heard' = Heard \cup {frame.raw.event_id}
<1> DEFINE inbound == NodeB!Inbound("NodeB", frame)
<1>1. inbound.event_id = frame.raw.event_id /\ inbound.priority = frame.raw.priority
  BY DEF NodeB!Inbound
<1> HIDE DEF inbound
<1>2. routes' = Append(routes, inbound)
  BY DEF inbound
<1>3. /\ DOMAIN routes' = 1..Len(routes') /\ Len(routes') = Len(routes) + 1
      /\ \A k \in DOMAIN routes : routes'[k] = routes[k]
      /\ routes'[Len(routes) + 1] = inbound
  BY <1>2, AppendedIsNumbered
<1>4. DOMAIN routes' = DOMAIN routes \cup {Len(routes) + 1}
  BY <1>3
<1>5. Heard' = Heard \cup {inbound.event_id}
  BY <1>3, <1>4 DEF Heard
<1> QED
  BY <1>1, <1>3, <1>5

LEMMA PlaceTakes ==
  ASSUME PlaceInv, TypeOK, NEW frame \in Flying, Flying = {frame} \cup Flying',
         HearsNew(frame) \/ HearsNothing(frame), phase' = "receive",
         UNCHANGED <<queue, dropped_events, sent, accepted>>
  PROVE  PlaceInv'
<1>1. /\ IdsOf(queue') = IdsOf(queue) /\ Lost' = Lost /\ AllAccepted' = AllAccepted
  BY DEF IdsOf, Lost, AllAccepted
<1>2. \A f \in Flying : ~f.corrupted =>
         /\ IsOf(f.raw.event_id, f.raw.priority)
         /\ f.raw.ttl = DEFAULT_TTL % BYTE /\ f.raw.hlc_ms <= 1
  BY DEF PlaceInv
<1>3. \A f \in Flying' : ~f.corrupted =>
         /\ IsOf(f.raw.event_id, f.raw.priority)
         /\ f.raw.ttl = DEFAULT_TTL % BYTE /\ f.raw.hlc_ms <= 1
  BY <1>2
<1>4. /\ sent' = IntactIds(Flying') \cup b_seen_lora' /\ Heard' = b_seen_lora'
      /\ \A k \in DOMAIN routes' : IsOf(routes'[k].event_id, routes'[k].priority)
  <2>1. /\ sent = IntactIds(Flying) \cup b_seen_lora /\ Heard = b_seen_lora
        /\ \A k \in DOMAIN routes : IsOf(routes[k].event_id, routes[k].priority)
    BY DEF PlaceInv
  <2>2. CASE HearsNew(frame)
    <3>1. IntactIds(Flying) = IntactIds(Flying') \cup {frame.raw.event_id}
      BY <2>2 DEF HearsNew, IntactIds
    <3>2. /\ DOMAIN routes = 1..Len(routes) /\ Len(routes) \in Nat
          /\ routes' = Append(routes, NodeB!Inbound("NodeB", frame))
          /\ b_seen_lora' = b_seen_lora \cup {frame.raw.event_id} /\ ~frame.corrupted
      BY <2>2 DEF HearsNew, TypeOK
    <3>3. /\ DOMAIN routes' = 1..Len(routes') /\ Len(routes') = Len(routes) + 1
          /\ \A k \in DOMAIN routes : routes'[k] = routes[k]
          /\ routes'[Len(routes) + 1].event_id = frame.raw.event_id
          /\ routes'[Len(routes) + 1].priority = frame.raw.priority
          /\ Heard' = Heard \cup {frame.raw.event_id}
      BY <3>2, RouteAdded
    <3>4. \A k \in DOMAIN routes' : k \in DOMAIN routes \/ k = Len(routes) + 1
      BY <3>2, <3>3
    <3>5. \A k \in DOMAIN routes' : IsOf(routes'[k].event_id, routes'[k].priority)
      BY <1>2, <2>1, <3>2, <3>3, <3>4
    <3> QED
      BY <2>1, <3>1, <3>2, <3>3, <3>5
  <2>3. CASE HearsNothing(frame)
    <3>1. IntactIds(Flying) \subseteq IntactIds(Flying') \cup b_seen_lora
      BY <2>3 DEF HearsNothing, IntactIds
    <3>2. IntactIds(Flying') \subseteq IntactIds(Flying)
      BY DEF IntactIds
    <3>3. routes' = routes /\ b_seen_lora' = b_seen_lora /\ Heard' = Heard
      BY <2>3 DEF HearsNothing, Heard
    <3> QED
      BY <2>1, <3>1, <3>2, <3>3
  <2> QED
    BY <2>2, <2>3
<1> QED
  BY <1>1, <1>3, <1>4 DEF PlaceInv

-----------------------------------------------------------------------------
(* What the phone sends *)

LEMMA BuiltFields ==
  /\ PhonePresence.id = 1 /\ PhonePresence.priority = ALERT /\ PhonePresence.created_ms = 0
  /\ SecondSos.id = 2 /\ SecondSos.priority = SOS_RED /\ SecondSos.created_ms = 1
  /\ OnlySos.id = 1 /\ OnlySos.priority = SOS_RED /\ OnlySos.created_ms = 0
  /\ \A env \in {PhonePresence, SecondSos, OnlySos} :
        /\ env.fault = "none" /\ env.event_type # "other" /\ env.expires_ms >= 1
        /\ env.expires_ms \in Nat /\ env.priority \in WirePriority /\ env.max_hops = 0 /\ env \in Envelopes
<1>1. VALIDITY_MS \in Nat /\ VALIDITY_MS > 0
  BY ScenarioAssumption, FiguresAssumption
<1>2. PhoneEvents \subseteq Envelopes
  BY ScenarioAssumption
<1>3. /\ PhonePresence.id = 1 /\ PhonePresence.priority = ALERT /\ PhonePresence.created_ms = 0
      /\ PhonePresence.fault = "none" /\ PhonePresence.event_type # "other"
      /\ PhonePresence.expires_ms >= 1 /\ PhonePresence.expires_ms \in Nat /\ PhonePresence.priority \in WirePriority
      /\ PhonePresence.max_hops = 0 /\ PhonePresence \in Envelopes
  BY <1>1, <1>2 DEF PhonePresence, Built, PhoneEvents, WirePriority, ALERT, SOS_RED, NORMAL
<1>4. /\ SecondSos.id = 2 /\ SecondSos.priority = SOS_RED /\ SecondSos.created_ms = 1
      /\ SecondSos.fault = "none" /\ SecondSos.event_type # "other"
      /\ SecondSos.expires_ms >= 1 /\ SecondSos.expires_ms \in Nat /\ SecondSos.priority \in WirePriority
      /\ SecondSos.max_hops = 0 /\ SecondSos \in Envelopes
  BY <1>1, <1>2 DEF SecondSos, Built, PhoneEvents, WirePriority, SOS_RED, NORMAL
<1>5. /\ OnlySos.id = 1 /\ OnlySos.priority = SOS_RED /\ OnlySos.created_ms = 0
      /\ OnlySos.fault = "none" /\ OnlySos.event_type # "other"
      /\ OnlySos.expires_ms >= 1 /\ OnlySos.expires_ms \in Nat /\ OnlySos.priority \in WirePriority
      /\ OnlySos.max_hops = 0 /\ OnlySos \in Envelopes
  BY <1>1, <1>2 DEF OnlySos, Built, PhoneEvents, WirePriority, SOS_RED, NORMAL
<1> QED
  BY <1>3, <1>4, <1>5

LEMMA IdsOfTheLab ==
  1 \in Ids /\ 2 \in Ids
BY BuiltFields, EnvelopesAssumption DEF Envelope

LEMMA Accepted ==
  ASSUME NEW t \in {0, 1}, NEW env \in {PhonePresence, SecondSos, OnlySos},
         env.id \notin seen_ble, ~(Cardinality(queue) >= max_queue_size), PhoneSends(t, env)
  PROVE  /\ queue' = queue \cup {Queued(env)} /\ seen_ble' = seen_ble \cup {env.id}
         /\ accepted' = accepted \cup {RowOf(Queued(env))}
         /\ UNCHANGED <<dropped_events, retry, packet_seq, profile, pending, b_seen_lora,
                        inbox, events, routes, sent>>
<1>1. Admissible(t, env) /\ Translatable(env)
  <2>1. /\ env.fault = "none" /\ env.event_type # "other" /\ env.expires_ms >= 1
        /\ env.expires_ms \in Nat /\ env.priority \in WirePriority
    BY BuiltFields
  <2>2. env.expires_ms >= t
    BY <2>1
  <2> QED
    BY <2>1, <2>2 DEF Admissible, Translatable
<1>2. RoomFor(env) = {queue}
  BY DEF RoomFor
<1>3. IngestAccepted(t, env) /\ accepted' = accepted \cup {RowOf(Queued(env))}
  BY <1>1, <1>2 DEF PhoneSends, IngestUntranslatable, IngestRefused
<1>4. queue' = queue \cup {Queued(env)} /\ dropped_events' = dropped_events \cup (queue \ queue)
  BY <1>2, <1>3 DEF IngestAccepted
<1>5. dropped_events' = dropped_events
  BY <1>4
<1>6. /\ seen_ble' = seen_ble \cup {env.id}
      /\ UNCHANGED <<retry, packet_seq, profile, pending, b_seen_lora, inbox, events, routes, sent>>
  BY <1>3 DEF IngestAccepted, PhoneSends, channelVars, farVars
<1> QED
  BY <1>3, <1>4, <1>5, <1>6

LEMMA QueuedFields ==
  ASSUME NEW env \in {PhonePresence, SecondSos, OnlySos}
  PROVE  /\ Queued(env).id = env.id /\ Queued(env).priority = env.priority
         /\ Queued(env).created_ms = env.created_ms /\ Queued(env).ttl = DEFAULT_TTL
         /\ RowOf(Queued(env)).event_id = env.id /\ RowOf(Queued(env)).priority = env.priority
<1>1. env.max_hops = 0
  BY BuiltFields
<1> QED
  BY <1>1 DEF Queued, QueuedAs, RowOf

-----------------------------------------------------------------------------
(* The main loop: it begins *)

(* The turns and the wait are natural.                                      *)
LEMMA TurnsNat ==
  ASSUME TypeOK
  PROVE  /\ Turns \in Nat /\ Wait \in Nat /\ Wait >= STEP_MS /\ STEP_MS \in Nat \ {0}
         /\ Turns * Wait \in Nat
<1>1. /\ Gone(1) \in Nat /\ Gone(2) \in Nat /\ STEP_MS \in Nat \ {0}
      /\ RETRY_BACKOFF_MS \in Nat /\ RETRY_JITTER_MS \in Nat
  BY NodeAssumption, ScenarioAssumption, FiguresAssumption DEF Gone
<1>2. retry[1].loss_attempts \in Nat /\ retry[2].loss_attempts \in Nat
  BY IdsOfTheLab DEF TypeOK, RetryState
<1>3. Turns \in Nat /\ Wait \in Nat /\ Wait >= STEP_MS
  BY <1>1, <1>2 DEF Turns, Wait
<1>4. \A m, n \in Nat : m * n \in Nat
  OBVIOUS
<1> QED
  BY <1>1, <1>3, <1>4

LEMMA SendStep ==
  ASSUME MainInv, PlanInv, NEW env \in {PhonePresence, SecondSos},
         PhoneSends(1, env), phase' = phase, step' = step,
         \/ Stage = 0 /\ Stage' = 1 /\ env = PhonePresence
         \/ Stage = 1 /\ Stage' = 2 /\ env = SecondSos,
         UNCHANGED <<run, table>>
  PROVE  MainInv'
<1>1. /\ Fresh /\ TypeOK /\ env.id \notin seen_ble
      /\ ~(Cardinality(queue) >= max_queue_size)
      /\ env \in {PhonePresence, SecondSos, OnlySos} /\ env \in Envelopes
  <2>1. Fresh /\ TypeOK /\ env.id \notin seen_ble
    BY BuiltFields DEF MainInv, FreshInv
  <2>2. Cardinality(queue) \in {0, 1}
    <3>1. queue = {} \/ \E e \in queue : queue = {e}
      BY DEF MainInv, FreshInv
    <3> QED
      BY <3>1, FS_EmptySet, FS_Singleton
  <2>3. max_queue_size \in Nat /\ max_queue_size > 1
    BY NodeAssumption, FiguresAssumption
  <2> QED
    BY <2>1, <2>2, <2>3, BuiltFields
<1>2. /\ queue' = queue \cup {Queued(env)} /\ seen_ble' = seen_ble \cup {env.id}
      /\ accepted' = accepted \cup {RowOf(Queued(env))}
      /\ UNCHANGED <<dropped_events, retry, packet_seq, profile, pending, b_seen_lora,
                     inbox, events, routes, sent>>
  BY <1>1, Accepted
<1>3. TypeOK'
  <2>1. 1 \in Times
    BY InstantsAssumption
  <2> QED
    BY <1>1, <2>1, PhoneTypes
<1>4. /\ Queued(env).id = env.id /\ IsOf(Queued(env).id, Queued(env).priority)
      /\ Queued(env).created_ms \in 0..1 /\ Queued(env).ttl = DEFAULT_TTL
      /\ RowOf(Queued(env)).event_id = env.id
      /\ IsOf(RowOf(Queued(env)).event_id, RowOf(Queued(env)).priority)
  BY <1>1, QueuedFields, BuiltFields DEF IsOf
<1>5. FreshInv'
  <2>1. CASE Stage' = 1
    <3>1. queue = {} /\ seen_ble = {} /\ accepted = {} /\ env.id = 1
      BY <2>1, BuiltFields DEF MainInv, FreshInv
    <3>2. queue' = {Queued(env)} /\ seen_ble' = {1} /\ accepted' = {RowOf(Queued(env))}
      BY <1>2, <3>1
    <3> QED
      BY <1>1, <1>2, <1>4, <2>1, <3>1, <3>2 DEF FreshInv, Fresh
  <2>2. CASE Stage' = 2
    <3>1. /\ \E one : accepted = {one} /\ one.event_id = 1
          /\ env.id = 2
      BY <2>2, BuiltFields DEF MainInv, FreshInv
    <3>2. PICK one : accepted = {one} /\ one.event_id = 1
      BY <3>1
    <3>3. /\ accepted' = {one, RowOf(Queued(env))} /\ one.event_id = 1
          /\ RowOf(Queued(env)).event_id = 2
      BY <1>2, <1>4, <3>1, <3>2
    <3> QED
      BY <2>2, <3>3 DEF FreshInv
  <2> QED
    BY <2>1, <2>2
<1>6. Flying = {} /\ Flying' = {}
  BY <1>1, <1>2 DEF Fresh, Flying, Range
<1>7. PlaceInv'
  <2>1. /\ sent' = {} /\ Lost' = {} /\ b_seen_lora' = {} /\ routes' = << >>
        /\ inbox' = << >>
    BY <1>1, <1>2 DEF Fresh, Lost, IdsOf
  <2>2. IntactIds(Flying') = {} /\ Heard' = {}
    BY <1>6, <2>1 DEF IntactIds, Heard
  <2>3. /\ \A e \in queue' : IsOf(e.id, e.priority) /\ e.created_ms \in 0..1 /\ e.ttl = DEFAULT_TTL
        /\ \A row \in accepted' : IsOf(row.event_id, row.priority)
    BY <1>2, <1>4 DEF MainInv, PlaceInv
  <2>4. env.id \notin IdsOf(queue)
    <3>1. Stage = 0 => queue = {}
      BY DEF MainInv, FreshInv
    <3>2. CASE Stage = 1
      <4>1. PICK e \in queue : queue = {e}
        BY <3>2 DEF MainInv, FreshInv
      <4>2. AllAccepted = {1} /\ sent = {} /\ dropped_events = {}
        BY <3>2 DEF MainInv, FreshInv, Fresh, AllAccepted
      <4>3. e.id = 1
        BY <4>1, <4>2 DEF MainInv, PlaceInv, IdsOf, Lost
      <4> QED
        BY <3>2, <4>1, <4>3, BuiltFields DEF IdsOf
    <3> QED
      BY <3>1, <3>2 DEF IdsOf
  <2>5. \A e, f \in queue' : e.id = f.id => e = f
    BY <1>2, <1>4, <2>4 DEF MainInv, PlaceInv, IdsOf
  <2>6. AllAccepted' \subseteq IdsOf(queue')
    <3>1. AllAccepted \subseteq IdsOf(queue)
      BY <1>1 DEF MainInv, PlaceInv, Fresh, Lost, IdsOf
    <3> QED
      BY <1>2, <1>4, <3>1 DEF AllAccepted, IdsOf
  <2> QED
    BY <1>6, <2>1, <2>2, <2>3, <2>5, <2>6 DEF PlaceInv
<1>8. SinkInv' /\ AttemptsInv'
  BY <1>1, <1>2 DEF MainInv, SinkInv, AttemptsInv, CliSink, Fresh, Lossless
<1>9. SevereInv'
  <2>1. CASE Stage' = 2
    <3>1. Queued(env).id = 2 /\ Queued(env) \in queue' /\ sent' = {}
      BY <1>1, <1>2, <1>4, <2>1, BuiltFields DEF Fresh
    <3> QED
      BY <3>1 DEF SevereInv, IdsOf
  <2>2. CASE Stage' = 1
    BY <2>2 DEF SevereInv
  <2> QED
    BY <2>1, <2>2
<1>10. TimeInv'
  <2>1. \A i \in {1, 2} : retry'[i].next_attempt_ms = 0
    BY <1>1, <1>2, IdsOfTheLab DEF Fresh, NoRetry
  <2>2. now_ms' = 0 /\ phase' = "transmit"
    BY <1>1, ScenarioAssumption DEF now_ms, Fresh
  <2>3. Turns' * Wait \in Nat
    <3>1. (TypeOK => Turns * Wait \in Nat)'
      BY TurnsNat, PTL
    <3>2. Wait' = Wait
      BY DEF Wait
    <3> QED
      BY <1>3, <3>1, <3>2
  <2>4. Range(pending') = {}
    BY <1>1, <1>2 DEF Fresh, Range
  <2> QED
    BY <2>1, <2>2, <2>3, <2>4 DEF TimeInv, Wait
<1>11. EndInv'
  BY DEF EndInv
<1> QED
  BY <1>3, <1>5, <1>7, <1>8, <1>9, <1>10, <1>11 DEF MainInv

-----------------------------------------------------------------------------
(* The main loop: NodeA transmits *)

LEMMA NowIsAnInstant ==
  ASSUME PlanInv
  PROVE  now_ms \in Times /\ now_ms \in Nat /\ now_ms <= HLC_REPLAY_WINDOW_MS
<1>1. run \in Runs /\ step \in 0..run.steps - 1
  BY DEF PlanInv
<1>2. now_ms \in Times
  BY <1>1, InstantsAssumption DEF now_ms
<1> QED
  BY <1>2, LabAssumption, FiguresAssumption

LEMMA DueIsNat ==
  TypeOK => \A d \in Range(pending) : d.due_ms \in Nat /\ d.frame \in Frames
<1> SUFFICES ASSUME TypeOK
             PROVE  \A d \in Range(pending) : d \in Deliveries
  BY DEF Deliveries
<1>1. pending \in Seq(Deliveries)
  BY DEF TypeOK, Deliveries
<1>2. DOMAIN pending = 1..Len(pending) /\ \A i \in DOMAIN pending : pending[i] \in Deliveries
  BY <1>1
<1> QED
  BY <1>2 DEF Range

(* The SOS is at the front if it is queued at all.                          *)
LEMMA SosIsFront ==
  ASSUME PlaceInv, NEW best \in queue, IsFront(best), 2 \in IdsOf(queue)
  PROVE  best.id = 2
<1>1. PICK e \in queue : e.id = 2
  BY DEF IdsOf
<1>2. IsOf(best.id, best.priority) /\ e.priority = SOS_RED
  BY <1>1 DEF PlaceInv, IsOf
<1>3. best # e => Before(best, e)
  BY DEF IsFront
<1>4. CASE best.id = 1
  <2>1. best.priority = ALERT /\ best # e
    BY <1>1, <1>2, <1>4 DEF IsOf
  <2> QED
    BY <1>2, <1>3, <2>1 DEF Before, ALERT, SOS_RED
<1> QED
  BY <1>2, <1>4 DEF IsOf

(* A turn that costs an attempt, or settles an event, leaves time enough.   *)
LEMMA TurnTaken ==
  ASSUME TypeOK, TypeOK', TimeInv, PlanInv, NeverBusy, Stage = 2, queue # {},
         phase = "transmit", phase' = "drain", UNCHANGED <<step, profile>>,
         Turns' = Turns + 1,
         \A i \in {1, 2} : \/ retry'[i].next_attempt_ms = retry[i].next_attempt_ms
                           \/ retry'[i].next_attempt_ms
                                <= now_ms + RETRY_BACKOFF_MS + RETRY_JITTER_MS,
         \A d \in Range(pending') :
            \/ d \in Range(pending)
            \/ \E delay \in profile.delays : d.due_ms <= now_ms + delay + 1
  PROVE  TimeInv'
<1>1. /\ Turns \in Nat /\ Wait \in Nat /\ Wait >= STEP_MS /\ STEP_MS \in Nat \ {0}
      /\ now_ms \in Nat /\ RETRY_BACKOFF_MS \in Nat /\ RETRY_JITTER_MS \in Nat
      /\ Wait = RETRY_BACKOFF_MS + RETRY_JITTER_MS + STEP_MS
  BY TurnsNat, NowIsAnInstant, NodeAssumption DEF Wait
<1>2. now_ms' = now_ms /\ Wait' = Wait
  BY DEF now_ms, Wait
<1>3. PICK T \in Nat : T = Turns * Wait
  BY TurnsNat
<1>4. Turns' * Wait' = T + Wait
  <2>1. \A m, n \in Nat : (m + 1) * n = m * n + n
    OBVIOUS
  <2> QED
    BY <1>1, <1>2, <1>3, <2>1
<1>5. /\ \A i \in {1, 2} : \/ retry[i].next_attempt_ms = 0
                          \/ retry[i].next_attempt_ms + STEP_MS <= T
      /\ now_ms <= T
      /\ \A d \in Range(pending) : \E delay \in profile.delays : d.due_ms <= T + delay + 1
  BY <1>3 DEF TimeInv
<1>6. /\ \A i \in {1, 2} : retry[i].next_attempt_ms \in Nat /\ retry'[i].next_attempt_ms \in Nat
      /\ \A delay \in profile.delays : delay \in Nat
      /\ \A d \in Range(pending) : d.due_ms \in Nat
      /\ \A d \in Range(pending') : d.due_ms \in Nat
  <2>1. (TypeOK => \A d \in Range(pending) : d.due_ms \in Nat /\ d.frame \in Frames)'
    BY DueIsNat, PTL
  <2>2. \A i \in {1, 2} : retry[i].next_attempt_ms \in Nat /\ retry'[i].next_attempt_ms \in Nat
    BY IdsOfTheLab DEF TypeOK, RetryState
  <2>3. \A delay \in profile.delays : delay \in Nat
    BY ChannelAssumption DEF TypeOK
  <2> QED
    BY <2>1, <2>2, <2>3, DueIsNat
<1>7. ASSUME NEW i \in {1, 2}
      PROVE  \/ retry'[i].next_attempt_ms = 0
             \/ retry'[i].next_attempt_ms + STEP_MS <= T + Wait
  <2>1. CASE retry'[i].next_attempt_ms = retry[i].next_attempt_ms
    BY <1>1, <1>5, <1>6, <2>1
  <2>2. CASE retry'[i].next_attempt_ms <= now_ms + RETRY_BACKOFF_MS + RETRY_JITTER_MS
    BY <1>1, <1>5, <1>6, <2>2
  <2> QED
    BY <2>1, <2>2
<1>8. now_ms + STEP_MS <= T + Wait
  BY <1>1, <1>5
<1>9. ASSUME NEW d \in Range(pending')
      PROVE  \E delay \in profile.delays : d.due_ms <= (T + Wait) + delay + 1
  <2>1. PICK delay \in profile.delays :
           d.due_ms <= T + delay + 1 \/ d.due_ms <= now_ms + delay + 1
    BY <1>5
  <2>2. d.due_ms <= (T + Wait) + delay + 1
    BY <1>1, <1>5, <1>6, <2>1
  <2> QED
    BY <2>2
<1> QED
  BY <1>2, <1>4, <1>7, <1>8, <1>9 DEF TimeInv

(* A turn in which nothing is tried leaves the clock where it may be.       *)
LEMMA TurnIdle ==
  ASSUME TypeOK, TimeInv, PlanInv, NeverBusy, Stage = 2, UNCHANGED <<step, profile>>,
         queue = {} \/ \E i \in {1, 2} : now_ms < retry[i].next_attempt_ms,
         phase = "transmit", phase' = "drain", UNCHANGED <<queue, retry, pending>>
  PROVE  TimeInv'
<1>1. now_ms' = now_ms /\ Wait' = Wait /\ Turns' = Turns
  BY DEF now_ms, Wait, Turns, Gone, IdsOf
<1>2. PICK T \in Nat : T = Turns * Wait
  BY TurnsNat
<1>3. /\ \A i \in {1, 2} : retry[i].next_attempt_ms \in Nat
      /\ now_ms \in Nat /\ STEP_MS \in Nat
  BY IdsOfTheLab, NowIsAnInstant, ScenarioAssumption DEF TypeOK, RetryState
<1>4. queue # {} => now_ms + STEP_MS <= T
  BY <1>2, <1>3 DEF TimeInv
<1> QED
  BY <1>1, <1>2, <1>4 DEF TimeInv

-----------------------------------------------------------------------------
(* The severe event keeps its lead when NodeA has its turn.                 *)

(* Nothing is sent, and what was on air still is. *)
LEMMA LeadKeptUnsent ==
  ASSUME PlaceInv, SevereInv, TypeOK, PlanInv, Stage >= 2, Stage' = Stage,
         phase = "transmit", phase' = "drain",
         queue' = queue \/ \E best \in queue : queue' = queue \ {best},
         dropped_events' = dropped_events \cup (queue \ queue'),
         Range(pending) \subseteq Range(pending'),
         UNCHANGED <<sent, b_seen_lora, routes, step, profile>>
  PROVE  SevereInv'
<1> SUFFICES ASSUME Swift, 2 \notin Lost'
             PROVE  \/ 2 \in IdsOf(queue') /\ 1 \notin sent'
                    \/ /\ 2 \in sent' /\ 2 \notin b_seen_lora' /\ 1 \notin b_seen_lora'
                       /\ Ahead'
                    \/ 2 \in b_seen_lora' /\ InOrder'
  BY DEF SevereInv, Swift
<1>1. 2 \notin Lost /\ (2 \in IdsOf(queue) => 2 \in IdsOf(queue'))
  BY DEF Lost, IdsOf
<1>2. CASE 2 \in IdsOf(queue) /\ 1 \notin sent
  BY <1>1, <1>2
<1>3. CASE 2 \in b_seen_lora /\ InOrder
  BY <1>3 DEF InOrder
<1>4. CASE 2 \in sent /\ 2 \notin b_seen_lora /\ 1 \notin b_seen_lora /\ Ahead
  <2>1. 1 \notin sent /\ SosDueBy(now_ms)
    BY <1>4 DEF Ahead
  <2>2. PICK d \in Range(pending) :
           ~d.frame.corrupted /\ d.frame.raw.event_id = 2 /\ d.due_ms <= now_ms
    BY <2>1 DEF SosDueBy
  <2>3. d.due_ms \in Nat /\ now_ms \in Nat /\ STEP_MS \in Nat
    BY <2>2, DueIsNat, NowIsAnInstant, ScenarioAssumption
  <2>4. d.due_ms <= now_ms + STEP_MS
    BY <2>2, <2>3
  <2>5. now_ms' = now_ms
    BY DEF now_ms
  <2>6. Ahead'
    BY <2>1, <2>2, <2>4, <2>5 DEF Ahead, SosDueBy
  <2> QED
    BY <1>4, <2>6
<1> QED
  BY <1>1, <1>2, <1>3, <1>4 DEF SevereInv

LEMMA LeadKeptSent ==
  ASSUME PlaceInv, SevereInv, TypeOK, PlanInv, Stage >= 2, Stage' = Stage,
         phase = "transmit", phase' = "drain",
         NEW best \in queue, IsFront(best), queue' = queue \ {best},
         sent' = sent \cup {best.id}, NEW delay \in profile.delays,
         Range(pending) \cup {Delivery(now_ms + delay, Frame(best))} \subseteq Range(pending'),
         Range(pending') \subseteq Range(pending)
            \cup {Delivery(now_ms + delay, Frame(best)), Delivery(now_ms + delay + 1, Frame(best))},
         UNCHANGED <<dropped_events, b_seen_lora, routes, step, profile>>
  PROVE  SevereInv'
<1> SUFFICES ASSUME Swift, 2 \notin Lost
             PROVE  \/ 2 \in IdsOf(queue') /\ 1 \notin sent'
                    \/ /\ 2 \in sent' /\ 2 \notin b_seen_lora' /\ 1 \notin b_seen_lora'
                       /\ Ahead'
                    \/ 2 \in b_seen_lora' /\ InOrder'
  BY DEF SevereInv, Swift, Lost
<1> DEFINE copy == Delivery(now_ms + delay, Frame(best))
           echo == Delivery(now_ms + delay + 1, Frame(best))
<1>1. /\ copy.frame = Frame(best) /\ copy.due_ms = now_ms + delay
      /\ echo.frame = Frame(best) /\ echo.due_ms = now_ms + delay + 1
  BY DEF Delivery
<1>2. /\ ~Frame(best).corrupted /\ Frame(best).raw.event_id = best.id
      /\ best.id \in {1, 2}
  BY QueuedFrame
<1>3. /\ delay \in Nat /\ 0 < delay /\ delay < STEP_MS /\ now_ms \in Nat /\ STEP_MS \in Nat
      /\ now_ms' = now_ms
  BY NowIsAnInstant, ScenarioAssumption, ChannelAssumption DEF TypeOK, Swift, now_ms
<1>4. /\ copy.due_ms <= now_ms + STEP_MS /\ copy.due_ms > now_ms /\ echo.due_ms > now_ms
  BY <1>1, <1>3
<1>5. copy \in Range(pending') /\ Range(pending) \subseteq Range(pending')
      /\ \A d \in Range(pending') : d \in Range(pending) \/ d = copy \/ d = echo
  OBVIOUS
<1> HIDE DEF copy, echo
<1>6. sent = IntactIds(Flying) \cup b_seen_lora /\ IdsOf(queue) \cap sent = {}
  BY DEF PlaceInv
<1>7. CASE 2 \in IdsOf(queue) /\ 1 \notin sent
  <2>1. best.id = 2
    BY <1>7, SosIsFront
  <2>2. 1 \notin sent' /\ 2 \in sent' /\ 2 \notin b_seen_lora /\ 1 \notin b_seen_lora
    BY <1>6, <1>7, <2>1
  <2>3. Ahead'
    BY <1>1, <1>2, <1>3, <1>4, <1>5, <2>1, <2>2 DEF Ahead, SosDueBy
  <2> QED
    BY <2>2, <2>3
<1>8. CASE 2 \in b_seen_lora /\ InOrder
  BY <1>8 DEF InOrder
<1>9. CASE 2 \in sent /\ 2 \notin b_seen_lora /\ 1 \notin b_seen_lora /\ Ahead
  <2>1. 1 \notin sent /\ SosDueBy(now_ms)
    BY <1>9 DEF Ahead
  <2>2. SosDueBy(now_ms)'
    BY <1>3, <1>5, <2>1 DEF SosDueBy
  <2>3. PresenceDueAfter(now_ms)'
    <3>1. ASSUME NEW d \in Range(pending), ~d.frame.corrupted
          PROVE  d.frame.raw.event_id # 1
      <4>1. d.frame \in Flying
        BY DEF Flying
      <4> QED
        BY <1>6, <2>1, <3>1, <4>1 DEF IntactIds
    <3> QED
      BY <1>3, <1>4, <1>5, <3>1 DEF PresenceDueAfter
  <2> QED
    BY <1>9, <2>2, <2>3 DEF Ahead
<1> QED
  BY <1>7, <1>8, <1>9 DEF SevereInv

-----------------------------------------------------------------------------
(* NodeA's turn as a whole *)

LEMMA NoHitOfZero ==
  TRUE \notin Hit(0)
BY DEF Hit

LEMMA BudgetOf ==
  ASSUME NEW best, IsOf(best.id, best.priority)
  PROVE  /\ best.id = 1 => Budget(best.priority) = LOSS_BUDGET_DEFAULT
         /\ best.id = 2 => Budget(best.priority) = LOSS_BUDGET_CRITICAL
         /\ best.id = 1 \/ best.id = 2
BY DEF IsOf, Budget, ALERT, SOS_RED

(* One event less in the queue: one turn more.                              *)
LEMMA SettledTurn ==
  ASSUME TypeOK, PlaceInv, NEW best \in queue, queue' = queue \ {best}, UNCHANGED retry
  PROVE  Turns' = Turns + 1
<1>1. best.id = 1 \/ best.id = 2
  BY QueuedFrame
<1>2. /\ best.id \in IdsOf(queue) /\ best.id \notin IdsOf(queue')
      /\ \A i : i # best.id => (i \in IdsOf(queue) <=> i \in IdsOf(queue'))
  BY DEF PlaceInv, IdsOf
<1>3. retry[1].loss_attempts \in Nat /\ retry[2].loss_attempts \in Nat
  BY IdsOfTheLab DEF TypeOK, RetryState
<1>4. CASE best.id = 1
  <2>1. Gone(1) = 0 /\ Gone(1)' = 1 /\ Gone(2)' = Gone(2) /\ Gone(2) \in {0, 1}
    BY <1>2, <1>4 DEF Gone
  <2> QED
    BY <1>3, <2>1 DEF Turns
<1>5. CASE best.id = 2
  <2>1. Gone(2) = 0 /\ Gone(2)' = 1 /\ Gone(1)' = Gone(1) /\ Gone(1) \in {0, 1}
    BY <1>2, <1>5 DEF Gone
  <2> QED
    BY <1>3, <2>1 DEF Turns
<1> QED
  BY <1>1, <1>4, <1>5

(* What a failed attempt does to the retry table.                           *)
LEMMA LostAttempt ==
  ASSUME TypeOK, PlaceInv, PlanInv, AttemptsInv, NEW best \in queue,
         TransmitLost(now_ms, best)
  PROVE  /\ Turns' = Turns + 1
         /\ retry'[1].loss_attempts <= LOSS_BUDGET_DEFAULT
         /\ retry'[2].loss_attempts <= LOSS_BUDGET_CRITICAL
         /\ \A i \in {1, 2} : \/ retry'[i].next_attempt_ms = retry[i].next_attempt_ms
                              \/ retry'[i].next_attempt_ms
                                   <= now_ms + RETRY_BACKOFF_MS + RETRY_JITTER_MS
<1>1. PICK when \in Backoff(now_ms) :
         retry' = [retry EXCEPT ![best.id] =
                     [loss_attempts |-> @.loss_attempts + 1, next_attempt_ms |-> when]]
  BY DEF TransmitLost
<1>2. /\ best.id \in {1, 2} /\ retry \in [Ids -> RetryState] /\ 1 \in Ids /\ 2 \in Ids
      /\ IsOf(best.id, best.priority)
  BY IdsOfTheLab, QueuedFrame DEF TypeOK
<1>3. /\ retry'[best.id].loss_attempts = retry[best.id].loss_attempts + 1
      /\ retry'[best.id].next_attempt_ms = when
      /\ \A i \in {1, 2} : i # best.id => retry'[i] = retry[i]
  BY <1>1, <1>2
<1>4. retry[1].loss_attempts \in Nat /\ retry[2].loss_attempts \in Nat
  BY <1>2 DEF RetryState
<1>5. when <= now_ms + RETRY_BACKOFF_MS + RETRY_JITTER_MS
  <2>1. PICK j \in Jitters : when = now_ms + RETRY_BACKOFF_MS + j
    BY DEF Backoff
  <2>2. j \in 0..RETRY_JITTER_MS /\ RETRY_JITTER_MS \in Nat /\ RETRY_BACKOFF_MS \in Nat
        /\ now_ms \in Nat
    BY NodeAssumption, NowIsAnInstant
  <2> QED
    BY <2>1, <2>2
<1>6. Gone(1)' = Gone(1) /\ Gone(2)' = Gone(2) /\ Gone(1) \in Nat /\ Gone(2) \in Nat
  BY DEF TransmitLost, Gone, IdsOf
<1>7. Turns' = Turns + 1
  BY <1>2, <1>3, <1>4, <1>6 DEF Turns
<1>8. ~(retry[best.id].loss_attempts >= Budget(best.priority))
  BY DEF TransmitLost, Attempts, Exhausted
<1>9. /\ retry'[1].loss_attempts <= LOSS_BUDGET_DEFAULT
      /\ retry'[2].loss_attempts <= LOSS_BUDGET_CRITICAL
  <2>1. LOSS_BUDGET_DEFAULT \in Nat /\ LOSS_BUDGET_CRITICAL \in Nat
    BY NodeAssumption
  <2>2. /\ retry[1].loss_attempts <= LOSS_BUDGET_DEFAULT
        /\ retry[2].loss_attempts <= LOSS_BUDGET_CRITICAL
    BY DEF AttemptsInv
  <2>3. CASE best.id = 1
    <3>1. /\ ~(retry[1].loss_attempts >= LOSS_BUDGET_DEFAULT)
          /\ retry'[1].loss_attempts = retry[1].loss_attempts + 1 /\ retry'[2] = retry[2]
      BY <1>2, <1>3, <1>8, <2>3, BudgetOf
    <3> QED
      BY <1>4, <2>1, <2>2, <3>1
  <2>4. CASE best.id = 2
    <3>1. /\ ~(retry[2].loss_attempts >= LOSS_BUDGET_CRITICAL)
          /\ retry'[2].loss_attempts = retry[2].loss_attempts + 1 /\ retry'[1] = retry[1]
      BY <1>2, <1>3, <1>8, <2>4, BudgetOf
    <3> QED
      BY <1>4, <2>1, <2>2, <3>1
  <2> QED
    BY <1>2, <2>3, <2>4
<1>10. \A i \in {1, 2} : \/ retry'[i].next_attempt_ms = retry[i].next_attempt_ms
                        \/ retry'[i].next_attempt_ms
                             <= now_ms + RETRY_BACKOFF_MS + RETRY_JITTER_MS
  BY <1>3, <1>5
<1> QED
  BY <1>7, <1>9, <1>10

(* A channel without loss loses no attempt.                                 *)
LEMMA LossyChannel ==
  ASSUME PlaceInv, NEW best \in queue, NEW t, ChannelLost(t, Frame(best))
  PROVE  ~Lossless
<1>1. Frame(best).ttl = DEFAULT_TTL /\ DEFAULT_TTL \in Nat \ {0}
  BY NodeAssumption DEF Frame, BuildFrame, PlaceInv
<1>2. \/ TRUE \in Hit(profile.packet_loss_percent)
      \/ TRUE \in Hit(profile.corrupt_percent)
  <2>1. ~(Frame(best).ttl <= 0)
    BY <1>1
  <2> QED
    BY <2>1 DEF ChannelLost, Clear
<1> QED
  BY <1>2, NoHitOfZero DEF Lossless

LEMMA TransmitStep ==
  ASSUME MainInv, PlanInv, Main, Transmit
  PROVE  MainInv'
<1>1. /\ Stage = 2 /\ Stage' = 2 /\ phase = "transmit" /\ phase' = "drain"
      /\ UNCHANGED <<run, step, table>> /\ NodeATransmits(now_ms)
  <2>1. Stage = 2 /\ plan' = plan /\ UNCHANGED <<run, step, table>> /\ phase = "transmit"
        /\ phase' = "drain" /\ NodeATransmits(now_ms)
    BY MainCallIs DEF Transmit, InLoop, ToPhase
  <2>2. Stage' = Stage
    BY <2>1 DEF Stage, Script
  <2> QED
    BY <2>1, <2>2
<1>2. /\ TypeOK /\ FreshInv /\ PlaceInv /\ SinkInv /\ AttemptsInv /\ SevereInv /\ TimeInv
  BY DEF MainInv
<1>3. TypeOK'
  BY <1>1, <1>2, NowIsAnInstant, TransmitTypes
<1>4. /\ inbox = << >> /\ inbox' = << >>
      /\ UNCHANGED <<inbox, b_seen_lora, handed, events, routes, accepted, wipes,
                     sent_before>>
  BY <1>1, <1>2 DEF PlaceInv, NodeATransmits, farVars
<1>5. FreshInv' /\ SinkInv' /\ EndInv'
  BY <1>1, <1>2, <1>4 DEF FreshInv, SinkInv, EndInv, CliSink
<1> SUFFICES PlaceInv' /\ AttemptsInv' /\ SevereInv' /\ TimeInv'
  BY <1>3, <1>5 DEF MainInv
<1>6. CASE TransmitIdle(now_ms) /\ UNCHANGED <<channelVars, sent>>
  <2>1. UNCHANGED <<queue, retry, dropped_events, pending, profile, sent>>
    BY <1>6 DEF TransmitIdle, nodeVars, channelVars
  <2>2. Settles
    BY <1>4, <2>1, SameFlies DEF Settles
  <2>3. PlaceInv'
    BY <1>1, <1>2, <1>4, <2>2, PlaceSettles
  <2>4. AttemptsInv'
    BY <1>2, <2>1 DEF AttemptsInv, Lossless
  <2>5. SevereInv'
    <3>1. dropped_events' = dropped_events \cup (queue \ queue')
      BY <2>1
    <3>2. Range(pending) \subseteq Range(pending')
      BY <2>1
    <3> QED
      BY <1>1, <1>2, <1>4, <2>1, <3>1, <3>2, LeadKeptUnsent
  <2>6. TimeInv'
    <3>1. queue = {} \/ \E i \in {1, 2} : now_ms < retry[i].next_attempt_ms
      BY <1>2, <1>6, QueuedFrame DEF TransmitIdle, BackingOff
    <3>2. NeverBusy' <=> NeverBusy
      BY <2>1 DEF NeverBusy
    <3>3. CASE NeverBusy
      BY <1>1, <1>2, <2>1, <3>1, <3>3, TurnIdle
    <3> QED
      BY <3>2, <3>3 DEF TimeInv
  <2> QED
    BY <2>3, <2>4, <2>5, <2>6
<1>7. CASE TransmitGivesUp(now_ms) /\ UNCHANGED <<channelVars, sent>>
  <2>1. PICK best \in queue :
           /\ Exhausted(best) /\ queue' = queue \ {best}
           /\ dropped_events' = dropped_events \cup {best}
           /\ UNCHANGED <<retry, pending, profile, sent>>
    BY <1>7 DEF TransmitGivesUp, channelVars
  <2>2. Settles /\ queue \ queue' = {best}
    BY <1>4, <2>1, SameFlies DEF Settles
  <2>3. PlaceInv'
    BY <1>1, <1>2, <1>4, <2>2, PlaceSettles
  <2>4. ~Lossless
    <3>1. best.id \in {1, 2} /\ IsOf(best.id, best.priority)
      BY <1>2, QueuedFrame
    <3>2. Budget(best.priority) \in Nat \ {0}
      BY NodeAssumption DEF Budget
    <3>3. retry[best.id].loss_attempts >= Budget(best.priority)
      BY <2>1 DEF Exhausted
    <3>4. Lossless => retry[best.id].loss_attempts = 0
      BY <1>2, <3>1 DEF AttemptsInv
    <3> QED
      BY <3>2, <3>3, <3>4
  <2>5. AttemptsInv'
    BY <1>2, <2>1, <2>4 DEF AttemptsInv, Lossless
  <2>6. SevereInv'
    <3>1. dropped_events' = dropped_events \cup (queue \ queue')
      BY <2>1, <2>2
    <3>2. Range(pending) \subseteq Range(pending')
      BY <2>1
    <3> QED
      BY <1>1, <1>2, <1>4, <2>1, <3>1, <3>2, LeadKeptUnsent
  <2>7. TimeInv'
    <3>1. Turns' = Turns + 1
      BY <1>2, <2>1, SettledTurn
    <3>2. NeverBusy' <=> NeverBusy
      BY <2>1 DEF NeverBusy
    <3>3. CASE NeverBusy
      BY <1>1, <1>2, <1>3, <2>1, <3>1, <3>3, TurnTaken
    <3> QED
      BY <3>2, <3>3 DEF TimeInv
  <2> QED
    BY <2>3, <2>5, <2>6, <2>7
<1>8. ASSUME NEW best \in queue, TransmitSent(now_ms, best), ChannelSent(now_ms, Frame(best)),
             sent' = sent \cup {best.id}
      PROVE  PlaceInv' /\ AttemptsInv' /\ SevereInv' /\ TimeInv'
  <2>1. /\ IsFront(best) /\ queue' = queue \ {best}
        /\ UNCHANGED <<retry, dropped_events, seen_ble>>
    BY <1>8 DEF TransmitSent, Attempts
  <2>2. now_ms \in Times /\ Frame(best) \in Frames
    BY <1>2, NowIsAnInstant, FrameTypes
  <2>3. PICK delay \in profile.delays :
           /\ Range(pending) \cup {Delivery(now_ms + delay, Frame(best))} \subseteq Range(pending')
           /\ Range(pending') \subseteq Range(pending)
                \cup {Delivery(now_ms + delay, Frame(best)), Delivery(now_ms + delay + 1, Frame(best))}
    BY <1>2, <1>8, <2>2, SentDeliveries
  <2>4. profile' = profile /\ Flying' = Flying \cup {Frame(best)}
    BY <1>2, <1>4, <1>8, <2>2, TransmitFlies, SentDeliveries
  <2>5. PlaceInv'
    <3>1. Sends(best)
      BY <1>4, <1>8, <2>1, <2>4 DEF Sends, gatewayVars
    <3> QED
      BY <1>2, <1>4, <2>1, <3>1, PlaceSends
  <2>6. AttemptsInv'
    BY <1>2, <2>1, <2>4 DEF AttemptsInv, Lossless
  <2>7. SevereInv'
    BY <1>1, <1>2, <1>4, <1>8, <2>1, <2>3, <2>4, LeadKeptSent
  <2>8. TimeInv'
    <3>1. Turns' = Turns + 1
      BY <1>2, <2>1, SettledTurn
    <3>2. NeverBusy' <=> NeverBusy
      BY <2>4 DEF NeverBusy
    <3>3. \A d \in Range(pending') :
             \/ d \in Range(pending)
             \/ \E when \in profile.delays : d.due_ms <= now_ms + when + 1
      <4>1. /\ Delivery(now_ms + delay, Frame(best)).due_ms <= now_ms + delay + 1
            /\ Delivery(now_ms + delay + 1, Frame(best)).due_ms <= now_ms + delay + 1
        BY <1>2, NowIsAnInstant, ChannelAssumption DEF Delivery, TypeOK
      <4> QED
        BY <2>3, <4>1
    <3>4. CASE NeverBusy
      BY <1>1, <1>2, <1>3, <2>1, <2>4, <3>1, <3>3, <3>4, TurnTaken
    <3> QED
      BY <3>2, <3>4 DEF TimeInv
  <2> QED
    BY <2>5, <2>6, <2>7, <2>8
<1>9. ASSUME NEW best \in queue, TransmitBusy(now_ms, best), ChannelBusy(Frame(best)),
             UNCHANGED sent
      PROVE  PlaceInv' /\ AttemptsInv' /\ SevereInv' /\ TimeInv'
  <2>1. /\ UNCHANGED <<queue, dropped_events, pending, profile, sent>>
        /\ TRUE \in Hit(profile.channel_busy_percent)
    BY <1>9 DEF TransmitBusy, Attempts, ChannelBusy, channelVars
  <2>2. PICK when \in Backoff(now_ms) :
           retry' = [retry EXCEPT ![best.id].next_attempt_ms = when]
    BY <1>9 DEF TransmitBusy
  <2>3. Settles
    BY <1>4, <2>1, SameFlies DEF Settles
  <2>4. PlaceInv'
    BY <1>1, <1>2, <1>4, <2>3, PlaceSettles
  <2>5. /\ retry'[1].loss_attempts = retry[1].loss_attempts
        /\ retry'[2].loss_attempts = retry[2].loss_attempts
    BY <1>2, <2>2, IdsOfTheLab DEF TypeOK, RetryState
  <2>6. AttemptsInv'
    BY <1>2, <2>1, <2>5 DEF AttemptsInv, Lossless
  <2>7. SevereInv'
    <3>1. dropped_events' = dropped_events \cup (queue \ queue')
      BY <2>1
    <3>2. Range(pending) \subseteq Range(pending')
      BY <2>1
    <3> QED
      BY <1>1, <1>2, <1>4, <2>1, <3>1, <3>2, LeadKeptUnsent
  <2>8. TimeInv'
    BY <2>1, NoHitOfZero DEF TimeInv, NeverBusy
  <2> QED
    BY <2>4, <2>6, <2>7, <2>8
<1>10. ASSUME NEW best \in queue, TransmitLost(now_ms, best), ChannelLost(now_ms, Frame(best)),
              UNCHANGED sent
       PROVE  PlaceInv' /\ AttemptsInv' /\ SevereInv' /\ TimeInv'
  <2>1. UNCHANGED <<queue, dropped_events, sent>>
    BY <1>10 DEF TransmitLost, Attempts
  <2>2. now_ms \in Times /\ Corrupt(Frame(best)) \in Frames
    BY <1>2, NowIsAnInstant, FrameTypes
  <2>3. /\ profile' = profile
        /\ \/ pending' = pending
           \/ \E delay \in profile.delays :
                 Range(pending') = Range(pending)
                    \cup {Delivery(now_ms + delay, Corrupt(Frame(best)))}
    BY <1>2, <1>10, <2>2, LostDeliveries
  <2>4. Flying' = Flying \/ Flying' = Flying \cup {Corrupt(Frame(best))}
    BY <1>2, <1>4, <1>10, <2>2, TransmitFlies
  <2>5. Settles
    BY <1>2, <1>4, <2>1, <2>4, QueuedFrame DEF Settles
  <2>6. PlaceInv'
    BY <1>1, <1>2, <1>4, <2>5, PlaceSettles
  <2>7. AttemptsInv'
    BY <1>2, <1>10, <2>3, LostAttempt, LossyChannel DEF AttemptsInv, Lossless
  <2>8. SevereInv'
    <3>1. dropped_events' = dropped_events \cup (queue \ queue')
      BY <2>1
    <3>2. Range(pending) \subseteq Range(pending')
      BY <2>3
    <3> QED
      BY <1>1, <1>2, <1>4, <2>1, <2>3, <3>1, <3>2, LeadKeptUnsent
  <2>9. TimeInv'
    <3>1. NeverBusy' <=> NeverBusy
      BY <2>3 DEF NeverBusy
    <3>2. \A d \in Range(pending') :
             \/ d \in Range(pending)
             \/ \E delay \in profile.delays : d.due_ms <= now_ms + delay + 1
      <4>1. \A delay \in profile.delays :
               Delivery(now_ms + delay, Corrupt(Frame(best))).due_ms <= now_ms + delay + 1
        BY <1>2, NowIsAnInstant, ChannelAssumption DEF Delivery, TypeOK
      <4> QED
        BY <2>3, <4>1
    <3>3. CASE NeverBusy
      BY <1>1, <1>2, <1>3, <1>10, <2>1, <2>3, <3>2, <3>3, LostAttempt, TurnTaken
    <3> QED
      BY <3>1, <3>3 DEF TimeInv
  <2> QED
    BY <2>6, <2>7, <2>8, <2>9
<1> QED
  BY <1>1, <1>6, <1>7, <1>8, <1>9, <1>10 DEF NodeATransmits

-----------------------------------------------------------------------------
(* The main loop: the channel drains *)

(* What is due comes to NodeB, and the rest stays on air.                   *)
LEMMA Drained ==
  ASSUME TypeOK, NEW t, ChannelDrains(t)
  PROVE  /\ Range(pending') = {d \in Range(pending) : ~(d.due_ms <= t)}
         /\ Range(inbox') = {d.frame : d \in {e \in Range(pending) : e.due_ms <= t}}
<1>1. pending \in Seq(Deliveries) /\ Drain(t) /\ inbox' = Ready(t)
  BY DEF TypeOK, Deliveries, ChannelDrains
<1> QED
  BY <1>1, DrainParts

LEMMA LeadKeptDrained ==
  ASSUME PlaceInv, SevereInv, TypeOK, PlanInv, Stage >= 2, Stage' = Stage,
         phase = "drain", phase' = "receive", ChannelDrains(now_ms), UNCHANGED step
  PROVE  SevereInv'
<1>1. UNCHANGED <<queue, dropped_events, sent, b_seen_lora, routes, profile>>
  BY DEF ChannelDrains, Drain, nodeVars, historyVars
<1> SUFFICES ASSUME Swift, 2 \notin Lost
             PROVE  \/ 2 \in IdsOf(queue) /\ 1 \notin sent
                    \/ 2 \in sent /\ 2 \notin b_seen_lora /\ 1 \notin b_seen_lora /\ Ahead'
                    \/ 2 \in b_seen_lora /\ InOrder
  BY <1>1 DEF SevereInv, Swift, Lost, InOrder
<1>2. CASE 2 \in sent /\ 2 \notin b_seen_lora /\ 1 \notin b_seen_lora /\ Ahead
  <2>1. /\ \A d \in Range(pending) : d \in Range(pending') \/ d.frame \in Range(inbox')
        /\ \A d \in Range(pending) : d.due_ms <= now_ms => d.frame \in Range(inbox')
        /\ \A f \in Range(inbox') :
              \E d \in Range(pending) : d.frame = f /\ d.due_ms <= now_ms
    BY <1>1, Drained
  <2>2. now_ms' = now_ms
    BY DEF now_ms
  <2>3. CASE 1 \notin sent /\ SosDueBy(now_ms + STEP_MS)
    <3>1. PICK d \in Range(pending) :
             ~d.frame.corrupted /\ d.frame.raw.event_id = 2 /\ d.due_ms <= now_ms + STEP_MS
      BY <2>3 DEF SosDueBy
    <3>2. CASE d \in Range(pending')
      <4>1. SosDueBy(now_ms + STEP_MS)'
        BY <2>2, <3>1, <3>2 DEF SosDueBy
      <4>2. Ahead'
        BY <1>1, <2>3, <4>1 DEF Ahead
      <4> QED
        BY <1>2, <4>2
    <3>3. CASE d.frame \in Range(inbox')
      <4>1. 2 \in IntactIds(Range(inbox'))
        BY <3>1, <3>3 DEF IntactIds
      <4>2. 1 \notin IntactIds(Flying)
        BY <2>3 DEF PlaceInv
      <4>3. Range(inbox') \subseteq Flying
        BY <2>1 DEF Flying
      <4>4. 1 \notin IntactIds(Range(inbox'))
        BY <4>2, <4>3 DEF IntactIds
      <4> QED
        BY <1>2, <4>1, <4>4 DEF Ahead
    <3> QED
      BY <1>2, <2>1, <3>2, <3>3
  <2>4. CASE SosDueBy(now_ms) /\ PresenceDueAfter(now_ms)
    <3>1. 2 \in IntactIds(Range(inbox'))
      BY <2>1, <2>4 DEF SosDueBy, IntactIds
    <3>2. ASSUME NEW f \in Range(inbox'), ~f.corrupted
          PROVE  f.raw.event_id # 1
      <4>1. PICK d \in Range(pending) : d.frame = f /\ d.due_ms <= now_ms
        BY <2>1
      <4>2. d.due_ms \in Nat /\ now_ms \in Nat
        BY DueIsNat, NowIsAnInstant
      <4> QED
        BY <2>4, <3>2, <4>1, <4>2 DEF PresenceDueAfter
    <3>3. 1 \notin IntactIds(Range(inbox'))
      BY <3>2 DEF IntactIds
    <3> QED
      BY <1>2, <3>1, <3>3 DEF Ahead
  <2> QED
    BY <1>2, <2>3, <2>4 DEF Ahead
<1> QED
  BY <1>2 DEF SevereInv

LEMMA DrainStep ==
  ASSUME MainInv, PlanInv, Main, DrainAir
  PROVE  MainInv'
<1>1. /\ Stage = 2 /\ Stage' = 2 /\ phase = "drain" /\ phase' = "receive"
      /\ UNCHANGED <<run, step, table>> /\ ChannelDrains(now_ms)
  <2>1. Stage = 2 /\ plan' = plan /\ UNCHANGED <<run, step, table>> /\ phase = "drain"
        /\ phase' = "receive" /\ ChannelDrains(now_ms)
    BY MainCallIs DEF DrainAir, InLoop, ToPhase
  <2>2. Stage' = Stage
    BY <2>1 DEF Stage, Script
  <2> QED
    BY <2>1, <2>2
<1>2. TypeOK /\ FreshInv /\ PlaceInv /\ SinkInv /\ AttemptsInv /\ SevereInv /\ TimeInv
  BY DEF MainInv
<1>3. UNCHANGED <<queue, seen_ble, seen_lora, retry, packet_seq, dropped_events,
                  anon_by_author, profile, b_seen_lora, handed, events, routes, accepted,
                  sent, sent_before, wipes>>
  BY <1>1 DEF ChannelDrains, Drain, nodeVars, historyVars
<1>4. Flying' = Flying /\ pending' \in Seq(Deliveries) /\ inbox' \in Seq(Frames)
  BY <1>1, <1>2, DrainFlies
<1>5. TypeOK'
  BY <1>2, <1>3, <1>4 DEF TypeOK, Deliveries, Translations, AnonIds, Inbounds
<1>6. FreshInv' /\ SinkInv' /\ EndInv' /\ AttemptsInv'
  BY <1>1, <1>2, <1>3 DEF FreshInv, SinkInv, EndInv, CliSink, AttemptsInv, Lossless
<1>7. PlaceInv'
  <2>1. Settles
    BY <1>3, <1>4 DEF Settles
  <2> QED
    BY <1>1, <1>2, <2>1, PlaceSettles
<1>8. SevereInv'
  BY <1>1, <1>2, LeadKeptDrained
<1>9. TimeInv'
  <2>1. /\ Range(pending') = {d \in Range(pending) : ~(d.due_ms <= now_ms)}
        /\ \A d \in Range(pending) : d.due_ms \in Nat
        /\ now_ms \in Nat
    BY <1>1, <1>2, Drained, DueIsNat, NowIsAnInstant
  <2>2. \A d \in Range(pending') : d \in Range(pending) /\ d.due_ms > now_ms
    BY <2>1
  <2>3. /\ Turns' = Turns /\ Wait' = Wait /\ now_ms' = now_ms
        /\ NeverBusy' <=> NeverBusy
    BY <1>1, <1>3 DEF Turns, Gone, IdsOf, Wait, now_ms, NeverBusy
  <2> QED
    BY <1>1, <1>2, <1>3, <2>2, <2>3 DEF TimeInv
<1> QED
  BY <1>5, <1>6, <1>7, <1>8, <1>9 DEF MainInv

-----------------------------------------------------------------------------
(* The main loop: NodeB receives *)

LEMMA LeadKeptHeard ==
  ASSUME PlaceInv, SevereInv, TypeOK, Stage >= 2, Stage' = Stage,
         phase = "receive", phase' = "receive", NEW frame, frame \in Flying,
         Range(inbox) = {frame} \cup Range(inbox'),
         HearsNew(frame) \/ HearsNothing(frame),
         UNCHANGED <<queue, dropped_events, sent, pending, step, profile>>
  PROVE  SevereInv'
<1> SUFFICES ASSUME Swift, 2 \notin Lost
             PROVE  \/ 2 \in IdsOf(queue) /\ 1 \notin sent
                    \/ /\ 2 \in sent /\ 2 \notin b_seen_lora' /\ 1 \notin b_seen_lora'
                       /\ Ahead'
                    \/ 2 \in b_seen_lora' /\ InOrder'
  BY DEF SevereInv, Swift, Lost
<1>1. /\ DOMAIN routes = 1..Len(routes) /\ Len(routes) \in Nat /\ Heard = b_seen_lora
      /\ sent = IntactIds(Flying) \cup b_seen_lora
      /\ ~frame.corrupted => frame.raw.event_id \in {1, 2}
  BY DEF TypeOK, PlaceInv, IsOf
<1>2. CASE 2 \in b_seen_lora /\ InOrder
  <2>1. CASE HearsNew(frame)
    <3>1. /\ DOMAIN routes' = 1..Len(routes') /\ Len(routes') = Len(routes) + 1
          /\ \A k \in DOMAIN routes : routes'[k] = routes[k]
      BY <1>1, <2>1, RouteAdded DEF HearsNew
    <3>2. PICK j \in DOMAIN routes : routes[j].event_id = 2
      BY <1>1, <1>2 DEF Heard
    <3>3. ASSUME NEW k \in DOMAIN routes', routes'[k].event_id = 1
          PROVE  \E i \in 1..k : routes'[i].event_id = 2
      <4>1. CASE k \in DOMAIN routes
        <5>1. PICK i \in 1..k : routes[i].event_id = 2
          BY <1>2, <3>1, <3>3, <4>1 DEF InOrder
        <5>2. i \in DOMAIN routes
          BY <1>1, <4>1, <5>1
        <5> QED
          BY <3>1, <5>1, <5>2
      <4>2. CASE k \notin DOMAIN routes
        <5>1. j \in 1..k
          BY <1>1, <3>1, <4>2
        <5> QED
          BY <3>1, <3>2, <5>1
      <4> QED
        BY <4>1, <4>2
    <3> QED
      BY <1>2, <2>1, <3>3 DEF InOrder, HearsNew
  <2>2. CASE HearsNothing(frame)
    BY <1>2, <2>2 DEF InOrder, HearsNothing
  <2> QED
    BY <2>1, <2>2
<1>3. CASE 2 \in sent /\ 2 \notin b_seen_lora /\ 1 \notin b_seen_lora /\ Ahead
  <2>1. \/ 1 \notin sent /\ SosDueBy(now_ms + STEP_MS)
        \/ 2 \in IntactIds(Range(inbox)) /\ 1 \notin IntactIds(Range(inbox))
    BY <1>3 DEF Ahead
  <2>2. CASE HearsNew(frame)
    <3>1. /\ frame.raw.event_id \in IntactIds(Flying)
          /\ frame.raw.event_id \in IntactIds(Range(inbox))
      BY <2>2 DEF HearsNew, IntactIds
    <3>2. frame.raw.event_id = 2
      BY <1>1, <2>1, <2>2, <3>1 DEF HearsNew
    <3>3. Heard' = Heard \cup {2}
      BY <1>1, <2>2, <3>2, RouteAdded DEF HearsNew
    <3>4. \A k \in DOMAIN routes' : routes'[k].event_id \in Heard'
      BY DEF Heard
    <3>5. InOrder'
      BY <1>1, <1>3, <3>3, <3>4 DEF InOrder
    <3> QED
      BY <2>2, <3>2, <3>5 DEF HearsNew
  <2>3. CASE HearsNothing(frame)
    <3>1. frame.corrupted /\ b_seen_lora' = b_seen_lora
      BY <1>1, <1>3, <2>3 DEF HearsNothing
    <3>2. IntactIds(Range(inbox')) = IntactIds(Range(inbox))
      BY <3>1 DEF IntactIds
    <3>3. now_ms' = now_ms
      BY DEF now_ms
    <3>4. Ahead'
      BY <2>1, <3>2, <3>3 DEF Ahead, SosDueBy
    <3> QED
      BY <1>3, <3>1, <3>4
  <2> QED
    BY <2>2, <2>3
<1> QED
  BY <1>2, <1>3 DEF SevereInv

(* NodeB hears a frame of the loop iff it is intact and new.                *)
LEMMA WhatNodeBHears ==
  ASSUME PlaceInv, TypeOK, PlanInv, phase = "receive", NodeBHears(now_ms, TRUE)
  PROVE  /\ inbox # << >> /\ NodeBTakes
         /\ \/ HearsNew(Head(inbox)) /\ SinkReceives(NodeB!Inbound("NodeB", Head(inbox)))
            \/ HearsNothing(Head(inbox))
<1>1. inbox # << >> /\ NodeBTakes
  BY DEF NodeBHears, NodeBAccepts, NodeBIgnores
<1>2. Head(inbox) \in Flying /\ Head(inbox) \in Frames
  BY <1>1, TakenFlies
<1>3. ~Head(inbox).corrupted =>
         /\ Head(inbox).raw.ttl # 0
         /\ NodeB!Distance(Head(inbox).raw.hlc_ms, now_ms) <= HLC_REPLAY_WINDOW_MS
  <2>1. ASSUME ~Head(inbox).corrupted
        PROVE  /\ Head(inbox).raw.ttl # 0 /\ Head(inbox).raw.hlc_ms <= 1
               /\ Head(inbox).raw.hlc_ms \in Nat
    BY <1>2, <2>1, FiguresAssumption DEF PlaceInv, Frames
  <2>2. now_ms \in Nat /\ now_ms <= HLC_REPLAY_WINDOW_MS
    BY NowIsAnInstant
  <2>3. 1 <= HLC_REPLAY_WINDOW_MS /\ HLC_REPLAY_WINDOW_MS \in Nat
    <3>1. 1 \in Times
      BY InstantsAssumption
    <3> QED
      BY <3>1, FiguresAssumption, NodeAssumption
  <2> QED
    BY <2>1, <2>2, <2>3 DEF NodeB!Distance
<1>4. CASE NodeBAccepts(now_ms) /\ SinkReceives(Handed)
  <2>1. HearsNew(Head(inbox))
    BY <1>4 DEF NodeBAccepts, NodeB!ReceiveAccepted, NodeB!Verified, HearsNew, SinkReceives,
                GatewayReceive, Handed
  <2> QED
    BY <1>1, <1>4, <2>1 DEF Handed
<1>5. CASE NodeBIgnores(now_ms) /\ UNCHANGED <<events, routes>>
  <2>1. ~NodeB!Verified(Head(inbox), now_ms) /\ b_seen_lora' = b_seen_lora
    BY <1>2, <1>5 DEF NodeBIgnores, NodeB!ReceiveIgnored, NodeB!nodeVars, Frames
  <2>2. HearsNothing(Head(inbox))
    BY <1>3, <1>5, <2>1 DEF NodeB!Verified, HearsNothing
  <2> QED
    BY <1>1, <2>2
<1> QED
  BY <1>4, <1>5 DEF NodeBHears

LEMMA ReceiveStep ==
  ASSUME MainInv, PlanInv, Main, Receive
  PROVE  MainInv'
<1> DEFINE frame == Head(inbox)
<1>1. /\ Stage = 2 /\ Stage' = 2 /\ phase = "receive" /\ phase' = "receive"
      /\ UNCHANGED <<run, step, table>> /\ NodeBHears(now_ms, TRUE)
  <2>1. Stage = 2 /\ plan' = plan /\ UNCHANGED <<run, step, table>> /\ phase = "receive"
        /\ phase' = "receive" /\ NodeBHears(now_ms, TRUE)
    BY MainCallIs DEF Receive, InLoop, ToPhase, NodeBHears
  <2>2. Stage' = Stage
    BY <2>1 DEF Stage, Script
  <2> QED
    BY <2>1, <2>2
<1>2. TypeOK /\ FreshInv /\ PlaceInv /\ SinkInv /\ AttemptsInv /\ SevereInv /\ TimeInv
  BY DEF MainInv
<1>3. /\ inbox # << >> /\ NodeBTakes
      /\ \/ HearsNew(frame) /\ SinkReceives(NodeB!Inbound("NodeB", frame))
         \/ HearsNothing(frame)
  BY <1>1, <1>2, WhatNodeBHears
<1>4. /\ frame \in Flying /\ frame \in Frames /\ Flying = {frame} \cup Flying'
      /\ inbox' \in Seq(Frames) /\ Range(inbox) = {frame} \cup Range(inbox')
  <2>1. inbox \in Seq(Frames) /\ inbox' = Tail(inbox)
    BY <1>2, <1>3 DEF TypeOK, NodeBTakes
  <2> QED
    BY <1>2, <1>3, <2>1, TakenFlies, RangeOfTail
<1>5. UNCHANGED <<queue, seen_ble, seen_lora, retry, packet_seq, dropped_events,
                  anon_by_author, profile, pending, handed, accepted, sent, sent_before,
                  wipes>>
  BY <1>1, <1>3 DEF NodeBHears, NodeBTakes, nodeVars, channelVars, historyVars
<1> HIDE DEF frame
<1>6. /\ b_seen_lora' \subseteq Ids
      /\ DOMAIN routes' = 1..Len(routes') /\ Len(routes') \in Nat
      /\ DOMAIN events' = IF CliSink THEN {} ELSE b_seen_lora'
  <2>1. /\ b_seen_lora \subseteq Ids /\ DOMAIN routes = 1..Len(routes) /\ Len(routes) \in Nat
        /\ DOMAIN events = IF CliSink THEN {} ELSE b_seen_lora
    BY <1>1, <1>2 DEF TypeOK, SinkInv
  <2>2. CASE HearsNew(frame) /\ SinkReceives(NodeB!Inbound("NodeB", frame))
    <3>1. DOMAIN routes' = 1..Len(routes') /\ Len(routes') = Len(routes) + 1
      BY <2>1, <2>2, RouteAdded DEF HearsNew
    <3>2. b_seen_lora' = b_seen_lora \cup {frame.raw.event_id} /\ frame.raw.event_id \in Ids
      BY <1>4, <2>2 DEF HearsNew, Frames
    <3>3. CliSink => events' = events
      BY <2>2 DEF SinkReceives
    <3>4. ~CliSink => DOMAIN events' = DOMAIN events \cup {frame.raw.event_id}
      <4>1. PICK inbound : inbound = NodeB!Inbound("NodeB", frame)
        OBVIOUS
      <4>2. inbound.event_id = frame.raw.event_id
        BY <4>1 DEF NodeB!Inbound
      <4>3. ~CliSink => GatewayReceive(inbound)
        BY <2>2, <4>1 DEF SinkReceives
      <4> QED
        BY <4>2, <4>3, StoredRows
    <3>5. DOMAIN events' = IF CliSink THEN {} ELSE b_seen_lora'
      BY <2>1, <3>2, <3>3, <3>4
    <3>6. Len(routes') \in Nat
      BY <2>1, <3>1
    <3> QED
      BY <2>1, <3>1, <3>2, <3>5, <3>6
  <2>3. CASE HearsNothing(frame)
    BY <2>1, <2>3 DEF HearsNothing
  <2> QED
    BY <1>3, <2>2, <2>3
<1>7. TypeOK'
  <2>1. DOMAIN events' \subseteq Ids
    BY <1>6
  <2> QED
    BY <1>2, <1>4, <1>5, <1>6, <2>1 DEF TypeOK, Translations, AnonIds, Inbounds
<1>8. FreshInv' /\ SinkInv' /\ EndInv' /\ AttemptsInv'
  BY <1>1, <1>2, <1>5, <1>6 DEF FreshInv, SinkInv, EndInv, CliSink, AttemptsInv, Lossless
<1>9. PlaceInv'
  BY <1>1, <1>2, <1>3, <1>4, <1>5, PlaceTakes
<1>10. SevereInv'
  BY <1>1, <1>2, <1>3, <1>4, <1>5, LeadKeptHeard
<1>11. TimeInv'
  <2>1. /\ Turns' = Turns /\ Wait' = Wait /\ now_ms' = now_ms
        /\ NeverBusy' <=> NeverBusy
    BY <1>1, <1>5 DEF Turns, Gone, IdsOf, Wait, now_ms, NeverBusy
  <2> QED
    BY <1>1, <1>2, <1>5, <2>1 DEF TimeInv
<1> QED
  BY <1>7, <1>8, <1>9, <1>10, <1>11 DEF MainInv

-----------------------------------------------------------------------------
(* The main loop ends *)

(* At the last step of a channel that is never busy nothing waits, and      *)
(* nothing is on air.                                                       *)
LEMMA StepsAreEnough ==
  ASSUME TypeOK, PlanInv, PlaceInv, AttemptsInv, TimeInv, NeverBusy, Stage = 2,
         phase = "receive", inbox = << >>, step + 1 = run.steps
  PROVE  AllAccepted \subseteq b_seen_lora \cup Lost
<1>1. /\ Turns \in Nat /\ Wait \in Nat /\ STEP_MS \in Nat \ {0} /\ now_ms \in Nat
      /\ LOSS_BUDGET_CRITICAL \in Nat /\ LOSS_BUDGET_DEFAULT \in Nat
  BY TurnsNat, NowIsAnInstant, NodeAssumption
<1>2. PICK T \in Nat : T = Turns * Wait
  BY TurnsNat
<1>3. PICK most \in Nat : most = LOSS_BUDGET_CRITICAL + LOSS_BUDGET_DEFAULT + 2
  BY <1>1
<1>4. PICK B \in Nat : B = most * Wait
  <2>1. \A m, n \in Nat : m * n \in Nat
    OBVIOUS
  <2> QED
    BY <1>1, <2>1
<1>5. Turns <= most
  <2>1. /\ retry[1].loss_attempts <= LOSS_BUDGET_DEFAULT
        /\ retry[2].loss_attempts <= LOSS_BUDGET_CRITICAL
        /\ retry[1].loss_attempts \in Nat /\ retry[2].loss_attempts \in Nat
    BY IdsOfTheLab DEF AttemptsInv, TypeOK, RetryState
  <2>2. Gone(1) \in {0, 1} /\ Gone(2) \in {0, 1}
    BY DEF Gone
  <2> QED
    BY <1>1, <1>3, <2>1, <2>2 DEF Turns
<1>6. T <= B
  <2>1. \A m, n, w \in Nat : m <= n => m * w <= n * w
    OBVIOUS
  <2> QED
    BY <1>1, <1>2, <1>3, <1>4, <1>5, <2>1
<1>7. \A delay \in profile.delays : B + delay + 1 <= now_ms /\ delay \in Nat
  <2>1. run \in Runs /\ run.profile = profile /\ step \in 0..run.steps - 1
        /\ run.steps \in Nat \ {0}
    BY ScenarioAssumption DEF PlanInv
  <2>2. step = run.steps - 1
    BY <2>1
  <2>3. \A delay \in profile.delays : most * Wait + delay + 1 <= (run.steps - 1) * STEP_MS
    BY <1>3, <2>1, FiguresAssumption DEF NeverBusy, Wait
  <2>4. \A delay \in profile.delays : delay \in Nat
    BY ChannelAssumption DEF TypeOK
  <2> QED
    BY <1>4, <2>2, <2>3, <2>4 DEF now_ms
<1>8. PICK delay \in profile.delays : delay \in Nat
  BY <1>7, ChannelAssumption DEF TypeOK
<1>9. queue = {}
  <2>1. queue # {} => now_ms + STEP_MS <= T
    BY <1>2 DEF TimeInv
  <2>2. B + delay + 1 <= now_ms
    BY <1>7, <1>8
  <2> QED
    BY <1>1, <1>6, <1>8, <2>1, <2>2
<1>10. Range(pending) = {}
  <2> SUFFICES ASSUME NEW d \in Range(pending)
               PROVE  FALSE
    OBVIOUS
  <2>1. PICK late \in profile.delays : d.due_ms <= T + late + 1
    BY <1>2 DEF TimeInv
  <2>2. d.due_ms > now_ms /\ d.due_ms \in Nat
    BY DueIsNat DEF TimeInv
  <2>3. B + late + 1 <= now_ms /\ late \in Nat
    BY <1>7
  <2> QED
    BY <1>1, <1>6, <2>1, <2>2, <2>3
<1>11. IntactIds(Flying) = {} /\ IdsOf(queue) = {}
  <2>1. Range(inbox) = {}
    BY DEF Range
  <2>2. Flying = {}
    BY <1>10, <2>1 DEF Flying
  <2> QED
    BY <1>9, <2>2 DEF IntactIds, IdsOf
<1> QED
  BY <1>11 DEF PlaceInv

(* The loop stops early when the sink has both events.                      *)
LEMMA CompleteHasBoth ==
  ASSUME FreshInv, PlaceInv, SinkInv, Stage = 2, Complete
  PROVE  AllAccepted \subseteq b_seen_lora
<1>1. PICK one, two : accepted = {one, two} /\ one.event_id = 1 /\ two.event_id = 2
  BY DEF FreshInv
<1>2. one # two
  BY <1>1
<1>3. Cardinality(accepted) = 2 /\ AllAccepted = {1, 2}
  <2>1. IsFiniteSet({one}) /\ Cardinality({one}) = 1
    BY FS_Singleton
  <2>2. two \notin {one}
    BY <1>2
  <2>3. Cardinality({one} \cup {two}) = 2
    BY <2>1, <2>2, FS_AddElement
  <2>4. {one} \cup {two} = accepted
    BY <1>1
  <2> QED
    BY <1>1, <2>3, <2>4 DEF AllAccepted
<1>4. Cardinality(DOMAIN events) >= 2
  BY <1>3 DEF Complete
<1>5. DOMAIN events # {} /\ \A i : DOMAIN events # {i}
  <2>1. Cardinality({}) = 0 /\ \A i : Cardinality({i}) = 1
    BY FS_EmptySet, FS_Singleton
  <2>2. ~(0 >= 2) /\ ~(1 >= 2)
    OBVIOUS
  <2> QED
    BY <1>4, <2>1, <2>2, Zenon
<1>6. DOMAIN events = b_seen_lora
  BY <1>5 DEF SinkInv
<1>7. b_seen_lora \subseteq {1, 2}
  BY DEF PlaceInv
<1>8. b_seen_lora # {} /\ b_seen_lora # {1} /\ b_seen_lora # {2}
  BY <1>5, <1>6
<1>9. 1 \in b_seen_lora /\ 2 \in b_seen_lora
  BY <1>7, <1>8
<1> QED
  BY <1>3, <1>9

LEMMA EndStepStep ==
  ASSUME MainInv, PlanInv, Main, EndStep
  PROVE  MainInv'
<1>1. /\ Stage = 2 /\ phase = "receive" /\ inbox = << >> /\ plan # << >>
      /\ UNCHANGED <<vars, table, run>>
  BY MainCallIs DEF EndStep, InLoop, Calls
<1>2. TypeOK /\ FreshInv /\ PlaceInv /\ SinkInv /\ AttemptsInv /\ SevereInv /\ TimeInv
  BY DEF MainInv
<1>3. UNCHANGED <<queue, seen_ble, seen_lora, retry, packet_seq, dropped_events,
                  anon_by_author, profile, pending, b_seen_lora, inbox, handed, events,
                  routes, accepted, sent, sent_before, wipes>>
  BY <1>1 DEF vars, nodeVars, channelVars, farVars, historyVars
<1>4. TypeOK'
  BY <1>2, <1>3 DEF TypeOK, Translations, AnonIds, Inbounds
<1>5. Flying' = Flying /\ (Lossless' <=> Lossless) /\ (NeverBusy' <=> NeverBusy)
      /\ (Swift' <=> Swift) /\ Wait' = Wait /\ Lost' = Lost
  BY <1>3, SameFlies DEF Lossless, NeverBusy, Swift, Wait, Lost
<1>6. PlaceInv'
  <2>1. Settles
    BY <1>3, <1>5 DEF Settles
  <2> QED
    BY <1>1, <1>2, <1>3, <2>1, PlaceSettles
<1>7. AttemptsInv'
  BY <1>2, <1>3, <1>5 DEF AttemptsInv
<1>8. CASE (Complete \/ step + 1 = run.steps) /\ plan' = Tail(plan) /\ UNCHANGED <<run, phase, step>>
  <2>1. Stage' = 3
    BY <1>1, <1>3, <1>8, PlanMoves
  <2>2. FreshInv' /\ SinkInv'
    BY <1>1, <1>2, <1>3, <2>1 DEF FreshInv, SinkInv, CliSink
  <2>3. SevereInv'
    <3>1. Ahead' <=> Ahead
      BY <1>1, <1>3, <1>8 DEF Ahead, SosDueBy, now_ms
    <3> QED
      BY <1>1, <1>2, <1>3, <1>5, <2>1, <3>1 DEF SevereInv, InOrder
  <2>4. TimeInv'
    BY <2>1 DEF TimeInv
  <2>5. EndInv'
    <3>1. AllAccepted \subseteq b_seen_lora \cup Lost \/ (~NeverBusy /\ step + 1 = run.steps)
      BY <1>1, <1>2, <1>8, StepsAreEnough, CompleteHasBoth
    <3>2. AllAccepted' = AllAccepted
      BY <1>3 DEF AllAccepted
    <3> QED
      BY <1>3, <1>5, <1>8, <3>1, <3>2 DEF EndInv
  <2> QED
    BY <1>4, <1>6, <1>7, <2>2, <2>3, <2>4, <2>5 DEF MainInv
<1>9. CASE /\ ~(Complete \/ step + 1 = run.steps)
           /\ phase' = "transmit" /\ step' = step + 1 /\ UNCHANGED <<run, plan>>
  <2>1. Stage' = 2
    BY <1>1, <1>9 DEF Stage, Script
  <2>2. FreshInv' /\ SinkInv' /\ EndInv'
    BY <1>1, <1>2, <1>3, <2>1 DEF FreshInv, SinkInv, CliSink, EndInv
  <2>3. now_ms' = now_ms + STEP_MS /\ now_ms \in Nat /\ STEP_MS \in Nat
    <3>1. step \in Nat /\ STEP_MS \in Nat /\ now_ms \in Nat
      BY ScenarioAssumption, NowIsAnInstant DEF PlanInv
    <3>2. \A m, n \in Nat : (m + 1) * n = m * n + n
      OBVIOUS
    <3> QED
      BY <1>9, <3>1, <3>2 DEF now_ms
  <2>4. SevereInv'
    <3>1. Ahead => Ahead'
      <4>1. IntactIds(Range(inbox)) = {}
        BY <1>1 DEF IntactIds, Range
      <4>2. Ahead => 1 \notin sent /\ SosDueBy(now_ms + STEP_MS)
        BY <1>1, <4>1 DEF Ahead
      <4>3. SosDueBy(now_ms + STEP_MS) => SosDueBy(now_ms)'
        BY <1>3, <2>3 DEF SosDueBy
      <4> QED
        BY <1>3, <1>9, <4>2, <4>3 DEF Ahead
    <3> QED
      BY <1>1, <1>2, <1>3, <1>5, <2>1, <3>1 DEF SevereInv, InOrder
  <2>5. TimeInv'
    <3>1. Turns' = Turns
      BY <1>3 DEF Turns, Gone, IdsOf
    <3>2. queue # {} /\ NeverBusy => now_ms' <= Turns * Wait
      BY <1>1, <1>2, <2>3 DEF TimeInv
    <3> QED
      BY <1>1, <1>2, <1>3, <1>5, <1>9, <2>1, <3>1, <3>2 DEF TimeInv
  <2> QED
    BY <1>4, <1>6, <1>7, <2>2, <2>4, <2>5 DEF MainInv
<1> QED
  BY <1>8, <1>9 DEF EndStep

(* The records a GatewayCliSink writes are those of what NodeB handed on.   *)
LEMMA RecordsAreHeard ==
  ASSUME DOMAIN routes = 1..Len(routes), Len(routes) \in Nat
  PROVE  /\ IdsIn(Records) = Heard
         /\ DOMAIN Ingested(table, Records) = DOMAIN table \cup Heard
<1>1. /\ DOMAIN Records = DOMAIN routes
      /\ \A k \in DOMAIN routes : /\ Records[k].frame.event_id = routes[k].event_id
                                  /\ ~Records[k].frame.garbled
  BY DEF Records
<1>2. IdsIn(Records) = Heard
  BY <1>1 DEF IdsIn, Heard
<1> QED
  BY <1>2 DEF Ingested

LEMMA FinalizeStep ==
  ASSUME MainInv, PlanInv, Main, Finalize
  PROVE  MainInv'
<1>1. /\ Stage = 3 /\ plan # << >> /\ plan' = Tail(plan) /\ UNCHANGED <<run, phase, step>>
      /\ UNCHANGED <<nodeVars, channelVars, b_seen_lora, inbox, handed, routes, historyVars>>
  BY MainCallIs DEF Finalize, Done, Calls
<1>2. TypeOK /\ FreshInv /\ PlaceInv /\ SinkInv /\ AttemptsInv /\ SevereInv /\ EndInv
  BY DEF MainInv
<1>3. UNCHANGED <<queue, seen_ble, seen_lora, retry, packet_seq, dropped_events,
                  anon_by_author, profile, pending, b_seen_lora, inbox, handed, routes,
                  accepted, sent, sent_before, wipes>>
  BY <1>1 DEF nodeVars, channelVars, historyVars
<1>4. Stage' = 4
  BY <1>1, <1>3, PlanMoves
<1>5. Flying' = Flying /\ (Lossless' <=> Lossless) /\ (NeverBusy' <=> NeverBusy)
      /\ (Swift' <=> Swift) /\ Lost' = Lost
  BY <1>3, SameFlies DEF Lossless, NeverBusy, Swift, Lost
<1>6. DOMAIN events' = b_seen_lora
  <2>1. /\ DOMAIN routes = 1..Len(routes) /\ Len(routes) \in Nat /\ Heard = b_seen_lora
        /\ table = << >> /\ DOMAIN events = IF CliSink THEN {} ELSE b_seen_lora
    BY <1>1, <1>2 DEF TypeOK, PlaceInv, SinkInv
  <2>2. DOMAIN table = {}
    BY <2>1
  <2>3. CASE CliSink /\ routes # << >>
    BY <2>1, <2>2, <2>3, RecordsAreHeard DEF Finalize
  <2>4. CASE CliSink /\ routes = << >>
    <3>1. Heard = {} /\ events' = events
      BY <2>4 DEF Heard, Finalize
    <3> QED
      BY <2>1, <2>4, <3>1
  <2>5. CASE ~CliSink
    BY <2>1, <2>5 DEF Finalize
  <2> QED
    BY <2>3, <2>4, <2>5
<1>7. TypeOK'
  <2>1. DOMAIN events' \subseteq Ids
    BY <1>2, <1>6 DEF TypeOK
  <2> QED
    BY <1>2, <1>3, <2>1 DEF TypeOK, Translations, AnonIds, Inbounds
<1>8. FreshInv' /\ SinkInv' /\ TimeInv'
  BY <1>2, <1>1, <1>3, <1>4, <1>6 DEF FreshInv, SinkInv, TimeInv, CliSink
<1>9. PlaceInv'
  <2>1. Settles
    BY <1>3, <1>5 DEF Settles
  <2> QED
    BY <1>1, <1>2, <1>3, <2>1, PlaceSettles DEF PlaceInv
<1>10. AttemptsInv'
  BY <1>2, <1>3, <1>5 DEF AttemptsInv
<1>11. SevereInv'
  <2>1. Ahead' <=> Ahead
    BY <1>1, <1>3 DEF Ahead, SosDueBy, PresenceDueAfter, now_ms
  <2> QED
    BY <1>1, <1>2, <1>3, <1>4, <1>5, <2>1 DEF SevereInv, InOrder
<1>12. EndInv'
  <2>1. AllAccepted' = AllAccepted
    BY <1>3 DEF AllAccepted
  <2> QED
    BY <1>1, <1>2, <1>3, <1>4, <1>5, <2>1 DEF EndInv
<1> QED
  BY <1>7, <1>8, <1>9, <1>10, <1>11, <1>12 DEF MainInv

LEMMA MainInit ==
  ASSUME RunInit, Main
  PROVE  MainInv
<1>1. Init /\ Stage = 0 /\ table = << >> /\ phase = "transmit" /\ step = 0
  BY PlanInit DEF RunInit
<1>2. /\ queue = {} /\ seen_ble = {} /\ retry = [i \in Ids |-> NoRetry] /\ dropped_events = {}
      /\ pending = << >> /\ events = << >> /\ routes = << >> /\ b_seen_lora = {}
      /\ inbox = << >> /\ accepted = {} /\ sent = {}
  BY <1>1 DEF Init, NodeInit, ChannelInit, GatewayInit
<1>3. Flying = {} /\ DOMAIN routes = {} /\ DOMAIN events = {}
  BY <1>2 DEF Flying, Range
<1>4. FreshInv
  BY <1>1, <1>2 DEF FreshInv, Fresh
<1>5. PlaceInv
  BY <1>1, <1>2, <1>3 DEF PlaceInv, IntactIds, IdsOf, Lost, AllAccepted, Heard
<1>6. SinkInv
  BY <1>1, <1>2, <1>3 DEF SinkInv
<1>7. AttemptsInv
  <2>1. retry[1].loss_attempts = 0 /\ retry[2].loss_attempts = 0
    BY <1>2, IdsOfTheLab DEF NoRetry
  <2> QED
    BY <1>2, <2>1, NodeAssumption DEF AttemptsInv
<1>8. SevereInv /\ TimeInv /\ EndInv
  BY <1>1 DEF SevereInv, TimeInv, EndInv
<1> QED
  BY <1>1, <1>4, <1>5, <1>6, <1>7, <1>8, InitTypes DEF MainInv

-----------------------------------------------------------------------------
(* The scripts of their own: which call comes when *)

LEMMA SpecialCallNames ==
  ASSUME PlanInv, ~Main
  PROVE  /\ Calls("send") =>
               /\ Stage = 0
               /\ Head(plan) = IF Expires THEN Send(100, ExpiredSos) ELSE Send(0, OnlySos)
         /\ Calls("build") \/ Calls("build storm") => Stage = 1 /\ ~Expires
         /\ Calls("hear") => Stage >= 2 /\ ~Expires /\ at \in 0..300
         /\ Calls("overhear") => Stage >= 3 /\ ~Expires /\ at \in 0..300
         /\ Calls("reboot") => Stage >= 3 /\ ~Expires
         /\ Calls("restart") => Stage >= 3 /\ ~Expires /\ CliSink
         /\ Calls("finalize") => Stage >= 1 /\ (Expires \/ Stage >= 3)
         /\ ~Calls("loop")
         /\ RefusesReplay /\ Stage + 1 = RefusedAt /\ plan # << >> =>
               Calls("hear") \/ Calls("overhear")
         /\ plan # << >> /\ Stage + 1 = Len(Script) => Calls("finalize")
<1>1. Stage \in Nat
  BY PlanHead
<1>2. SUFFICES ASSUME plan # << >>
              PROVE  /\ Calls("send") =>
                           /\ Stage = 0
                           /\ Head(plan) = IF Expires THEN Send(100, ExpiredSos)
                                                      ELSE Send(0, OnlySos)
                     /\ Calls("build") \/ Calls("build storm") => Stage = 1 /\ ~Expires
                     /\ Calls("hear") => Stage >= 2 /\ ~Expires /\ at \in 0..300
                     /\ Calls("overhear") => Stage >= 3 /\ ~Expires /\ at \in 0..300
                     /\ Calls("reboot") => Stage >= 3 /\ ~Expires
                     /\ Calls("restart") => Stage >= 3 /\ ~Expires /\ CliSink
                     /\ Calls("finalize") => Stage >= 1 /\ (Expires \/ Stage >= 3)
                     /\ ~Calls("loop")
                     /\ RefusesReplay /\ Stage + 1 = RefusedAt =>
                           Calls("hear") \/ Calls("overhear")
                     /\ Stage + 1 = Len(Script) => Calls("finalize")
  BY DEF Calls
<1>3. \A what : Calls(what) <=> Head(plan).call = what
  BY <1>2 DEF Calls
<1>4. Stage = 0 => /\ Head(plan).call = "send"
                   /\ Head(plan) = IF Expires THEN Send(100, ExpiredSos) ELSE Send(0, OnlySos)
  <2>1. Stage = 0 => Head(plan) = IF Expires THEN Send(100, ExpiredSos) ELSE Send(0, OnlySos)
    BY <1>2, SpecialCallIs
  <2>2. Send(100, ExpiredSos).call = "send" /\ Send(0, OnlySos).call = "send"
    BY DEF Send
  <2> QED
    BY <2>1, <2>2, Zenon
<1>5. Stage = 1 /\ ~Expires => Head(plan).call \in {"build", "build storm"}
  BY <1>2, SpecialCallIs, CallFields
<1>6. Stage = 2 => Head(plan).call = "hear" /\ ~Expires
  <2>1. Call("hear", 100).call = "hear"
    BY DEF Call
  <2> QED
    BY <1>2, <2>1, SpecialCallIs, Zenon
<1>7. Stage >= 2 => Head(plan).call \in AfterBuild /\ at \in 0..300
  BY <1>2, SpecialCallIs, CallFields DEF at
<1>8. Expires /\ Stage > 0 => Head(plan).call = "finalize"
  <2>1. Expires /\ Stage > 0 => Head(plan).call \in {"finalize"}
    BY <1>2, SpecialCallIs, CallFields
  <2> QED
    BY <2>1
<1>9. RefusesReplay /\ Stage + 1 = RefusedAt => Calls("hear") \/ Calls("overhear")
  <2>1. RefusesReplay /\ Stage + 1 = RefusedAt => Head(plan).call \in {"hear", "overhear"}
    BY <1>2, SpecialCallIs, CallFields
  <2> QED
    BY <1>3, <2>1
<1>10. Stage + 1 = Len(Script) => Calls("finalize")
  <2>1. Script[Len(Script)] \in AnyCall({"finalize"}) /\ Head(plan) = Script[Stage + 1]
    BY <1>2, ScriptIsASequence, PlanHead DEF PlanInv
  <2>2. Stage + 1 = Len(Script) => Head(plan).call \in {"finalize"}
    BY <2>1, CallFields
  <2> QED
    BY <1>3, <2>2
<1>11. AfterBuild \subseteq {"hear", "overhear", "reboot", "finalize", "restart"}
  BY DEF AfterBuild
<1>12. "restart" \in AfterBuild => CliSink
  BY DEF AfterBuild, CliSink
<1>13. Stage = 0 \/ Stage = 1 \/ Stage = 2 \/ Stage >= 3
  BY <1>1
<1>14. CASE Stage = 0
  <2>1. Head(plan).call = "send"
    BY <1>4, <1>14
  <2> QED
    BY <1>3, <1>4, <1>9, <1>10, <1>14, <2>1
<1>15. CASE Stage # 0 /\ Expires
  <2>1. Head(plan).call = "finalize" /\ Stage >= 1
    BY <1>1, <1>8, <1>15
  <2> QED
    BY <1>3, <1>9, <1>10, <1>15, <2>1
<1>16. CASE Stage = 1 /\ ~Expires
  <2>1. Head(plan).call = "build" \/ Head(plan).call = "build storm"
    BY <1>5, <1>16
  <2> QED
    BY <1>3, <1>9, <1>10, <1>16, <2>1
<1>17. CASE Stage = 2
  <2>1. Head(plan).call = "hear" /\ at \in 0..300 /\ ~Expires /\ Stage >= 2
    BY <1>6, <1>7, <1>17
  <2> QED
    BY <1>3, <1>9, <1>10, <2>1
<1>18. CASE Stage >= 3 /\ ~Expires
  <2>1. Head(plan).call \in AfterBuild /\ at \in 0..300 /\ Stage >= 2 /\ Stage >= 1
    BY <1>1, <1>7, <1>18
  <2> QED
    BY <1>3, <1>9, <1>10, <1>11, <1>12, <1>18, <2>1
<1> QED
  BY <1>13, <1>14, <1>15, <1>16, <1>17, <1>18, Zenon

-----------------------------------------------------------------------------
(* The plan is followed *)

LEMMA CallMoves ==
  ASSUME PlanInv, NEW what, Calls(what), Done, UNCHANGED profile
  PROVE  PlanInv' /\ Stage' = Stage + 1 /\ Script' = Script /\ (Main' <=> Main)
BY PlanMoves DEF Calls, Done

LEMMA LoopMoves ==
  ASSUME PlanInv, UNCHANGED <<run, plan, step, profile>>,
         phase' \in {"transmit", "drain", "receive"}
  PROVE  PlanInv' /\ Script' = Script /\ (Main' <=> Main)
<1>1. Stage' = Stage /\ Script' = Script /\ (Main' <=> Main)
  BY PlanStays
<1> QED
  BY <1>1 DEF PlanInv

LEMMA EndStepMoves ==
  ASSUME PlanInv, EndStep
  PROVE  PlanInv' /\ Script' = Script /\ (Main' <=> Main)
<1>1. UNCHANGED <<run, profile>> /\ plan # << >>
  BY DEF EndStep, InLoop, Calls, vars, channelVars
<1>2. CASE plan' = Tail(plan) /\ UNCHANGED <<run, phase, step>>
  BY <1>1, <1>2, PlanMoves
<1>3. CASE phase' = "transmit" /\ step' = step + 1 /\ UNCHANGED plan /\ step + 1 # run.steps
  <2>1. Stage' = Stage /\ Script' = Script /\ (Main' <=> Main)
    BY <1>1, <1>3, PlanStays
  <2>2. run.steps \in Nat /\ step \in 0..run.steps - 1
    BY ScenarioAssumption DEF PlanInv
  <2>3. step' \in 0..run'.steps - 1
    BY <1>1, <1>3, <2>2
  <2> QED
    BY <1>1, <1>3, <2>1, <2>3 DEF PlanInv
<1> QED
  BY <1>2, <1>3 DEF EndStep

LEMMA PlanStep ==
  ASSUME PlanInv, [RunNext]_runVars
  PROVE  PlanInv' /\ Script' = Script /\ (Main' <=> Main)
<1>1. CASE Ingest
  BY <1>1, CallMoves DEF Ingest, PhoneSends, channelVars
<1>2. CASE Build
  BY <1>2, CallMoves DEF Build, channelVars
<1>3. CASE BuildStorm
  BY <1>3, CallMoves DEF BuildStorm, channelVars
<1>4. CASE Hear
  BY <1>4, CallMoves DEF Hear, NodeBHears, NodeBAccepts, NodeBIgnores, NodeBTakes, channelVars
<1>5. CASE Overhear
  BY <1>5, CallMoves DEF Overhear, NodeBHears, NodeBAccepts, NodeBIgnores, NodeBTakes, channelVars
<1>6. CASE RebootB
  BY <1>6, CallMoves DEF RebootB, NodeBReboots, channelVars
<1>7. CASE Transmit
  <2>1. UNCHANGED profile
    BY <1>7 DEF Transmit, NodeATransmits, ChannelSent, ChannelBusy, ChannelLost, channelVars
  <2> QED
    BY <1>7, <2>1, LoopMoves DEF Transmit, ToPhase
<1>8. CASE DrainAir
  BY <1>8, LoopMoves DEF DrainAir, ToPhase, ChannelDrains, Drain
<1>9. CASE Receive
  BY <1>9, LoopMoves DEF Receive, ToPhase, NodeBHears, NodeBAccepts, NodeBIgnores, NodeBTakes,
                         channelVars
<1>10. CASE EndStep
  BY <1>10, EndStepMoves
<1>11. CASE Finalize
  BY <1>11, CallMoves DEF Finalize, channelVars
<1>12. CASE SinkRestarts
  BY <1>12, CallMoves DEF SinkRestarts, channelVars
<1>13. CASE UNCHANGED runVars
  <2>1. phase \in {"transmit", "drain", "receive"}
    BY DEF PlanInv
  <2> QED
    BY <1>13, <2>1, LoopMoves DEF runVars, driverVars, vars, channelVars
<1> QED
  BY <1>1, <1>2, <1>3, <1>4, <1>5, <1>6, <1>7, <1>8, <1>9, <1>10, <1>11, <1>12, <1>13
     DEF RunNext

(* A call of the main loop's scenarios, whatever it is, keeps their         *)
(* invariant.                                                               *)
LEMMA MainStep ==
  ASSUME MainInv, PlanInv, Main, [RunNext]_runVars
  PROVE  MainInv'
<1>1. \A what : Calls(what) => what \in {"send", "loop", "finalize"}
  BY MainCallIs
<1>2. CASE Ingest
  <2>1. Send(1, PhonePresence).at = 1 /\ Send(1, PhonePresence).env = PhonePresence
    BY DEF Send
  <2>2. Send(1, SecondSos).at = 1 /\ Send(1, SecondSos).env = SecondSos
    BY DEF Send
  <2>3. UNCHANGED profile
    BY <1>2 DEF Ingest, PhoneSends, channelVars
  <2>4. Stage' = Stage + 1
    BY <1>2, <2>3, CallMoves DEF Ingest
  <2>5. PhoneSends(at, Head(plan).env) /\ UNCHANGED <<run, phase, step, table>> /\ Calls("send")
    BY <1>2 DEF Ingest, Done
  <2>6. CASE Stage = 0 /\ Head(plan) = Send(1, PhonePresence)
    <3>1. PhoneSends(1, PhonePresence) /\ Stage' = 1
      BY <2>1, <2>4, <2>5, <2>6 DEF at
    <3> QED
      BY <2>5, <2>6, <3>1, SendStep
  <2>7. CASE Stage = 1 /\ Head(plan) = Send(1, SecondSos)
    <3>1. PhoneSends(1, SecondSos) /\ Stage' = 2
      BY <2>2, <2>4, <2>5, <2>7 DEF at
    <3> QED
      BY <2>5, <2>7, <3>1, SendStep
  <2> QED
    BY <2>5, <2>6, <2>7, MainCallIs
<1>3. CASE Transmit
  BY <1>3, TransmitStep
<1>4. CASE DrainAir
  BY <1>4, DrainStep
<1>5. CASE Receive
  BY <1>5, ReceiveStep
<1>6. CASE EndStep
  BY <1>6, EndStepStep
<1>7. CASE Finalize
  BY <1>7, FinalizeStep
<1>8. CASE Build \/ BuildStorm \/ Hear \/ Overhear \/ RebootB \/ SinkRestarts
  <2>1. \/ Calls("build") \/ Calls("build storm") \/ Calls("hear") \/ Calls("overhear")
        \/ Calls("reboot") \/ Calls("restart")
    BY <1>8 DEF Build, BuildStorm, Hear, Overhear, RebootB, SinkRestarts
  <2>2. /\ "build" \notin {"send", "loop", "finalize"}
        /\ "build storm" \notin {"send", "loop", "finalize"}
        /\ "hear" \notin {"send", "loop", "finalize"}
        /\ "overhear" \notin {"send", "loop", "finalize"}
        /\ "reboot" \notin {"send", "loop", "finalize"}
        /\ "restart" \notin {"send", "loop", "finalize"}
    OBVIOUS
  <2> QED
    BY <1>1, <2>1, <2>2, Zenon
<1>9. CASE UNCHANGED runVars
  <2>1. /\ UNCHANGED <<queue, seen_ble, seen_lora, retry, packet_seq, dropped_events,
                       anon_by_author>>
        /\ UNCHANGED <<profile, pending, b_seen_lora, inbox, handed, events, routes>>
        /\ UNCHANGED <<accepted, sent, sent_before, wipes>>
        /\ UNCHANGED <<run, plan, phase, step, table, reasons>>
    BY <1>9 DEF runVars, driverVars, vars, nodeVars, channelVars, farVars, historyVars
  <2>2. Stage' = Stage
    BY <2>1, PlanStays
  <2>3. TypeOK'
    BY <2>1 DEF MainInv, TypeOK
  <2>4. FreshInv'
    BY <2>1, <2>2 DEF MainInv, FreshInv, Fresh
  <2>5. PlaceInv'
    <3>1. UNCHANGED <<Lost, AllAccepted, Heard, Flying>>
      BY <2>1 DEF IdsOf, Lost, AllAccepted, Heard, Flying
    <3>2. IntactIds(Flying)' = IntactIds(Flying) /\ IdsOf(queue)' = IdsOf(queue)
      BY <2>1, <3>1, Zenon DEF IntactIds, IdsOf
    <3>3. PlaceInv
      BY DEF MainInv
    <3> QED
      BY <2>1, <3>1, <3>2, <3>3 DEF PlaceInv
  <2>6. SinkInv' /\ AttemptsInv'
    BY <2>1, <2>2 DEF MainInv, SinkInv, AttemptsInv, CliSink, Lossless
  <2>7. SevereInv'
    BY <2>1, <2>2 DEF MainInv, SevereInv, Swift, Lost, Ahead, InOrder, SosDueBy,
                      PresenceDueAfter, now_ms, IntactIds, IdsOf
  <2>8. TimeInv'
    BY <2>1, <2>2 DEF MainInv, TimeInv, NeverBusy, Turns, Gone, IdsOf, now_ms
  <2>9. EndInv'
    BY <2>1, <2>2 DEF MainInv, EndInv, NeverBusy, AllAccepted, Lost
  <2> QED
    BY <2>3, <2>4, <2>5, <2>6, <2>7, <2>8, <2>9 DEF MainInv
<1> QED
  BY <1>2, <1>3, <1>4, <1>5, <1>6, <1>7, <1>8, <1>9 DEF RunNext

-----------------------------------------------------------------------------
(* The scripts of their own: what stays as it was *)

LEMMA SosQueuedKept ==
  ASSUME SosQueued, Stage \in Nat \ {0}, Stage' = Stage + 1,
         UNCHANGED <<run, queue, accepted>>, reasons \subseteq reasons'
  PROVE  SosQueued'
<1>1. (Expires' <=> Expires) /\ Stage' # 0 /\ Stage > 0
  BY DEF Expires
<1> QED
  BY <1>1 DEF SosQueued

LEMMA SosHeardKept ==
  ASSUME SosHeard, Stage \in Nat, Stage' = Stage + 1, Stage # 2 \/ Expires,
         UNCHANGED <<run, b_seen_lora, routes>>,
         \E frames : inbox' \in Seq(frames) /\ \A f \in frames : IsSosFrame(f)
  PROVE  SosHeard'
<1>1. (Expires' <=> Expires) /\ (Stage' >= 3 /\ ~Expires <=> Stage >= 3 /\ ~Expires)
  BY DEF Expires
<1> QED
  BY <1>1 DEF SosHeard

LEMMA InboxKept ==
  ASSUME SosHeard, UNCHANGED inbox
  PROVE  \E frames : inbox' \in Seq(frames) /\ \A f \in frames : IsSosFrame(f)
BY DEF SosHeard

LEMMA SosShownKept ==
  ASSUME SosShown, UNCHANGED <<run, events, table, b_seen_lora>>, ~Over'
  PROVE  SosShown'
<1>1. (CliSink' <=> CliSink) /\ (Expires' <=> Expires)
  BY DEF CliSink, Expires
<1> QED
  BY <1>1 DEF SosShown

LEMMA ReplayRefusedKept ==
  ASSUME ReplayRefused, Stage \in Nat, Stage' = Stage + 1, UNCHANGED run,
         reasons \subseteq reasons',
         RefusesReplay /\ Stage + 1 = RefusedAt => "replay-duplicate" \in reasons'
  PROVE  ReplayRefused'
<1>1. (RefusesReplay' <=> RefusesReplay) /\ RefusedAt' = RefusedAt /\ RefusedAt \in Nat
  BY DEF RefusesReplay, RefusedAt
<1> QED
  BY <1>1 DEF ReplayRefused

LEMMA PlanEnds ==
  PlanInv => (plan = << >> <=> Stage = Len(Script))
BY PlanHead

(* A run is over only when the last call, finalize, was made.               *)
LEMMA NotOver ==
  ASSUME PlanInv, ~Main, NEW what, Calls(what), what # "finalize", Done, UNCHANGED profile
  PROVE  /\ Stage' = Stage + 1 /\ Stage \in Nat /\ ~Over' /\ plan # << >>
         /\ (Main' <=> Main)
<1>1. plan # << >> /\ ~Calls("finalize")
  BY DEF Calls
<1>2. PlanInv' /\ Stage' = Stage + 1 /\ Script' = Script /\ (Main' <=> Main)
  BY CallMoves
<1>3. Stage + 1 # Len(Script)
  BY <1>1, SpecialCallNames
<1>4. (PlanInv => (plan = << >> <=> Stage = Len(Script)))'
  BY PlanEnds, PTL
<1> QED
  BY <1>1, <1>2, <1>3, <1>4, PlanHead DEF Over

-----------------------------------------------------------------------------
(* The scripts of their own: the phone sends, and the frames are made *)

LEMMA SpecialInit ==
  ASSUME RunInit, ~Main
  PROVE  SpecialInv
<1>1. /\ queue = {} /\ seen_ble = {} /\ anon_by_author = [a \in Authors |-> ZeroAnon]
      /\ b_seen_lora = {} /\ inbox = << >> /\ accepted = {}
      /\ events = << >> /\ routes = << >> /\ table = << >>
  BY DEF RunInit, Init, NodeInit, GatewayInit
<1>2. Stage = 0 /\ plan # << >>
  <2>1. PlanInv /\ Stage = 0
    BY PlanInit
  <2>2. Len(Script) # 0
    BY <2>1, ScriptIsASequence DEF PlanInv
  <2> QED
    BY <2>1, <2>2, PlanHead
<1>3. SosQueued
  BY <1>1, <1>2 DEF SosQueued
<1>4. SosHeard
  <2>1. inbox \in Seq({})
    BY <1>1
  <2> QED
    BY <1>1, <1>2, <2>1 DEF SosHeard
<1>5. SosShown
  BY <1>1, <1>2 DEF SosShown, Over
<1>6. ReplayRefused
  BY <1>2 DEF ReplayRefused, RefusedAt
<1> QED
  BY <1>3, <1>4, <1>5, <1>6 DEF SpecialInv

LEMMA SpecialIngest ==
  ASSUME SpecialInv, PlanInv, ~Main, Ingest
  PROVE  SpecialInv'
<1>1. SosQueued /\ SosHeard /\ SosShown /\ ReplayRefused
  BY DEF SpecialInv
<1>2. /\ Stage = 0 /\ Calls("send") /\ UNCHANGED <<run, table, profile>>
      /\ UNCHANGED <<b_seen_lora, inbox, events, routes>>
      /\ Head(plan) = IF Expires THEN Send(100, ExpiredSos) ELSE Send(0, OnlySos)
  BY SpecialCallNames DEF Ingest, Done, PhoneSends, farVars, channelVars
<1>3. Stage' = 1 /\ Stage \in Nat /\ ~Over'
  BY <1>2, NotOver DEF Ingest
<1>4. PhoneSends(at, Head(plan).env) /\ Refusal("envelope-expired", Head(plan).env.expires_ms < at)
  BY DEF Ingest
<1>5. reasons \subseteq reasons'
  BY <1>4 DEF Refusal
<1>6. queue = {} /\ seen_ble = {} /\ accepted = {} /\ anon_by_author = [a \in Authors |-> ZeroAnon]
  BY <1>1, <1>2 DEF SosQueued
<1>7. SosQueued'
  <2>1. CASE ~Expires
    <3>1. PhoneSends(0, OnlySos)
      <4>1. Send(0, OnlySos).at = 0 /\ Send(0, OnlySos).env = OnlySos
        BY DEF Send
      <4> QED
        BY <1>2, <1>4, <2>1, <4>1 DEF at
    <3>2. OnlySos.id \notin seen_ble /\ ~(Cardinality(queue) >= max_queue_size)
      <4>1. Cardinality({}) = 0
        BY FS_EmptySet, Zenon
      <4> QED
        BY <1>6, <4>1, NodeAssumption, FiguresAssumption
    <3>3. queue' = queue \cup {Queued(OnlySos)} /\ accepted' = accepted \cup {RowOf(Queued(OnlySos))}
      BY <3>1, <3>2, Accepted
    <3>4. Queued(OnlySos) = TheSos
      <4>1. OnlySos.author \in Authors
        BY BuiltFields, EnvelopesAssumption DEF Envelope
      <4>2. ~Announces(OnlySos)
        BY DEF Announces, OnlySos, Built
      <4> QED
        BY <1>6, <4>1, <4>2 DEF Queued, TheSos, Anon8
    <3>5. queue' = {TheSos} /\ accepted' = {RowOf(TheSos)} /\ ~Expires' /\ Stage' # 0
      BY <1>2, <1>3, <1>6, <2>1, <3>3, <3>4 DEF Expires
    <3> QED
      BY <3>5 DEF SosQueued
  <2>2. CASE Expires
    <3>1. PhoneSends(100, ExpiredSos) /\ ExpiredSos.expires_ms = 99 /\ at = 100
          /\ Head(plan).env = ExpiredSos
      <4>1. Send(100, ExpiredSos).at = 100 /\ Send(100, ExpiredSos).env = ExpiredSos
        BY DEF Send
      <4>2. ExpiredSos.expires_ms = 99
        BY DEF ExpiredSos, Built
      <4> QED
        BY <1>2, <1>4, <2>2, <4>1, <4>2 DEF at
    <3>2. ~Admissible(100, ExpiredSos)
      BY <3>1 DEF Admissible
    <3>3. UNCHANGED <<queue, accepted>>
      BY <3>1, <3>2 DEF PhoneSends, IngestAccepted, IngestUntranslatable, IngestRefused, nodeVars
    <3>4. "envelope-expired" \in reasons'
      BY <1>4, <3>1 DEF Refusal
    <3>5. Expires' /\ Stage' # 0
      BY <1>2, <1>3, <2>2 DEF Expires
    <3> QED
      BY <1>6, <3>3, <3>4, <3>5 DEF SosQueued
  <2> QED
    BY <2>1, <2>2
<1>8. SosHeard'
  <2>1. \E frames : inbox' \in Seq(frames) /\ \A f \in frames : IsSosFrame(f)
    BY <1>1, <1>2, InboxKept
  <2> QED
    BY <1>1, <1>2, <1>3, <2>1, SosHeardKept
<1>9. SosShown'
  BY <1>1, <1>2, <1>3, SosShownKept
<1>10. ReplayRefused'
  <2>1. Stage + 1 # RefusedAt
    BY <1>2 DEF RefusedAt
  <2> QED
    BY <1>1, <1>2, <1>3, <1>5, <2>1, ReplayRefusedKept
<1> QED
  BY <1>7, <1>8, <1>9, <1>10 DEF SpecialInv

(* The frames of the SOS, straight from NodeA or from a relay of the storm. *)
LEMMA SosFrames ==
  /\ IsSosFrame(Frame(TheSos))
  /\ \A src, seq : IsSosFrame([Frame(TheSos) EXCEPT !.src = src, !.ttl = 5, !.raw.ttl = 5,
                                     !.packet_seq = seq, !.raw.packet_seq = seq])
<1>1. TheSos.id = 1 /\ TheSos.priority = SOS_RED /\ TheSos.created_ms = 0 /\ TheSos.ttl = DEFAULT_TTL
  BY BuiltFields DEF TheSos, QueuedAs
<1>2. TheSos.ttl % BYTE # 0
  BY <1>1, FiguresAssumption
<1>3. PICK f : f = Frame(TheSos)
  OBVIOUS
<1>4. /\ f = [src |-> "NodeA", dst |-> "NodeB", ttl |-> TheSos.ttl, packet_seq |-> packet_seq + 1,
              corrupted |-> FALSE, raw |-> f.raw]
      /\ f.raw = [event_id |-> 1, event_type |-> TheSos.event_type, priority |-> SOS_RED,
                  hlc_ms |-> 0, anon |-> TheSos.anon, ttl |-> TheSos.ttl % BYTE,
                  packet_seq |-> (packet_seq + 1) % U16]
  BY <1>1, <1>3, ClocksFit DEF Frame, BuildFrame
<1>5. IsSosFrame(f)
  BY <1>2, <1>4 DEF IsSosFrame
<1>6. ASSUME NEW src, NEW seq
      PROVE  IsSosFrame([f EXCEPT !.src = src, !.ttl = 5, !.raw.ttl = 5,
                                  !.packet_seq = seq, !.raw.packet_seq = seq])
  <2>1. PICK raw : raw = [f.raw EXCEPT !.ttl = 5, !.packet_seq = seq]
    OBVIOUS
  <2>2. raw.event_id = 1 /\ raw.priority = SOS_RED /\ raw.hlc_ms = 0 /\ raw.ttl = 5
    BY <1>4, <2>1
  <2>3. PICK g : g = [f EXCEPT !.src = src, !.ttl = 5, !.raw.ttl = 5,
                                  !.packet_seq = seq, !.raw.packet_seq = seq]
    OBVIOUS
  <2>4. g.raw = raw /\ g.dst = "NodeB" /\ g.corrupted = FALSE
    <3>1. DOMAIN f = {"src", "dst", "ttl", "packet_seq", "corrupted", "raw"}
      BY <1>4
    <3>2. f.dst = "NodeB" /\ f.corrupted = FALSE
      BY <1>4
    <3>3. g.dst = f.dst
      BY <3>1, <2>3
    <3>4. g.corrupted = f.corrupted
      BY <3>1, <2>3
    <3>5. g.raw = raw
      BY <3>1, <2>1, <2>3
    <3> QED
      BY <3>2, <3>3, <3>4, <3>5
  <2>5. IsSosFrame(g)
    BY <2>2, <2>4 DEF IsSosFrame
  <2> QED
    BY <2>3, <2>5
<1> QED
  BY <1>3, <1>5, <1>6

(* What both ways of making frames keep. *)
LEMMA SpecialMakes ==
  ASSUME SpecialInv, PlanInv, ~Main, Stage = 1, ~Expires, Stage' = Stage + 1, ~Over',
         UNCHANGED <<run, queue, accepted, reasons, b_seen_lora, routes, events, table>>,
         \E frames : inbox' \in Seq(frames) /\ \A f \in frames : IsSosFrame(f)
  PROVE  SpecialInv'
<1>1. SosQueued /\ SosHeard /\ SosShown /\ ReplayRefused
  BY DEF SpecialInv
<1>2. Stage + 1 # RefusedAt
  BY DEF RefusedAt
<1> QED
  BY <1>1, <1>2, SosQueuedKept, SosHeardKept, SosShownKept, ReplayRefusedKept DEF SpecialInv

LEMMA SpecialBuild ==
  ASSUME SpecialInv, PlanInv, ~Main, Build
  PROVE  SpecialInv'
<1>1. /\ Stage = 1 /\ ~Expires /\ Calls("build")
      /\ UNCHANGED <<run, queue, accepted, reasons, b_seen_lora, routes, events, table, profile>>
  BY SpecialCallNames DEF Build, Done, channelVars, historyVars
<1>2. Stage' = Stage + 1 /\ ~Over'
  BY <1>1, NotOver DEF Build
<1>3. PICK event \in queue : inbox' = <<Frame(event), Frame(event)>>
  BY DEF Build
<1>4. event = TheSos
  <2>1. SosQueued /\ Stage > 0 /\ ~Expires
    BY <1>1 DEF SpecialInv
  <2>2. queue = {TheSos}
    BY <2>1, Zenon DEF SosQueued
  <2> QED
    BY <1>3, <2>2, Zenon
<1>5. IsSosFrame(Frame(event))
  BY <1>4, SosFrames
<1>6. inbox' \in Seq({Frame(event)})
  BY <1>3
<1>7. \E frames : inbox' \in Seq(frames) /\ \A f \in frames : IsSosFrame(f)
  BY <1>5, <1>6
<1> QED
  BY <1>1, <1>2, <1>7, SpecialMakes

LEMMA ListIsASequence ==
  ASSUME NEW S, NEW n \in Nat, NEW list \in [1..n -> S]
  PROVE  list \in Seq(S)
OBVIOUS

LEMMA SpecialBuildStorm ==
  ASSUME SpecialInv, PlanInv, ~Main, BuildStorm
  PROVE  SpecialInv'
<1>0. Calls("build storm") /\ Done
  BY DEF BuildStorm
<1>1. /\ Stage = 1 /\ ~Expires
      /\ UNCHANGED <<run, queue, accepted, reasons, b_seen_lora, routes, events, table, profile>>
  <2>1. Stage = 1 /\ ~Expires
    BY <1>0, SpecialCallNames, Zenon
  <2> QED
    BY <2>1 DEF BuildStorm, Done, nodeVars, channelVars, historyVars
<1>2. Stage' = Stage + 1 /\ ~Over'
  <2>1. "build storm" # "finalize"
    OBVIOUS
  <2>2. UNCHANGED profile
    BY <1>1
  <2> QED
    BY <1>0, <2>1, <2>2, NotOver, Zenon
<1>3. PICK event \in queue :
         inbox' = [k \in 1..10 |->
                [Frame(event) EXCEPT !.src = 9 + k, !.ttl = 5, !.raw.ttl = 5,
                                     !.packet_seq = k, !.raw.packet_seq = k]]
  BY DEF BuildStorm
<1>4. event = TheSos
  <2>1. SosQueued /\ Stage > 0 /\ ~Expires
    BY <1>1 DEF SpecialInv
  <2>2. queue = {TheSos}
    BY <2>1, Zenon DEF SosQueued
  <2> QED
    BY <1>3, <2>2, Zenon
<1> DEFINE relayed(k) == [Frame(TheSos) EXCEPT !.src = 9 + k, !.ttl = 5, !.raw.ttl = 5,
                                     !.packet_seq = k, !.raw.packet_seq = k]
<1>5. \A k \in 1..10 : IsSosFrame(relayed(k))
  BY SosFrames
<1>6. inbox' = [k \in 1..10 |-> relayed(k)]
  BY <1>3, <1>4
<1> HIDE DEF relayed
<1>7. PICK frames : frames = {relayed(k) : k \in 1..10}
  OBVIOUS
<1>8. inbox' \in [1..10 -> frames]
  BY <1>6, <1>7
<1>9. inbox' \in Seq(frames)
  <2>1. 10 \in Nat
    OBVIOUS
  <2> QED
    BY <1>8, <2>1, ListIsASequence, Zenon
<1>10. \E fs : inbox' \in Seq(fs) /\ \A f \in fs : IsSosFrame(f)
  BY <1>5, <1>7, <1>9
<1> QED
  BY <1>1, <1>2, <1>10, SpecialMakes

-----------------------------------------------------------------------------
(* The scripts of their own: NodeB hears a frame *)

(* NodeB takes the first frame and refuses the rest as replays.             *)
LEMMA SosIsHeard ==
  ASSUME SosHeard, NEW t \in 0..300, NEW heard \in BOOLEAN, NodeBHears(t, heard)
  PROVE  /\ \E frames : inbox' \in Seq(frames) /\ \A f \in frames : IsSosFrame(f)
         /\ UNCHANGED <<queue, accepted, profile, table>>
         /\ b_seen_lora = {} =>
               /\ b_seen_lora' = {1} /\ UNCHANGED reasons
               /\ IF heard THEN SinkReceives(Handed) ELSE UNCHANGED <<events, routes>>
               /\ IsSosFrame(Head(inbox))
         /\ b_seen_lora = {1} =>
               /\ UNCHANGED <<b_seen_lora, events, routes>>
               /\ reasons' = reasons \cup {"replay-duplicate"}
<1>1. PICK frames : inbox \in Seq(frames) /\ \A f \in frames : IsSosFrame(f)
  BY DEF SosHeard
<1>2. inbox # << >> /\ NodeBTakes /\ UNCHANGED table
  BY DEF NodeBHears, NodeBAccepts, NodeBIgnores
<1>3. Head(inbox) \in frames /\ inbox' \in Seq(frames)
  BY <1>1, <1>2 DEF NodeBTakes
<1>4. PICK frame : frame = Head(inbox)
  OBVIOUS
<1>5. IsSosFrame(frame)
  BY <1>1, <1>3, <1>4
<1>6. UNCHANGED <<queue, accepted, profile>>
  BY <1>2 DEF NodeBTakes, nodeVars, channelVars, historyVars
<1>7. t \in Times /\ t \in Nat /\ t <= HLC_REPLAY_WINDOW_MS
  BY InstantsAssumption, FiguresAssumption
<1>8. /\ ~frame.corrupted /\ frame.raw.ttl # 0 /\ frame.dst = "NodeB"
      /\ frame.raw.event_id = 1 /\ frame.raw.hlc_ms = 0
  BY <1>5 DEF IsSosFrame
<1>9. /\ Distance(frame.raw.hlc_ms, t) <= HLC_REPLAY_WINDOW_MS
      /\ NodeB!Distance(frame.raw.hlc_ms, t) <= HLC_REPLAY_WINDOW_MS
  BY <1>7, <1>8 DEF Distance, NodeB!Distance
<1>10. NodeB!Verified(frame, t) <=> 1 \notin b_seen_lora
  BY <1>8, <1>9 DEF NodeB!Verified
<1>11. Replayed(frame, t)
  BY <1>8, <1>9 DEF Replayed
<1>12. \/ /\ NodeB!ReceiveAccepted("NodeB", frame, t) /\ UNCHANGED reasons
          /\ IF heard THEN SinkReceives(Handed) ELSE UNCHANGED <<events, routes>>
       \/ /\ NodeB!ReceiveIgnored("NodeB", frame, t) /\ UNCHANGED <<events, routes>>
          /\ Refusal("replay-duplicate", Replayed(frame, t))
  BY <1>4 DEF NodeBHears, NodeBAccepts, NodeBIgnores
<1>13. CASE b_seen_lora = {}
  <2>1. ~NodeB!ReceiveIgnored("NodeB", frame, t)
    BY <1>8, <1>10, <1>13 DEF NodeB!ReceiveIgnored
  <2>2. NodeB!ReceiveAccepted("NodeB", frame, t) => b_seen_lora' = b_seen_lora \cup {1}
    BY <1>8 DEF NodeB!ReceiveAccepted
  <2>3. b_seen_lora \cup {1} = {1} /\ b_seen_lora # {1}
    BY <1>13
  <2> QED
    BY <1>1, <1>2, <1>3, <1>4, <1>5, <1>6, <1>12, <2>1, <2>2, <2>3, Zenon
<1>14. CASE b_seen_lora = {1}
  <2>1. ~NodeB!ReceiveAccepted("NodeB", frame, t)
    BY <1>10, <1>14 DEF NodeB!ReceiveAccepted
  <2>2. NodeB!ReceiveIgnored("NodeB", frame, t) => b_seen_lora' = b_seen_lora
    BY DEF NodeB!ReceiveIgnored, NodeB!nodeVars
  <2>3. /\ Refusal("replay-duplicate", Replayed(frame, t)) =>
              reasons' = reasons \cup {"replay-duplicate"}
        /\ b_seen_lora # {}
    BY <1>11, <1>14 DEF Refusal
  <2> QED
    BY <1>1, <1>2, <1>3, <1>6, <1>12, <2>1, <2>2, <2>3, Zenon
<1>15. CASE b_seen_lora # {} /\ b_seen_lora # {1}
  BY <1>1, <1>2, <1>3, <1>6, <1>15, Zenon
<1> QED
  BY <1>13, <1>14, <1>15

(* The first frame goes to the sink.                                        *)
LEMMA SpecialHearsFirst ==
  ASSUME SosHeard, SosShown, Stage = 2, Stage' = 3, ~Expires, ~Over', UNCHANGED <<run, table>>,
         b_seen_lora' = {1}, SinkReceives(Handed), IsSosFrame(Head(inbox)),
         \E frames : inbox' \in Seq(frames) /\ \A f \in frames : IsSosFrame(f)
  PROVE  SosHeard' /\ SosShown'
<1>1. b_seen_lora = {} /\ DOMAIN routes = 1..Len(routes) /\ Len(routes) \in Nat /\ routes = << >>
  BY DEF SosHeard
<1>2. Handed.event_id = 1 /\ Handed.priority = SOS_RED /\ {"event_id", "priority"} \subseteq DOMAIN Handed
  BY DEF Handed, NodeB!Inbound, IsSosFrame
<1>3. routes' = Append(routes, Handed)
  BY DEF SinkReceives, GatewayReceive
<1>4. PICK heard : heard = Handed
  OBVIOUS
<1>5. /\ DOMAIN routes' = 1..Len(routes') /\ Len(routes') = Len(routes) + 1
      /\ \A k \in DOMAIN routes : routes'[k] = routes[k]
      /\ routes'[Len(routes) + 1] = heard
  BY <1>1, <1>3, <1>4, AppendedIsNumbered
<1>6. Len(routes) = 0 /\ Len(routes') = 1 /\ DOMAIN routes' = {1} /\ routes'[1] = heard
  BY <1>1, <1>5
<1>7. routes' # << >>
  <2>1. DOMAIN << >> = {}
    OBVIOUS
  <2> QED
    BY <1>6, <2>1
<1>8. SosHeard'
  <2>1. /\ \A k \in DOMAIN routes' :
              /\ routes'[k].event_id = 1 /\ routes'[k].priority = SOS_RED
              /\ {"event_id", "priority"} \subseteq DOMAIN routes'[k]
        /\ Len(routes') \in Nat
    BY <1>2, <1>4, <1>6
  <2>2. ~Expires' /\ {1} # {}
    BY DEF Expires
  <2> QED
    BY <1>5, <1>7, <2>1, <2>2 DEF SosHeard
<1>9. (CliSink' <=> CliSink) /\ DOMAIN events \subseteq {} /\ DOMAIN table \subseteq {}
  BY <1>1 DEF CliSink, SosShown
<1>10. CASE CliSink
  <2>1. events' = events
    BY <1>10 DEF SinkReceives
  <2> QED
    BY <1>8, <1>9, <1>10, <2>1 DEF SosShown
<1>11. CASE ~CliSink
  <2>1. DOMAIN events' = DOMAIN events \cup {Handed.event_id}
    BY <1>11 DEF SinkReceives, GatewayReceive
  <2>2. DOMAIN events' = {1}
    BY <1>2, <1>9, <2>1
  <2> QED
    BY <1>8, <1>9, <2>2 DEF SosShown
<1> QED
  BY <1>10, <1>11

(* A later frame is refused, and the log says why.                          *)
LEMMA SpecialHearsAgain ==
  ASSUME SpecialInv, Stage \in Nat, Stage >= 3, Stage' = Stage + 1, ~Over',
         UNCHANGED <<run, table, queue, accepted, b_seen_lora, events, routes>>,
         reasons' = reasons \cup {"replay-duplicate"},
         \E frames : inbox' \in Seq(frames) /\ \A f \in frames : IsSosFrame(f)
  PROVE  SpecialInv'
<1>1. SosQueued /\ SosHeard /\ SosShown /\ ReplayRefused
  BY DEF SpecialInv
<1>2. Stage # 2 /\ Stage \in Nat \ {0}
  OBVIOUS
<1>3. SosQueued'
  BY <1>1, <1>2, SosQueuedKept
<1>4. SosHeard'
  BY <1>1, <1>2, SosHeardKept
<1>5. SosShown'
  BY <1>1, SosShownKept
<1>6. ReplayRefused'
  BY <1>1, ReplayRefusedKept
<1> QED
  BY <1>3, <1>4, <1>5, <1>6 DEF SpecialInv

LEMMA SpecialHears ==
  ASSUME SpecialInv, PlanInv, ~Main, Hear \/ Overhear
  PROVE  SpecialInv'
<1>1. PICK heard \in BOOLEAN :
         /\ NodeBHears(at, heard) /\ Done
         /\ IF heard THEN Calls("hear") ELSE Calls("overhear")
  BY DEF Hear, Overhear
<1>2. /\ at \in 0..300 /\ Stage >= 2 /\ ~Expires /\ (heard \/ Stage >= 3) /\ Stage \in Nat
  <2>1. Stage \in Nat
    BY PlanHead
  <2>2. \/ at \in 0..300 /\ Stage >= 2 /\ ~Expires /\ heard
        \/ at \in 0..300 /\ Stage >= 3 /\ ~Expires
    BY <1>1, SpecialCallNames, Zenon
  <2> QED
    BY <2>1, <2>2
<1>3. SosQueued /\ SosHeard /\ SosShown /\ ReplayRefused
  BY DEF SpecialInv
<1>4. PICK t \in 0..300 : NodeBHears(t, heard)
  BY <1>1, <1>2
<1>5. /\ \E frames : inbox' \in Seq(frames) /\ \A f \in frames : IsSosFrame(f)
      /\ UNCHANGED <<queue, accepted, profile, table>>
      /\ b_seen_lora = {} =>
            /\ b_seen_lora' = {1} /\ UNCHANGED reasons
            /\ IF heard THEN SinkReceives(Handed) ELSE UNCHANGED <<events, routes>>
            /\ IsSosFrame(Head(inbox))
      /\ b_seen_lora = {1} =>
            /\ UNCHANGED <<b_seen_lora, events, routes>>
            /\ reasons' = reasons \cup {"replay-duplicate"}
  BY <1>3, <1>4, SosIsHeard
<1>6. Stage' = Stage + 1 /\ ~Over' /\ UNCHANGED run
  <2>1. "hear" # "finalize" /\ "overhear" # "finalize"
    OBVIOUS
  <2>2. Calls("hear") \/ Calls("overhear")
    BY <1>1
  <2>3. UNCHANGED run
    BY <1>1 DEF Done
  <2> QED
    BY <1>1, <1>5, <2>1, <2>2, <2>3, NotOver, Zenon
<1>7. CASE Stage >= 3
  <2>1. b_seen_lora = {1}
    BY <1>2, <1>3, <1>7 DEF SosHeard
  <2> QED
    BY <1>2, <1>5, <1>6, <1>7, <2>1, SpecialHearsAgain
<1>8. CASE Stage = 2
  <2>1. b_seen_lora = {} /\ heard
    BY <1>2, <1>3, <1>8 DEF SosHeard
  <2>2. /\ b_seen_lora' = {1} /\ UNCHANGED reasons /\ SinkReceives(Handed)
        /\ IsSosFrame(Head(inbox))
    BY <1>5, <2>1
  <2>3. SosHeard' /\ SosShown'
    <3>1. Stage' = 3
      BY <1>6, <1>8
    <3> QED
      BY <1>2, <1>3, <1>5, <1>6, <1>8, <2>2, <3>1, SpecialHearsFirst
  <2>4. SosQueued'
    BY <1>3, <1>5, <1>6, <1>8, <2>2, SosQueuedKept
  <2>5. ReplayRefused'
    <3>1. Stage + 1 # RefusedAt
      BY <1>8 DEF RefusedAt
    <3> QED
      BY <1>2, <1>3, <1>6, <2>2, <3>1, ReplayRefusedKept
  <2> QED
    BY <2>3, <2>4, <2>5 DEF SpecialInv
<1> QED
  BY <1>2, <1>7, <1>8

-----------------------------------------------------------------------------
(* The scripts of their own: a reboot, a new sink, and the end *)

(* A call that is neither heard nor the send refuses nothing.               *)
LEMMA SpecialQuiet ==
  ASSUME SpecialInv, PlanInv, ~Main, plan # << >>, ~Calls("hear"), ~Calls("overhear"),
         Stage \in Nat \ {0}, Stage' = Stage + 1, UNCHANGED <<run, queue, accepted, reasons>>
  PROVE  SosQueued' /\ ReplayRefused'
<1>1. SosQueued /\ ReplayRefused
  BY DEF SpecialInv
<1>2. ~(RefusesReplay /\ Stage + 1 = RefusedAt)
  BY SpecialCallNames
<1> QED
  BY <1>1, <1>2, SosQueuedKept, ReplayRefusedKept

LEMMA SpecialReboot ==
  ASSUME SpecialInv, PlanInv, ~Main, RebootB
  PROVE  SpecialInv'
<1>1. Calls("reboot") /\ Done /\ NodeBReboots(TRUE) /\ UNCHANGED <<table, reasons>>
  BY DEF RebootB
<1>2. UNCHANGED <<queue, profile, inbox, events, routes, accepted, b_seen_lora, run>>
  BY <1>1 DEF NodeBReboots, NodeB!Reboot, nodeVars, channelVars, Done
<1>3. Stage' = Stage + 1 /\ ~Over' /\ plan # << >> /\ Stage \in Nat \ {0} /\ Stage # 2
  <2>1. "reboot" # "finalize"
    OBVIOUS
  <2>2. Stage' = Stage + 1 /\ ~Over' /\ plan # << >> /\ Stage \in Nat
    BY <1>1, <1>2, <2>1, NotOver
  <2>3. Stage >= 3
    BY <1>1, SpecialCallNames
  <2> QED
    BY <2>2, <2>3
<1>4. ~Calls("hear") /\ ~Calls("overhear")
  BY <1>1 DEF Calls
<1>5. SosHeard /\ SosShown
  BY DEF SpecialInv
<1>6. SosHeard'
  <2>1. \E frames : inbox' \in Seq(frames) /\ \A f \in frames : IsSosFrame(f)
    BY <1>2, <1>5, InboxKept
  <2> QED
    BY <1>2, <1>3, <1>5, <2>1, SosHeardKept
<1>7. SosShown'
  BY <1>1, <1>2, <1>3, <1>5, SosShownKept
<1>8. SosQueued' /\ ReplayRefused'
  BY <1>1, <1>2, <1>3, <1>4, SpecialQuiet
<1> QED
  BY <1>6, <1>7, <1>8 DEF SpecialInv

LEMMA SpecialRestart ==
  ASSUME SpecialInv, PlanInv, ~Main, SinkRestarts
  PROVE  SpecialInv'
<1>1. /\ Calls("restart") /\ Done /\ routes # << >> /\ events' = << >>
      /\ routes' = <<[routes[1] EXCEPT !.last_hop = "NodeC", !.packet_seq = @ + 1]>>
      /\ UNCHANGED <<queue, profile, inbox, accepted, b_seen_lora, run, table, reasons>>
  BY DEF SinkRestarts, nodeVars, channelVars, historyVars, Done
<1>2. /\ Stage' = Stage + 1 /\ ~Over' /\ plan # << >> /\ Stage \in Nat \ {0} /\ Stage # 2
      /\ CliSink /\ ~Expires /\ Stage >= 3
  <2>1. "restart" # "finalize"
    OBVIOUS
  <2>2. Stage' = Stage + 1 /\ ~Over' /\ plan # << >> /\ Stage \in Nat
    BY <1>1, <2>1, NotOver
  <2>3. Stage >= 3 /\ CliSink /\ ~Expires
    BY <1>1, SpecialCallNames
  <2> QED
    BY <2>2, <2>3
<1>3. ~Calls("hear") /\ ~Calls("overhear")
  BY <1>1 DEF Calls
<1>4. SosHeard /\ SosShown
  BY DEF SpecialInv
<1>5. PICK r : r = [routes[1] EXCEPT !.last_hop = "NodeC", !.packet_seq = @ + 1]
  OBVIOUS
<1>6. r.event_id = 1 /\ r.priority = SOS_RED /\ {"event_id", "priority"} \subseteq DOMAIN r
  <2>1. 1 \in DOMAIN routes
    <3>1. /\ DOMAIN routes = 1..Len(routes) /\ Len(routes) \in Nat
          /\ routes = << >> <=> b_seen_lora = {}
          /\ b_seen_lora = {1}
      BY <1>2, <1>4 DEF SosHeard
    <3>2. \A k \in DOMAIN routes : routes[k].event_id = 1
      BY <1>4 DEF SosHeard
    <3>3. Len(routes) # 0
      BY <1>1, <3>1
    <3> QED
      BY <3>1, <3>3
  <2>2. /\ routes[1].event_id = 1 /\ routes[1].priority = SOS_RED
        /\ {"event_id", "priority"} \subseteq DOMAIN routes[1]
    BY <1>4, <2>1 DEF SosHeard
  <2> QED
    BY <1>5, <2>2
<1>7. routes' = <<r>>
  BY <1>1, <1>5
<1>8. /\ DOMAIN routes' = 1..Len(routes') /\ Len(routes') = 1 /\ routes'[1] = r
      /\ routes' # << >>
  BY <1>7
<1>9. SosHeard'
  <2>1. b_seen_lora' = {1} /\ {1} # {} /\ ~Expires' /\ Stage' >= 3
    BY <1>1, <1>2, <1>4 DEF SosHeard, Expires
  <2>2. \A k \in DOMAIN routes' :
           /\ routes'[k].event_id = 1 /\ routes'[k].priority = SOS_RED
           /\ {"event_id", "priority"} \subseteq DOMAIN routes'[k]
    BY <1>6, <1>8
  <2>3. \E frames : inbox' \in Seq(frames) /\ \A f \in frames : IsSosFrame(f)
    BY <1>1, <1>4, InboxKept
  <2>4. Len(routes') \in Nat
    BY <1>8
  <2> QED
    BY <1>8, <2>1, <2>2, <2>3, <2>4 DEF SosHeard
<1>10. SosShown'
  <2>1. DOMAIN events' = {} /\ CliSink'
    BY <1>1, <1>2 DEF CliSink
  <2> QED
    BY <1>1, <1>2, <1>4, <2>1 DEF SosShown
<1>11. SosQueued' /\ ReplayRefused'
  BY <1>1, <1>2, <1>3, SpecialQuiet
<1> QED
  BY <1>9, <1>10, <1>11 DEF SpecialInv

LEMMA SpecialFinalize ==
  ASSUME SpecialInv, PlanInv, ~Main, Finalize
  PROVE  SpecialInv'
<1>1. /\ Calls("finalize") /\ Done
      /\ IF CliSink /\ routes # << >>
         THEN table' = Ingested(table, Records) /\ events' = table'
         ELSE UNCHANGED <<table, events>>
      /\ UNCHANGED <<queue, profile, inbox, accepted, b_seen_lora, run, routes, reasons>>
  BY DEF Finalize, nodeVars, channelVars, historyVars, Done
<1>2. /\ Stage' = Stage + 1 /\ plan # << >> /\ Stage \in Nat \ {0} /\ (Stage # 2 \/ Expires)
  <2>1. Stage' = Stage + 1 /\ plan # << >> /\ Stage \in Nat
    BY <1>1, CallMoves, PlanHead DEF Calls
  <2>2. Stage >= 1 /\ (Expires \/ Stage >= 3)
    BY <1>1, SpecialCallNames
  <2> QED
    BY <2>1, <2>2
<1>3. ~Calls("hear") /\ ~Calls("overhear")
  BY <1>1 DEF Calls
<1>4. SosHeard /\ SosShown
  BY DEF SpecialInv
<1>5. SosHeard'
  <2>1. \E frames : inbox' \in Seq(frames) /\ \A f \in frames : IsSosFrame(f)
    BY <1>1, <1>4, InboxKept
  <2> QED
    BY <1>1, <1>2, <1>4, <2>1, SosHeardKept
<1>6. (CliSink' <=> CliSink) /\ DOMAIN events \subseteq b_seen_lora
      /\ DOMAIN table \subseteq b_seen_lora /\ (~CliSink => DOMAIN events = b_seen_lora)
  BY <1>1, <1>4 DEF CliSink, SosShown
<1>7. SosShown'
  <2>1. CASE CliSink /\ routes # << >>
    <3>1. b_seen_lora = {1} /\ DOMAIN routes = 1..Len(routes) /\ Len(routes) \in Nat
      BY <1>4, <2>1 DEF SosHeard
    <3>2. Heard \subseteq {1}
      BY <1>4 DEF Heard, SosHeard
    <3>3. 1 \in Heard
      <4>1. Len(routes) # 0
        BY <2>1, <3>1
      <4>2. 1 \in DOMAIN routes
        BY <3>1, <4>1
      <4> QED
        BY <1>4, <4>2 DEF Heard, SosHeard
    <3>4. DOMAIN Ingested(table, Records) = DOMAIN table \cup Heard
      BY <3>1, RecordsAreHeard
    <3>5. DOMAIN events' = b_seen_lora /\ DOMAIN table' = b_seen_lora
      BY <1>1, <1>6, <2>1, <3>1, <3>2, <3>3, <3>4
    <3> QED
      BY <1>1, <3>5 DEF SosShown
  <2>2. CASE CliSink /\ routes = << >>
    <3>1. b_seen_lora = {}
      BY <1>4, <2>2 DEF SosHeard
    <3>2. DOMAIN events' = b_seen_lora /\ DOMAIN table' \subseteq b_seen_lora
      BY <1>1, <1>6, <2>2, <3>1
    <3> QED
      BY <1>1, <3>2 DEF SosShown
  <2>3. CASE ~CliSink
    <3>1. DOMAIN events' = b_seen_lora /\ DOMAIN table' \subseteq b_seen_lora
      BY <1>1, <1>6, <2>3
    <3> QED
      BY <1>1, <3>1 DEF SosShown
  <2> QED
    BY <2>1, <2>2, <2>3
<1>8. SosQueued' /\ ReplayRefused'
  BY <1>1, <1>2, <1>3, SpecialQuiet
<1> QED
  BY <1>5, <1>7, <1>8 DEF SpecialInv

(* A call of a script of its own, whatever it is, keeps its invariant.      *)
LEMMA SpecialStep ==
  ASSUME SpecialInv, PlanInv, ~Main, [RunNext]_runVars
  PROVE  SpecialInv'
<1>1. CASE Ingest
  BY <1>1, SpecialIngest
<1>2. CASE Build
  BY <1>2, SpecialBuild
<1>3. CASE BuildStorm
  BY <1>3, SpecialBuildStorm
<1>4. CASE Hear \/ Overhear
  BY <1>4, SpecialHears
<1>5. CASE RebootB
  BY <1>5, SpecialReboot
<1>6. CASE Finalize
  BY <1>6, SpecialFinalize
<1>7. CASE SinkRestarts
  BY <1>7, SpecialRestart
<1>8. CASE Transmit \/ DrainAir \/ Receive \/ EndStep
  BY <1>8, SpecialCallNames DEF Transmit, DrainAir, Receive, EndStep, InLoop
<1>9. CASE UNCHANGED runVars
  <2>1. /\ UNCHANGED <<queue, seen_ble, anon_by_author, b_seen_lora, inbox, events, routes, accepted>>
        /\ UNCHANGED <<profile, run, plan, table, reasons>>
    BY <1>9 DEF runVars, driverVars, vars, nodeVars, farVars, historyVars, channelVars
  <2>2. Stage' = Stage /\ (Expires' <=> Expires) /\ (CliSink' <=> CliSink) /\ (Over' <=> Over)
        /\ (RefusesReplay' <=> RefusesReplay) /\ RefusedAt' = RefusedAt
    BY <2>1, PlanStays DEF Expires, CliSink, Over, RefusesReplay, RefusedAt
  <2>3. SosQueued'
    BY <2>1, <2>2 DEF SpecialInv, SosQueued
  <2>4. SosHeard'
    BY <2>1, <2>2 DEF SpecialInv, SosHeard
  <2>5. SosShown' /\ ReplayRefused'
    BY <2>1, <2>2 DEF SpecialInv, SosShown, ReplayRefused
  <2> QED
    BY <2>3, <2>4, <2>5 DEF SpecialInv
<1> QED
  BY <1>1, <1>2, <1>3, <1>4, <1>5, <1>6, <1>7, <1>8, <1>9 DEF RunNext

-----------------------------------------------------------------------------
(* The results *)

LEMMA RunInvInit ==
  RunInit => RunInv
<1> SUFFICES ASSUME RunInit PROVE RunInv
  OBVIOUS
<1>1. PlanInv
  BY PlanInit
<1> QED
  BY <1>1, MainInit, SpecialInit DEF RunInv

LEMMA RunInvStep ==
  RunInv /\ [RunNext]_runVars => RunInv'
<1> SUFFICES ASSUME RunInv, [RunNext]_runVars PROVE RunInv'
  OBVIOUS
<1>1. PlanInv
  BY DEF RunInv
<1>2. PlanInv' /\ (Main' <=> Main)
  BY <1>1, PlanStep
<1>3. CASE Main
  <2>1. MainInv
    BY <1>3 DEF RunInv
  <2>2. MainInv'
    BY <1>1, <1>3, <2>1, MainStep
  <2> QED
    BY <1>2, <1>3, <2>2 DEF RunInv
<1>4. CASE ~Main
  <2>1. SpecialInv
    BY <1>4 DEF RunInv
  <2>2. SpecialInv'
    BY <1>1, <1>4, <2>1, SpecialStep
  <2> QED
    BY <1>2, <1>4, <2>2 DEF RunInv
<1> QED
  BY <1>3, <1>4

(* Every run, of any scenario, on any profile, stays where RunInv says.     *)
THEOREM RunStaysWithin == RunSpec => []RunInv
<1>1. RunInit => RunInv
  BY RunInvInit
<1>2. RunInv /\ [RunNext]_runVars => RunInv'
  BY RunInvStep
<1> QED
  BY <1>1, <1>2, PTL DEF RunSpec

(* In a script of its own there is one event, and it is the SOS.            *)
LEMMA OneSosOnly ==
  ASSUME SpecialInv, PlanInv, ~Main
  PROVE  /\ \A row \in accepted : row.event_id = 1 /\ row.priority = SOS_RED
         /\ AllAccepted \subseteq {1} /\ (Expires => AllAccepted = {})
         /\ Over /\ ~Expires => DOMAIN events = {1}
         /\ Over /\ RefusesReplay => "replay-duplicate" \in reasons
         /\ Expires => DOMAIN events = {}
         /\ Over /\ Expires => "envelope-expired" \in reasons
<1>1. SosQueued /\ SosHeard /\ SosShown /\ ReplayRefused /\ Stage \in Nat
  BY PlanHead DEF SpecialInv
<1>2. RowOf(TheSos).event_id = 1 /\ RowOf(TheSos).priority = SOS_RED
  BY BuiltFields DEF RowOf, TheSos, QueuedAs
<1>3. PICK row : row = RowOf(TheSos)
  OBVIOUS
<1>4. accepted = {} \/ (accepted = {row} /\ ~Expires)
  <2>1. Stage = 0 \/ Stage > 0
    BY <1>1
  <2> QED
    BY <1>1, <1>3, <2>1 DEF SosQueued
<1>5. /\ \A r \in accepted : r.event_id = 1 /\ r.priority = SOS_RED
      /\ AllAccepted \subseteq {1} /\ (Expires => AllAccepted = {})
  BY <1>2, <1>3, <1>4 DEF AllAccepted
<1>6. Expires => DOMAIN events = {}
  BY <1>1 DEF SosHeard, SosShown
<1>7. Over => Stage = Len(Script)
  BY PlanHead DEF Over
<1>8. Over => Stage > 0 /\ (Expires \/ Stage >= 5)
  <2>1. (Expires => Len(Script) = 2) /\ (~Expires => Len(Script) \in 5..13)
    BY SpecialScript DEF PlanInv
  <2> QED
    BY <1>7, <2>1
<1>9. Over /\ ~Expires => DOMAIN events = {1}
  BY <1>1, <1>8 DEF SosHeard, SosShown
<1>10. RefusesReplay => ~Expires /\ RefusedAt <= 5
  BY DEF RefusesReplay, Expires, RefusedAt
<1>11. Over /\ RefusesReplay => "replay-duplicate" \in reasons
  <2>1. RefusedAt \in Nat
    BY DEF RefusedAt
  <2> QED
    BY <1>1, <1>8, <1>10, <2>1 DEF ReplayRefused
<1>12. Over /\ Expires => "envelope-expired" \in reasons
  BY <1>1, <1>8 DEF SosQueued
<1> QED
  BY <1>5, <1>6, <1>9, <1>11, <1>12

LEMMA RunInvOrders ==
  RunInv => SevereArriveFirst
<1> SUFFICES ASSUME RunInv, Swift, NEW k \in DOMAIN routes, NEW row \in accepted,
                    row.priority < routes[k].priority
             PROVE  \/ row.event_id \in IdsOf(dropped_events)
                    \/ \E j \in 1..k : routes[j].event_id = row.event_id
  BY DEF SevereArriveFirst, Swift
<1>1. PlanInv
  BY DEF RunInv
<1>2. CASE Main
  <2>1. PlaceInv /\ FreshInv /\ SevereInv /\ Stage \in Nat
    BY <1>1, <1>2, PlanHead DEF RunInv, MainInv
  <2>2. row.event_id = 2 /\ routes[k].event_id = 1
    <3>1. /\ IsOf(row.event_id, row.priority)
          /\ IsOf(routes[k].event_id, routes[k].priority)
      BY <2>1 DEF PlaceInv
    <3> QED
      BY <3>1 DEF IsOf, SOS_RED, ALERT
  <2>3. 1 \in b_seen_lora /\ 1 \in sent
    <3>1. 1 \in Heard
      BY <2>2 DEF Heard
    <3> QED
      BY <2>1, <3>1 DEF PlaceInv
  <2>4. Stage >= 2
    <3>1. Stage = 0 \/ Stage = 1 => routes = << >>
      BY <2>1 DEF FreshInv, Fresh
    <3>2. DOMAIN << >> = {}
      OBVIOUS
    <3>3. ~(Stage = 0 \/ Stage = 1)
      BY <3>1, <3>2
    <3> QED
      BY <2>1, <3>3
  <2>5. 2 \in Lost \/ InOrder
    BY <2>1, <2>3, <2>4 DEF SevereInv
  <2> QED
    BY <2>2, <2>5 DEF Lost, InOrder
<1>3. CASE ~Main
  <2>1. SpecialInv
    BY <1>3 DEF RunInv
  <2>2. row.priority = SOS_RED /\ routes[k].priority = SOS_RED
    BY <1>1, <1>3, <2>1, OneSosOnly DEF SpecialInv, SosHeard
  <2> QED
    BY <2>2 DEF SOS_RED
<1> QED
  BY <1>2, <1>3

(* Where the main loop's scenarios are when they are over.                  *)
LEMMA MainOver ==
  ASSUME MainInv, PlanInv, Main, Over
  PROVE  /\ AllAccepted = {1, 2} /\ DOMAIN events = b_seen_lora
         /\ b_seen_lora \subseteq {1, 2}
         /\ \/ AllAccepted \subseteq b_seen_lora \cup Lost
            \/ ~NeverBusy /\ step + 1 = run.steps
         /\ AllAccepted \subseteq IdsOf(queue) \cup OnAir \cup b_seen_lora \cup Lost
         /\ Lossless => Lost = {}
<1>1. Stage = 4
  <2>1. Len(Script) = 4
    BY MainScript
  <2> QED
    BY <2>1, PlanHead DEF Over
<1>2. FreshInv /\ PlaceInv /\ SinkInv /\ AttemptsInv /\ EndInv
  BY DEF MainInv
<1>3. AllAccepted = {1, 2}
  <2>1. PICK one, two : accepted = {one, two} /\ one.event_id = 1 /\ two.event_id = 2
    BY <1>1, <1>2 DEF FreshInv
  <2> QED
    BY <2>1 DEF AllAccepted
<1>4. DOMAIN events = b_seen_lora /\ b_seen_lora \subseteq {1, 2}
  BY <1>1, <1>2 DEF SinkInv, PlaceInv
<1>5. \/ AllAccepted \subseteq b_seen_lora \cup Lost
      \/ ~NeverBusy /\ step + 1 = run.steps
  BY <1>1, <1>2 DEF EndInv
<1>6. OnAir = IntactIds(Flying)
  BY OnAirIsFlying DEF IntactIds
<1>7. AllAccepted \subseteq IdsOf(queue) \cup OnAir \cup b_seen_lora \cup Lost
  BY <1>2, <1>6 DEF PlaceInv
<1>8. Lossless => Lost = {}
  BY <1>2 DEF AttemptsInv, Lost, IdsOf
<1> QED
  BY <1>3, <1>4, <1>5, <1>7, <1>8

LEMMA RunInvKeeps ==
  RunInv => NothingVanishes
<1> SUFFICES ASSUME RunInv, Over
             PROVE  \/ AllAccepted \subseteq Settled
                    \/ /\ ~NeverBusy /\ step + 1 = run.steps
                       /\ AllAccepted \subseteq Settled \cup OnAir \cup IdsOf(queue)
  BY DEF NothingVanishes, AllAccepted
<1>1. PlanInv
  BY DEF RunInv
<1>2. CASE Main
  <2>1. MainInv
    BY <1>2 DEF RunInv
  <2> QED
    BY <1>1, <1>2, <2>1, MainOver DEF Settled, Lost
<1>3. CASE ~Main
  <2>1. SpecialInv
    BY <1>3 DEF RunInv
  <2> QED
    BY <1>1, <1>3, <2>1, OneSosOnly DEF Settled
<1> QED
  BY <1>2, <1>3

LEMMA FewIds ==
  /\ Cardinality({}) = 0 /\ Cardinality({1}) = 1 /\ Cardinality({2}) = 1
  /\ Cardinality({1, 2}) = 2
<1>1. Cardinality({}) = 0 /\ \A i : IsFiniteSet({i}) /\ Cardinality({i}) = 1
  BY FS_EmptySet, FS_Singleton
<1>2. Cardinality({1} \cup {2}) = Cardinality({1}) + 1
  <2>1. 2 \notin {1}
    OBVIOUS
  <2> QED
    BY <1>1, <2>1, FS_AddElement
<1>3. {1} \cup {2} = {1, 2} /\ 1 + 1 = 2
  OBVIOUS
<1> QED
  BY <1>1, <1>2, <1>3, Zenon

LEMMA MainRunPasses ==
  ASSUME MainInv, PlanInv, Main, Over
  PROVE  \/ Passes
         \/ ~Lossless /\ Needed \cap IdsOf(dropped_events) # {}
         \/ ~NeverBusy /\ step + 1 = run.steps
<1>1. /\ AllAccepted = {1, 2} /\ DOMAIN events = b_seen_lora /\ b_seen_lora \subseteq {1, 2}
      /\ \/ AllAccepted \subseteq b_seen_lora \cup Lost
         \/ ~NeverBusy /\ step + 1 = run.steps
      /\ Lossless => Lost = {}
  BY MainOver
<1>2. run.name \in MAIN_SOS_SCENARIOS /\ run.name \notin DOMAIN SpecialPlans
      /\ run.name # "expired_event"
  BY SpecialNames DEF Main
<1>3. SosId = 2
  BY <1>2, BuiltFields DEF SosId
<1>4. AcceptedIds = {1, 2}
  BY <1>1, <1>2 DEF AcceptedIds, AllAccepted
<1>5. Delivered = b_seen_lora
  BY <1>1 DEF Delivered
<1>6. SUFFICES ASSUME {1, 2} \subseteq b_seen_lora \cup Lost,
                      Needed \cap Lost = {}
               PROVE  Passes
  BY <1>1 DEF Lost
<1>7. 2 \in Delivered
  <2>1. 2 \in Needed
    BY <1>3 DEF Needed
  <2> QED
    BY <1>5, <1>6, <2>1
<1>8. Delivered = {2} \/ Delivered = {1, 2}
  BY <1>1, <1>5, <1>7
<1>9. Cardinality(Delivered) <= Cardinality(IF AcceptedIds = {} THEN Delivered ELSE AcceptedIds)
  <2>1. AcceptedIds # {}
    BY <1>4
  <2>2. Cardinality(Delivered) = 1 \/ Cardinality(Delivered) = 2
    BY <1>8, FewIds
  <2>3. Cardinality(AcceptedIds) = 2
    BY <1>4, FewIds
  <2> QED
    BY <2>1, <2>2, <2>3
<1>10. run.name \in {"normal", "gateway_cli"} => Cardinality(Delivered) = 2
  <2>1. run.name \in {"normal", "gateway_cli"} => Needed = {1, 2}
    BY <1>3, <1>4 DEF Needed
  <2>2. run.name \in {"normal", "gateway_cli"} => Delivered = {1, 2}
    BY <1>1, <1>5, <1>6, <2>1
  <2> QED
    BY <2>2, FewIds
<1> QED
  BY <1>2, <1>3, <1>7, <1>9, <1>10 DEF Passes, MAIN_SOS_SCENARIOS

LEMMA SpecialRunPasses ==
  ASSUME SpecialInv, PlanInv, ~Main, Over
  PROVE  Passes
<1>1. /\ Expires => DOMAIN events = {} /\ "envelope-expired" \in reasons
      /\ ~Expires => DOMAIN events = {1}
      /\ RefusesReplay => "replay-duplicate" \in reasons
  BY OneSosOnly
<1>2. run.name \in DOMAIN SpecialPlans
  BY ScenarioAssumption DEF PlanInv, Main
<1>3. /\ run.name = "node_reboot" \/ run.name = "replayed_valid_packet"
         \/ run.name = "gateway_reboot" \/ run.name = "duplicate_storm_10_nodes"
         \/ run.name = "expired_event"
  BY <1>2, SpecialNames
<1>4. /\ Expires => Cardinality(Delivered) = 0
      /\ ~Expires => Cardinality(Delivered) = 1
  BY <1>1, FewIds DEF Delivered
<1> QED
  BY <1>1, <1>3, <1>4 DEF Passes, Expires, RefusesReplay

LEMMA RunInvPasses ==
  RunInv => GateScenPasses
<1> SUFFICES ASSUME RunInv, Over, ~Passes
             PROVE  \/ ~Lossless /\ Needed \cap IdsOf(dropped_events) # {}
                    \/ ~NeverBusy /\ step + 1 = run.steps
  BY DEF GateScenPasses
<1>1. PlanInv
  BY DEF RunInv
<1>2. Main
  <2>1. ASSUME ~Main
        PROVE  FALSE
    <3>1. SpecialInv
      BY <2>1 DEF RunInv
    <3> QED
      BY <1>1, <2>1, <3>1, SpecialRunPasses
  <2> QED
    BY <2>1
<1>3. MainInv
  BY <1>2 DEF RunInv
<1> QED
  BY <1>1, <1>2, <1>3, MainRunPasses

(* No event reaches the gateway before a more severe one that NodeA         *)
(* accepted, unless that one was dropped, however long the backoffs are and *)
(* in whatever order the channel delivers.                                  *)
THEOREM SevereFirst == RunSpec => []SevereArriveFirst
<1>1. RunSpec => []RunInv
  BY RunStaysWithin
<1>2. RunInv => SevereArriveFirst
  BY RunInvOrders
<1> QED
  BY <1>1, <1>2, PTL

(* When a run is over each event NodeA accepted is in the gateway or was    *)
(* dropped; if a busy channel ate the steps, it still waits or is on air.   *)
THEOREM NothingIsLost == RunSpec => []NothingVanishes
<1>1. RunSpec => []RunInv
  BY RunStaysWithin
<1>2. RunInv => NothingVanishes
  BY RunInvKeeps
<1> QED
  BY <1>1, <1>2, PTL

(* GATE-SCEN fails a run only where the channel ate an event it needs, or   *)
(* the steps: the steps the lab gives are enough for every series of losses *)
(* and backoffs the budgets allow.                                          *)
THEOREM GateScenIsFair == RunSpec => []GateScenPasses
<1>1. RunSpec => []RunInv
  BY RunStaysWithin
<1>2. RunInv => GateScenPasses
  BY RunInvPasses
<1> QED
  BY <1>1, <1>2, PTL
=============================================================================
