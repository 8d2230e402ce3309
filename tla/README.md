# A verification project for the IgniRelay lab

The lab (`src/ignirelay_lab`) simulates a disaster-relief network: phones hand
signed events to field nodes over BLE, nodes queue them and send them over LoRa,
a receiving node hands what it verified to a gateway, and the gateway stores each
event once.  The radio loses, garbles, doubles, delays and reorders frames; nodes
reboot.  These modules state what the lab's code promises through all of that,
model-check it on small instances and prove part of it for all sizes.

## 1. Inventory

| Component | Code | State | Operations |
|---|---|---|---|
| Data model | `model.py` | – | priorities, event types, heap order of queued events |
| SimNode | `actors.py` 275-552 | `queue` (heap), `seen_ble`, `seen_lora`, `retry`, `packet_seq`, `dropped_events`, `anon_by_author` | `ble_ingest`, `transmit_next`, `receive_lora`, `reboot` |
| FakePhone, FakeBleLink | `actors.py` 90-267 | the phone's identity and counter | build, sign and encode an event; hand its octets to a node; read the receipt |
| FakeLoRaChannel | `channel.py` | `pending`, a list of deliveries with due times | `transmit`, `drain_ready` |
| FakeGatewaySink | `actors.py` 573-603 | `events`, `routes` | `receive` |
| GatewayCliSink | `gateway_cli.py` | a JSONL file, a SQLite file, `events`, `routes` | `receive`, `finalize`, re-opening |
| Scenario driver | `scenario.py` | the loop's step, the accepted ids | `run_scenario`, five scripted scenarios and the real-stack adapters |
| Real-stack orchestration | `e2e_real_stack.py` | UDP hub with counters and taps, node processes, feed files, ports | `pump`, `replay_to_node`, `ingest_feed`, `run_e2e_real_stack`, `run_chaos_real_stack`, `stream_e2e_real_stack` |
| LORA-WIRE codec | `wire/lora_v1.py` | – | encode and verify EVENT and ACK frames |
| Envelope codec | `wire/envelope_v3.py` | – | protobuf writer and reader, ten messages, canonical signature input |
| Compact payloads | `wire/compact.py` | – | quantised payloads of presence, SOS and checkpoint |
| GATE-SCEN | `cli.py` 56-115 | – | `evaluate`: the verdict on a scenario's result |
| Keys, logs, fixtures, vector generator, argument parsing | `wire/keys.py`, `logging_utils.py`, `log_parser.py`, `corpus_fixtures.py`, `tools/`, `cli.py` | files | MACs and key derivation, printing, test vectors |

Interactions.  Everything in the simulation is a synchronous call made by one
driver.  The phone's octets go to `NodeA.ble_ingest`, which decodes, verifies and
translates them and answers with a receipt; `NodeA.transmit_next` calls
`channel.transmit` and reads its outcome; `channel.drain_ready` returns frames
that the driver hands to `NodeB.receive_lora` one by one; what that returns goes
to `gateway.receive` in a second call.  The asynchrony is in the channel (delay, order,
multiplicity) and in the reboots, which forget part of a node's state between any
two calls.

Hard behaviours, and what makes each component correct:

* **SimNode.**  Bounded queue with eviction; dedupe rings that outlive the events
  they remember; a retry table kept beside the queue, by id; head-of-line
  blocking; reboots that forget the queue and perhaps the rings.  Correct when no
  accepted event disappears off the record, nothing is queued twice, budgets and
  queue stay bounded, more severe goes first and stays longest.
* **Channel.**  A frame can be on air and reported LOST (garbled), or SENT and on
  air twice.  Correct when the sender's view agrees with what can still arrive.
* **Receiving node and gateway.**  The ring is written inside verification,
  before the gateway hears of the frame.  Correct when the ring never refuses
  what nobody stored, and when the gateway's row is the accepted event, once.
* **First hop.**  Hand-written protobuf over a link that may damage what it
  carries; defaults that are left out on the wire; seals over some of the fields.
  Correct when only what the phone signed is queued, and the phone may believe
  the receipt.
* **Driver and verdict.**  The loop stops on a count or when its steps are used
  up; the verdict is a few comparisons on ids and log reasons.  Correct when
  every accepted event is settled by then or still somewhere, and when the
  verdict is bad only where the channel could spoil the run.
* **Gateway behind files.**  Two programs run one after the other on files that
  outlive the process; either may fail, and a new sink empties the one file and
  keeps the other.  Correct when nothing is lost but what a restart empties, and a
  report that is returned is that of the database: whole for a sink that was
  handed something, empty for one that was handed nothing.
* **Real stack.**  The driver shares sockets, output files, a live feed, journals
  and a database with node processes that do not wait for it, and takes silence
  for completion.  Correct when what it concludes (ready, heard, fed, reported)
  is about this run and these processes, whatever runs before it left behind and
  whenever the silence comes.
* **Wire.**  Fields are cut to their width, lengths are trusted before the seals
  are looked at, the ring is written by the verification.  Correct when what is
  accepted is what somebody of the field asked to send, and what a reader of a
  payload learns is what the phone reported.

## 2. Modules

| Module | What it is |
|---|---|
| `LabModel` | the data: envelopes, queued events, heap order |
| `SimNode` | the node class: its fields, one action per way a call can go |
| `StoreAndForward` | abstract: what a store-and-forward node promises |
| `NodeLedger` | one `SimNode` under an arbitrary driver, with a ledger of what leaves the queue; implements `StoreAndForward` |
| `NodeLedgerProofs` | theorems about `NodeLedger` |
| `Subsequences` | what a list comprehension with a condition makes of a list |
| `FakeLoRaChannel` | the radio |
| `FakeGatewaySink` | the gateway |
| `EventStore` | abstract: exactly-once storage of accepted events |
| `RelayLab` | phone, NodeA, radio, NodeB, gateway under an arbitrary driver; implements `EventStore` |
| `RunScenario` | the lab's own driver: every scenario on simulated nodes as a plan of calls, over `RelayLab`'s actions, and GATE-SCEN's verdict on it |
| `GatewayDb` | external: the gateway program and its database, as the lab uses it |
| `GatewayCliSink` | the gateway behind files, with restarts and failures; implements `EventStore` |
| `LoRaUdpHub` | the shared medium of the real stack |
| `FieldNode` | external: the C node program, as the lab uses it |
| `RealStack` | the three real-stack drivers over hub, node processes and gateway, the chaos report, and GATE-SCEN's verdict |
| `ScenarioPorts` | the port plans of scenarios that overlap |
| `LoraWire` | LORA-WIRE frames: encoding, the channel's flips, the receive pipeline |
| `EnvelopeSchema` | the messages of the envelope codec as lists of fields |
| `EnvelopeV3` | the protobuf writer and reader of these messages |
| `EnvelopeCodec` | messages between a writer and a reader: fields of later versions, cuts |
| `CompactPayload` | the compact payloads, octet by octet |
| `PhoneToNode` | the first hop in octets: the phone, the link, decoding, checks, translation and receipts, around `SimNode`'s ingest; the codec is a parameter, given by `EnvelopeV3` in the run |
| `SharedLemmas` | lemmas that the proofs share: ranks, subsequences, repeats, lists; what an ingest does to the database |
| `NodeLedgerProofs`, `RelayLabProofs`, `RunScenarioProofs`, `GatewayCliSinkProofs`, `LoraWireProofs`, `RealStackProofs`, `PhoneToNodeProofs` | theorems about the modules they are named after |
| `MC*` | instances for TLC: envelopes, frames, messages, profiles, runs |

Correspondence.  Variables and operators keep the names of the code.  A call is
one action; the ways it can return are its disjuncts (`ble_ingest` is
`IngestAccepted`, `IngestUntranslatable`, `IngestRefused`; `transmit_next` is
`TransmitIdle`, `TransmitGivesUp`, `TransmitSent`, `TransmitBusy`,
`TransmitLost`).  Between `NodeBReceives` and `DriverHandsOn` of `RelayLab` an event
is in the driver's hands (`handed`): NodeB's ring knows it and the gateway does
not, and anything but another frame for NodeB may come first.  The random draws of the code are choices: a percentage allows
the outcomes it can have (0 never hits, 100 always does), delays and jitters come
from small sets.

`RunScenario` gives the control of the scenarios back.  A scenario is its `plan`,
the calls its function makes in their order: `send` is the phone's event over the
link, `hear` a frame that NodeB receives and hands to the sink, `overhear` one
whose result the script ignores, `loop` the main loop with its phases.  Nothing runs
between the two calls of `hear` here, so it is one step (`handed` stays empty).  Every
action takes one of `RelayLab`'s actions or leaves `RelayLab`'s variables to the
script.  The sink is `FakeGatewaySink` or, in cli mode and in `gateway_reboot`,
a `GatewayCliSink` that reports when it is finalized.

`EnvelopeV3` has one `Encode` and one `Decode` for all messages: the methods of
the ten classes differ only in the fields they name, which the definitions of `EnvelopeSchema` named
after the classes list with their kinds.  `PhoneToNode` hands `SimNode` the envelope that
comes out of `decode_envelope` and the checks (`Seen`), so that the field `fault`
of `LabModel`'s envelopes, a choice elsewhere, is computed there.

In `RealStack` a driver has a program counter and every step it takes is an
action; a run is a scenario with its profile, and its `mode` says which of
`run_e2e_real_stack`, `run_chaos_real_stack` and `stream_e2e_real_stack` runs it.
They share their steps and differ in which come.  `WaitsFor`, `Ingest` and `IngestAgain` may raise, which
leads to the `finally` clause.  `FieldNodes` goes on beside all of them.

Abstractions.

* The heap is a set; `IsFront` is the least event in the dataclass order, which is
  what `heapq` keeps in front.  Which of several least severe events is shed
  depends on the heap's array, so any of them may be.
* `heapq` belongs to Python's library: the code changes the list by `heappush`,
  `heappop`, `clear` and a `pop` followed by `heapify`, so that its front is the least.
* Outside `PhoneToNode` an envelope carries the verdict of decoding and verifying
  it (`fault`); a payload is the anon8 it carries; an event type without a compact
  translation is `"other"`.
* The bytes of a frame are the record `raw`, with the ttl and the packet sequence
  number reduced to their width on the wire and the clock modulo `U48`; a garbled
  frame fails verification, by CRC in general.
* `dropped_events` is a set where the code keeps a list.
* A missing entry of the retry table is an entry at its defaults: the code reads
  the table only after `setdefault`.
* Log lines are left out, but for the refusals that GATE-SCEN looks for
  (`reasons`) and the lines of a node's output that the real stack counts.  Of the
  receipts `RunScenario` needs the accepted ids only (`accepted`); `PhoneToNode`
  has them in octets.
* History variables (`sent`, `lost`, `losses`, `accepted`, `sent_before`, `wipes`) are
  read by properties and by no guard, except `wipes`, which a bound caps.  `losses`
  counts for each event what the channel answered since it was queued, apart from the
  retry table, so that giving up is compared with the answers and not with itself.
* `seen_lora` of NodeA and every field of NodeB but its ring stay as constructed:
  the driver sends nothing the other way.

* The C node (`FieldNode`) and the gateway program (`GatewayDb`) are not in this
  repository; the modules say what the lab's drivers rely on of EVENT frames,
  journals, receipts and rows, and leave the rest open.  A restarted node resumes what
  its journal has it put on air, as the tests of `test_w5_review_regressions.py`
  expect (92-104, 619-639), or has lost its journal; an ingest that fails has stored any
  part of its records.
* The ACK frames that these tests show on air (75-81, 381-395) are left out.  A
  node that an ACK stops is a node that does not go on, which the model allows at any
  time.  The hub taps, counts and feeds them like other frames, which moves the
  counters of `ReportIsTrue` on both sides of its equations; canonical rows, order and
  duplicates come from EVENT frames only (`e2e_real_stack.py` 515); no ACK of NodeB falls
  into the window of `WindowIsNodeAs`, where NodeB hears nothing.  `_frame_event_id` (618)
  would raise on a verified ACK, but NodeA's SOS is tapped before any in the one
  mode that calls it (`FirstInv`), and the search ends there.
* A pump of the hub may end at any instant: whether a node is backing off or the
  time is up is not the hub's to know.  A partition in milliseconds opens and
  closes at any instants after the injection (`WindowMoves`).
* A flipped frame of the hub is refused by whoever verifies it (`LoraWire` looks
  at why).  Journals and the database of an earlier run, which made the same
  event ids, are in `RealStack`'s initial states.
* A run of the real stack that is skipped because there is no node program is
  left out: GATE-SCEN calls it passed.
* In `EnvelopeV3` an octet has two halves of `GROUP` values, the upper half with
  the continuation bit; a text is its octets, and one with an octet of the upper
  half is none (ASCII: the lab's texts are).  A reading is a set, empty where the
  reader raises `ProtoDecodeError`; another exception is a value of its own.
* In `PhoneToNode` a signature or MAC is the number of a signing, and holds of
  the canonical input signed then and of nothing else; an event id, a hash of the
  phone, the type and the counter, is the last two.
* In `LoraWire` a frame is its fields, its size and its two seals, and a seal is
  what it was computed over, so it holds of nothing else.  An octet that does not
  reach a field's lowest octet is not told apart from one that does.
* `CompactPayload` has the number of values of an octet as its constant `BYTE`.
* History variables of these modules (`received`, `reported`, `lost`, `asked`, `damage`)
  are read by properties only, but for `damage`, which allows one damage per frame.

## 3. Runs

| Run | Question | Bounds |
|---|---|---|
| `node_ledger` | Does one node keep its promises under any driver? | 3 ids, 2 authors, 7 envelopes (two share an id and differ in priority, one expires, one has no translation, one a bad signature, one a bad priority), queue of 2, budgets 2 and 1, clock 0, 100, 200, two attempts on air (`MaxPacketSeq`), 5 inbound frames; `U48` cut to 30 bits, as in every run but `phone_to_node`, where it is six of its octets |
| `node_shed` | Is an event only ever shed for a newcomer that is queued? | as above, queue of 1. **Violated**: see Findings |
| `relay_lab` | Does the path as a whole store each accepted event once, and what may each end conclude of the other? | 2 ids, queue of 1, budgets 1, 2 attempts (`MaxPacketSeq`), a frame and its echo on air at once (`MaxOnAir`), one loss of NodeB's ring (`MaxWipes`), every percentage strictly between 0 and 100 |
| `run_scenarios` | Does GATE-SCEN pass every scenario that no draw can spoil, and is everything settled, the severe first? | the constants of the code; the nine scenarios on simulated nodes, both gateway modes, 160 steps; `profiles/normal.json` and `profiles/loss_20.json` with extreme jitters and delays; `normal` also on `loss_20.json`, as `--profile` allows |
| `run_busy` | Does the cut-off lose anything on `profiles/channel_busy_80.json`? | as above, `busy_sos`, the loop cut to 12 steps |
| `gateway_files` | Does the gateway behind files lose or double anything? | 2 events, one by way of two last hops, 4 records per sink (`MaxRoutes`) |
| `real_stack` | Is what the drivers conclude about this run, at whatever moments pumps end, steps fail and nodes act? | the two nodes and two events of the code, 3 attempts; the scenarios `e2e_real_stack`, `c4_live`, `loss_50`, `partition_heal`, `asymmetric_link` with their profiles, one with loss, corruption, a partition and a dead link at once, one with a partition in time; 4 to 8 frames put on air by the nodes, a bound of each run |
| `scenario_ports` | Can scenarios that overlap collide? | the six scenarios of the code. **Violated** |
| `lora_wire` | What does a receiver accept, and what does its ring learn? | the widths of the code but the 48-bit clock, which is cut to 30 bits because TLC's integers have 32; ttl 0, 6 and 256; payloads of 0, 10, 64, 65 and 266 octets; two fields' keys |
| `lora_flip` | Is a flipped frame refused by its CRC or MAC? | two plain frames. **Violated** |
| `codec` | Does a reader get what the writer had, and nothing else from a part of it? | octets of two groups of 8 values, integers of 20 bits, varints of up to 7 octets; every message with zeros, signs, the largest values, absent and repeated parts; four unknown fields, before or behind; every cut |
| `phone_to_node` | Is what the node queues what the phone signed, is the receipt true, does a reader of the payload learn what was reported? | octets of 16 values, ids and keys of two; four scripts of one or two reports at the edges of the fields; a queue of one; two instants; every cut, two flips of every octet, five appended fields; each envelope sent any number of times, reboots |

Why these are enough.  In `node_ledger` a queue of two meets an SOS, a presence
and a third event, so eviction, refusal, backoff with something waiting behind,
exhaustion and re-ingest after a reboot with either kind of ring all happen; two
envelopes with one id and different priorities are what the per-id tables could
confuse.  Two attempts reach a loss followed by a delivery and, with a budget of
one, a loss followed by giving up.  In `relay_lab` one retransmission after a
garbled frame, one duplicate and one loss of each ring give every order of
delivery, forgetting and re-acceptance of two events, each of them also while an event
is in the driver's hands.  `run_scenarios` and `run_busy`
use the real budgets, backoff and step length, and the bounds that remain
(`MaxPacketSeq`, `MaxOnAir`) are beyond what 160 steps can reach.

`gateway_files` has room for two ingests of each
event by way of either hop, with a restart or a failure before, between and
after.  Six frames let `e2e_real_stack` send both events, relay them and repeat
them before or after the restart; eight let the run with all troubles leave its
partition of four frames with four to be lost, garbled or heard, and
`partition_heal` repeat what the partition took.  Octets of 8 or 16 values give
the codecs every sign, carry, continuation and saturation that 256-valued ones
have, since nothing in the code depends on the number but through the widths that
are constants of the modules.

What each property says is in the comment above it.  The ones to read first:
`NoSilentLoss`, `AbstractSpec` (node), `WaitingIsUndelivered`, `StoreSpec` (path),
`GateScenPasses`, `NothingVanishes`, `SevereArriveFirst`, `EventuallySettled`
(driver), `OnlyWhatWasSigned`, `ReceiptIsTrue` (first hop),
`ReceivedIsRecoverable` (gateway behind files), `RestartAddsOnlyUnheard`,
`ReportIsTrue`, `VerdictIsTrue` (real stack), `AcceptedIsAsAsked` (wire).

Fairness.  `RunSpec` assumes weak fairness of the driver's next step, and nothing
else: `run_scenario` is sequential code that goes on for as long as it can.  No
outcome of the radio is assumed to be fair; events settle because the budgets run
out.  The arbitrary drivers of `NodeLedger` and `RelayLab` have no fairness and no
liveness property, and neither have the modules of the gateway, the real stack
and the wire: pumps, processes and files give no promise that they go on.

Deadlock is checked but where the system does stop: when the drivers of
`RunScenario` and `RealStack` are done, and when a message of `EnvelopeCodec` is
read.

Every property that a passing run checks has a mutation in `PROJECT.json` (`Bug_...` operators beside the
definitions they mutate) that it notices.

## 4. Proofs

`NodeLedgerProofs` proves, for all envelopes, authors, queue sizes, budgets,
backoffs, clocks and inbound frames, under the assumptions `EnvelopesAssumption`,
`NodeAssumption` and `LedgerAssumption` (which TLC evaluates on the instances):

| Theorem | Property | Argument |
|---|---|---|
| `TypeCorrect` | `TypeOK` | inductive; needs that the anon8 map only takes announced values |
| `FreshBudgets` | `FreshWhenUnknown` | inductive with the types: only a queued id's retry entry changes, and a queued id is known |
| `UniqueIds` | `QueueIdsUnique` | a fresh id cannot be queued, by `FreshBudgets` |
| `BudgetsHold` | `WithinBudget` | the table is kept per id: needs `UniqueIds` (an entry speaks of one event) and `FreshBudgets` (a new event starts at zero) |
| `GivesUpOnlyWhenSpent` | `GivesUpInTime` | a step property: the retry table agrees with the channel's answers counted in `losses` for as long as an event is queued, so the one that is dropped has lost exactly its budget, neither less nor more |
| `StallsAreBounded` | `StallBounded` | inductive with the types, since the clock does not go back |
| `QueueStaysBounded` | `QueueBounded` | `RoomForOne`: what `RoomFor` keeps has room for one more |
| `NothingIsSilentlyLost` | `NoSilentLoss` | inductive on its own |
| `AnonsAreTheAuthors` | `AnonIsTheAuthors` | strengthened by `MemoryIsTheAuthors`: the map that survives reboots holds what each author announced |
| `QueueHoldsEvents` | – | what is queued is the translation of some envelope; `LeastSevere` and `IsFront` then speak of priorities that can be compared |
| `ImplementsStoreAndForward` | `AbstractSpec` | `StepSimulates`: each way a call goes is a step of `StoreAndForward` or a stutter, from `TypeOK`, `QueueBounded` and `QueueOfEvents` |
| `NothingIsResurrected` | `NoResurrection` | step property: only an accepted id enters the queue, and it was not known |

The steps of `transmit_next` are summed up in `TransmitRetry`, those of the
eviction in `RoomMade`; the other lemmas are about types.

`GatewayCliSinkProofs`, under `SinkAssumption` (a node hands on intact frames only,
which `receive_lora` has verified):

| Theorem | Property | Argument |
|---|---|---|
| `TypeCorrect` | `TypeOK` | inductive: each row of the database is made of a record received, each row of the report is one of the database; `SharedLemmas` says what an ingest, whole or in part, adds |
| `NothingReceivedIsLost` | `ReceivedIsRecoverable` | inductive with the types: the file is emptied by a restart only |
| `ReportsAreComplete` | `ReportIsComplete` | `ReportInv`: after a finalize that returned, until the next receive, the file has nothing more for the database, also while later finalizes raise; a sink that was handed something reports all rows, one that was handed nothing reports none, whatever rows earlier sinks left |
| `ImplementsEventStore` | `StoreSpec` | each step adds rows to the database or stutters: an ingest never replaces one |

`LoraWireProofs`, for every width of the fields, every request and every key, under
`WireAssumption` (an octet holds the largest payload's length and has an even
number of values; a flipped MAC is nobody's) and `SendersAssumption` (the types of what
a sender asks for):

| Theorem | Property | Argument |
|---|---|---|
| `AcceptsAsAsked` | `AcceptedIsAsAsked` | `WireInv` ties the frame on air to what was asked and to the damage done; a case for each kind of damage shows which check it fails |
| `RingLearnsAccepted` | `RingLearnsAcceptedOnly` | a step property from the same invariant |

`RelayLabProofs`, for every envelope, profile, delay, instant, queue size and
budget, under the assumptions of `SimNode` and `FakeLoRaChannel` and
`LabAssumption`:

| Theorem | Property | Argument |
|---|---|---|
| `TypeCorrect` | `TypeOK` | inductive; a drain that reorders hands out what is due and keeps the rest (`DrainParts`, `ReorderedKeeps`, on `SubsequenceKeeps`) |
| `PathHolds` | – | `PathInv`, inductive: what flies is the frame of an accepted event, and rings, rows, queue and what was sent agree |
| `RingStaysStored` | `RingIsStored` | part of `PathInv`: what the ring knows is stored, or in the driver's hands |
| `WaitingStaysUndelivered` | `WaitingIsUndelivered` | from `PathInv`: an intact copy flies only of what was sent |
| `SentStaysCarried` | `SentIsCarried` | `CarriedInv`, with the hypothesis `WithinReach`: no hop count is 0 in the ttl octet and every instant is within the replay window of every event's clock, cut to six octets; without it NodeB refuses what the radio delivered, and a hop count of 256 is such a case |
| `RoutesAreOnePerRing` | `OneRoutePerRing` | `RoutesInv` counts the routes of an id against the rings lost and whether the ring knows it now |
| `ImplementsEventStore` | `StoreSpec` | each step adds the row of an accepted event or stutters |

Its steps are first brought down to eight kinds (`PathStep`), each saying what it adds to
or takes from what flies (`Flying`) and what the driver holds, so that the invariants need one case for each.

`RunScenarioProofs`, for every set of runs (scenario, gateway mode, profile, steps),
delays, jitters, backoffs, budgets, step lengths and bounds, under the assumptions of
`RelayLab`'s modules and

* `ScenarioAssumption`: the events are those the scripts build, the names and modes
  those of `scenario.py`;
* `InstantsAssumption`: the instants of the calls are among `Times`;
* `FiguresAssumption`: the queue has room for two events, a frame has hops left in its
  ttl octet, the calls come within the replay window of the first, and on a profile
  without busy channel the steps last for every attempt the two budgets allow, each after
  the longest backoff, and for the longest delay after them (3.2 s of the lab's 16 s).

| Theorem | Property | Argument |
|---|---|---|
| `RunStaysWithin` | – | `RunInv`, inductive: `PlanInv` says which calls are left; `MainInv` and `SpecialInv` what holds at that call, of the loop and of the scripts of their own |
| `SevereFirst` | `SevereArriveFirst` | `SevereInv`: as long as it is not lost, the SOS waits and the presence was not sent, or it is on its way `Ahead` of the presence, or NodeB has heard it `InOrder`. `Ahead` follows the phases of a step: what is sent in one step is due before the next, so the channel may reorder within a drain and never across two (`LeadKeptSent`, `LeadKeptDrained`, `LeadKeptHeard`) |
| `NothingIsLost` | `NothingVanishes` | `PlaceInv`: an accepted event is in one place, queued, dropped, on air or with NodeB; `SinkInv`: what NodeB has the sink shows in the end |
| `GateScenIsFair` | `GateScenPasses` | `TimeInv` compares the clock with the turns NodeA has had, a failed attempt or an event done with (`Turns`): at the last step there are none left to take (`StepsAreEnough`). `AttemptsInv`: only a lossy channel costs attempts. In the scripts of their own: `SosHeard`, `SosShown` and `ReplayRefused`, call by call |

Both hypotheses of `SevereArriveFirst` on the delays are needed.  With a delay of a step
or more the presence may overtake the SOS.  So it may where some frames have a delay
and some have none, which the attempt to prove `Ahead` brought out: a SOS with a delay
is drained in the next step, together with a presence sent in that step without
any, and a channel that reorders hands out either first.  Every profile of the lab
has delays above 0; `channel_busy_80.json` has some above a step, so nothing is said
of it.  GATE-SCEN does not look at the order.

`RealStackProofs`, for every list of runs, profile, number of frames and bound on
attempts, under `StackAssumption` (two nodes, two events, the SOS the more
severe, percentages; runs that give the hub no profile have `NoTrouble`;
`partition_heal` drops at least as many frames as there are events: its profile has
4) and `FieldNodeAssumption`:

| Theorem | Property | Argument |
|---|---|---|
| `TypeCorrect` | `TypeOK` | inductive on its own |
| `StackHolds` | – | `StackInv`, the types and eleven parts, each kept by the steps that can disturb it |
| `NodesAreStopped` | `OnlyNodeB2Outlives` | `LifeInv`: at which stages there is a second NodeB, and an exception under way |
| `DriverGoesOnWhenReady` | `ReadyIsItsOwn` | `ReadyInv`: behind the offset where a process started, a ready line means that it is ready |
| `PhoneIsNeverStale` | `InjectedIsNews` | `QuietInv`: where the journals are removed, nothing moves and nobody knows an event until NodeA takes the batch |
| `TapsAreFedOnce` | `EachTapIsFedOnce` | `FedInv`: how much of the tap is in the feed file at each stage; the tap only grows (`TapGrows`) and two slices make the whole (`FeedInSlices`) |
| `WindowCountsNodeA` | `WindowIsNodeAs` | `WindowInv`: while frames are taken away, NodeB holds and is sent nothing |
| `RestartDisturbsNothing` | `RestartAddsOnlyUnheard` | `HeardInv`: the rows first read are those of the frames tapped by then, intact in this mode |
| `ChaosReportIsTrue` | `ReportIsTrue` | `HeardInv` and `CountInv`; that the frames beyond the rows are those that repeat an event is a count of its own (`RepeatsAreTheRest`) |
| `GateSaysWhatHappened` | `VerdictIsTrue` | `VerdictInv`: with a row heard, the first frame is the SOS (`FirstInv`), NodeA has given its receipts (`ReceiptInv`), and behind a partition by frames it has repeated itself, since before that no more frames are sent than there are events (`AttemptInv`) |

`PhoneToNodeProofs`, for every script of reports, clock, damage of the octets, size of
the queue and of an octet, and for every codec (`blank`, `encode`, `decode`,
`decode_envelope` are parameters of `PhoneToNode`), under `CodecAssumption`,
`CompactAssumption`, `FirstHopAssumption`, and

* `CodecContract`: the fields have their defaults, the reports that the scripts may
  hold and every receipt are read as they were written, and an id that is read, of
  whatever arrives, is `ID_BYTES` octets.  Nothing is assumed of what else damaged
  octets are read as.  TLC evaluates it with `EnvelopeV3` on the instance of the run,
  and the run `codec` checks `RoundTrip` on messages of every kind;
* `ScriptsAssumption`: reports that fit the fields, no more of them than there are
  seals, instants of 64 bits;
* `HashAssumption`: the ids of different events differ, and an anonymous id is told
  by the number that stands for it.

| Theorem | Property | Argument |
|---|---|---|
| `QueueIsAuthentic` | `OnlyWhatWasSigned` | `Inv`: reports, signings and the datagram belong together (`PhoneInv`), so an envelope that passes the checks has the signed fields of a report (`GenuineIsSigned`), and those are all the node looks at (`SignedSaysAll`) |
| `ReceiptsAreTrue` | `ReceiptIsTrue` | `Inv`: a whole envelope passes every check (`WholePasses`), so it is turned away by a full node only (`TurnedAwayByAFullNode`) |
| `ReadingsAreFaithful` | `ReadingIsFaithful` | `Inv` also says that the payload of a queued event is the translation of its report (`IsPayload`); the rest is about the octets: `LocationIsRead`, `PresenceIsRead`, `CheckpointIsRead`, `SosIsRead`, on the arithmetic of two and four octets (`TwoDigits`, `U16Read`, `I32Read`) |
| `LocationIsRead` | – | each octet of the 13, then the reader's sums; a negative coordinate is its rest modulo `U32` |

TLC has checked the parts of `StackInv` and `RunInv`, like the other strengthened invariants, on the
instances of the runs.

Only model-checked:

* `RunScenario`'s `EventuallySettled`: liveness under fairness, which the prover cannot
  treat.  What remains of it without fairness is proved: a run that is over has
  settled its events;
* `EnvelopeCodec`: `EnvelopeV3` reads nested messages with RECURSIVE
  operators, which the prover cannot use, and what they compute for every message is
  an induction over data.  `PhoneToNode` therefore takes the codec as a parameter;
* the three properties that are violated.

## 5. Findings

`node_shed`: `ble_ingest` sheds a queued event, records it as dropped for a more
severe newcomer, and only then translates the newcomer.  For an event type
without a compact translation `_translate` raises: the shed event is gone and
nothing took its place, where the comment says the event is shed for the newcomer
or the newcomer is rejected (`actors.py` 334-350).

`scenario_ports`: node ports start at 9401 and BLE ports at 9501, and `c4_live`
has the base 100, so its node ports are the BLE ports of `e2e_real_stack`: the
comment above `PortLayout` says that overlapping scenarios cannot collide
(`e2e_real_stack.py` 52-54, 63-80).

`lora_flip`: the octet that the channel flips may be the payload length, which the
receiver checks before any seal, so the frame is refused as too long or too
short; the comment in `_corrupt` says the CRC is what refuses it
(`channel.py` 74-76, `wire/lora_v1.py` 205-212).  It is refused all the same.

## 6. Plan

Done: the node, the radio, the gateway, the path; every scenario of the lab and
GATE-SCEN's verdict; the gateway behind files; the real stack with its profiles
and its report; the envelope codec, the first hop, the LORA-WIRE pipeline and the
compact payloads.  Proved: the safety properties of the node, the path, the lab's
driver with GATE-SCEN's verdict, the gateway behind files, the wire, the real stack
and the first hop, and the refinements of `StoreAndForward` and `EventStore`.  Left to
TLC: liveness and the codec.

## 7. Not modelled

* Cryptographic primitives and key derivation (`wire/keys.py`): a check succeeds
  or fails.
* The checks of `wire/envelope_v3.py` that only the corpus tests call
  (`check_...`, `classify_corpus_negative`, `lcg_payload`): comparisons of one or
  two numbers, without state; the node has its own checks, which are modelled.
* Argument parsing and printing of `cli.py`, log files, fixtures, and the
  generator of C test vectors.
* What the profiles name and no code reads (`broadcast_storm_nodes` and the
  partition fields, for the simulated channel).
* What others do to a live feed during the run: `CallersLines` are there before it
  starts and must still be there, in front; lines its owner adds later, and the
  program that follows it, are not modelled.
* A second NodeB that an exception leaves running (`e2e_real_stack.py` 595):
  `OnlyNodeB2Outlives` says that nothing else is left, and allows that.
* A full transmit queue of the C node, which rejects a relay.
