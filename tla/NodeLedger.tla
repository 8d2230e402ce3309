----------------------------- MODULE NodeLedger -----------------------------
(***************************************************************************)
(* One SimNode under an arbitrary driver: any envelope at any time, any    *)
(* outcome of the radio, any frame from the air, a reboot between any two  *)
(* calls, and a clock that never goes back.  Two history variables keep    *)
(* the ledger of the events that leave the queue otherwise than through    *)
(* dropped_events; a third counts what the channel has answered, and knows *)
(* nothing of the retry table.                                             *)
(***************************************************************************)
EXTENDS SimNode

CONSTANTS
    Self,            \* node_id
    InboundFrames,   \* the frames the air may bring
    Times,           \* bound: the instants the clock takes
    MaxPacketSeq     \* bound: attempts in a run

ASSUME LedgerAssumption ==
    /\ Times \subseteq Nat
    /\ \A frame \in InboundFrames : frame.raw.event_id \in Ids

VARIABLES
    now,    \* now_ms of the driver
    sent,   \* history: the ids of the events the channel took
    lost,   \* history: the ids of the events a reboot threw away
    losses  \* history: per event, the attempts lost since it was queued

vars == <<nodeVars, now, sent, lost, losses>>

Init ==
    /\ NodeInit /\ now = 0
    /\ sent = {} /\ lost = {} /\ losses = [i \in Ids |-> 0]

\* The counts of the events that stay queued.
Kept(counts) == [i \in Ids |-> IF i \in IdsOf(queue') THEN counts[i] ELSE 0]

\* ble_ingest
BleIngest ==
    /\ \E env \in Envelopes :
          \/ IngestAccepted(now, env)
          \/ IngestUntranslatable(now, env)
          \/ IngestRefused(now, env)
    /\ losses' = Kept(losses)
    /\ UNCHANGED <<now, sent, lost>>

\* transmit_next, with the channel's answer.
Transmit ==
    /\ UNCHANGED <<now, lost>>
    /\ \/ /\ TransmitIdle(now) \/ TransmitGivesUp(now)
          /\ UNCHANGED sent /\ losses' = Kept(losses)
       \/ /\ packet_seq < MaxPacketSeq
          /\ \E best \in queue :
                \/ /\ TransmitSent(now, best)
                   /\ sent' = sent \cup {best.id} /\ losses' = Kept(losses)
                \/ /\ TransmitBusy(now, best)
                   /\ UNCHANGED <<sent, losses>>
                \/ /\ TransmitLost(now, best)
                   /\ UNCHANGED sent
                   /\ losses' = [losses EXCEPT ![best.id] = @ + 1]

\* receive_lora
Receive ==
    /\ \E frame \in InboundFrames :
          \/ ReceiveAccepted(Self, frame, now)
          \/ ReceiveIgnored(Self, frame, now)
    /\ UNCHANGED <<now, sent, lost, losses>>

Restart ==
    /\ \E preserve_seen \in BOOLEAN : Reboot(preserve_seen)
    /\ lost' = lost \cup IdsOf(queue) /\ losses' = Kept(losses)
    /\ UNCHANGED <<now, sent>>

Tick ==
    /\ \E t \in Times : t > now /\ now' = t
    /\ UNCHANGED <<nodeVars, sent, lost, losses>>

Next == BleIngest \/ Transmit \/ Receive \/ Restart \/ Tick

Spec == Init /\ [][Next]_vars

-----------------------------------------------------------------------------
(* The fields of a node have the types the code gives them. *)
TypeOK ==
    /\ queue \in SUBSET QueuedEvent
    /\ seen_ble \in SUBSET Ids
    /\ seen_lora \in SUBSET Ids
    /\ retry \in [Ids -> RetryState]
    /\ packet_seq \in Nat
    /\ dropped_events \in SUBSET QueuedEvent
    /\ anon_by_author \in [Authors -> AnonIds]
    /\ now \in Nat
    /\ sent \in SUBSET Ids
    /\ lost \in SUBSET Ids
    /\ losses \in [Ids -> Nat]

(* An id the node answers DUPLICATE to is the id of an event that still     *)
(* waits, that the radio took, that was dropped on the record, or that a    *)
(* reboot threw away: none vanishes on any path of ingest, eviction, retry  *)
(* and reboot.                                                              *)
NoSilentLoss ==
    seen_ble \subseteq IdsOf(queue \cup dropped_events) \cup sent \cup lost

(* An id outside the BLE dedupe ring is neither queued nor has it a trace   *)
(* in the retry table: an event accepted again after a reboot starts with   *)
(* its whole loss budget and no backoff.                                    *)
FreshWhenUnknown ==
    \A i \in Ids \ seen_ble : i \notin IdsOf(queue) /\ retry[i] = NoRetry

(* No two queued events share an id, though two envelopes may: the retry    *)
(* table, which is kept per id, speaks of one event.                        *)
QueueIdsUnique ==
    \A e, f \in queue : e.id = f.id => e = f

(* A queued event has never lost more attempts than the budget of its own   *)
(* priority allows.                                                         *)
WithinBudget ==
    \A e \in queue : retry[e.id].loss_attempts <= Budget(e.priority)

(* An event that transmit_next gives up on has had its whole budget, and no *)
(* more: since it was queued the channel has lost as many of its attempts   *)
(* as its priority allows.  What a busy channel deferred is not counted     *)
(* against it, nor are the losses of other events, or of an event of its id *)
(* before a reboot.                                                         *)
GivesUpInTime ==
    [][TransmitGivesUp(now) =>
          \A e \in queue \ queue' : losses[e.id] = Budget(e.priority)]_vars

(* No backoff reaches further than one backoff with its jitter from now: a  *)
(* head event that blocks the queue behind it blocks it for a bounded time. *)
StallBounded ==
    \A i \in Ids :
        retry[i].next_attempt_ms <= now + RETRY_BACKOFF_MS + RETRY_JITTER_MS

(* The queue never outgrows max_queue_size. *)
QueueBounded ==
    IsFiniteSet(queue) /\ Cardinality(queue) <= max_queue_size

(* What the authors of the accepted envelopes say their anon8 is. *)
Announced ==
    {<<env.author, env.anon>> : env \in {v \in Envelopes : Announces(v)}}

(* An event carries no anon8 but one its own author announced, or, for an   *)
(* SOS that arrived before any announcement, none.                          *)
AnonIsTheAuthors ==
    \A e \in queue :
        \/ <<e.author, e.anon>> \in Announced
        \/ e.event_type = "sos" /\ e.anon = ZeroAnon

(* An id that is known and no longer queued does not come back: whatever    *)
(* was sent, dropped or lost is not queued again while the dedupe ring      *)
(* remembers it.                                                            *)
NoResurrection ==
    [][\A i \in seen_ble : i \in IdsOf(queue') => i \in IdsOf(queue)]_vars

(* An event shed with attempts left makes room for a newcomer, which is     *)
(* queued in its place.                                                     *)
ShedForNewcomer ==
    [][\A e \in queue \cap (dropped_events' \ dropped_events) :
          ~Exhausted(e) => queue' \ queue # {}]_vars

(* What the envelopes can become: an SOS may carry any anon8 announced. *)
Events ==
    {QueuedAs(env, anon) :
        env \in {v \in Envelopes : v.priority \in WirePriority},
        anon \in AnonIds}

(* The node is a store-and-forward node. *)
Abstract == INSTANCE StoreAndForward WITH
    Event <- Events, Capacity <- max_queue_size,
    known <- seen_ble, held <- queue, dropped <- IdsOf(dropped_events)

AbstractSpec == Abstract!Spec
=============================================================================
