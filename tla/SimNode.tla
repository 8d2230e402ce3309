------------------------------ MODULE SimNode -------------------------------
(***************************************************************************)
(* A simulated field node (ignirelay_lab/actors.py, class SimNode): BLE    *)
(* ingest of phone envelopes into a bounded priority queue, transmission   *)
(* of the queue over LoRa with a loss budget and a backoff, reception of   *)
(* LoRa frames, and reboot.                                                *)
(*                                                                         *)
(* The module gives the class: its fields and one action per way a call    *)
(* can go, with the arguments of the call as parameters.  NodeLedger runs  *)
(* one node under an arbitrary driver, RelayLab composes two of them with  *)
(* the channel and the gateway.                                            *)
(*                                                                         *)
(* The heap is a set: heapq keeps the least event under Before at its      *)
(* front, which IsFront picks.                                                *)
(***************************************************************************)
EXTENDS LabModel

CONSTANTS
    max_queue_size,
    LOSS_BUDGET_CRITICAL,    \* lost attempts allowed to an SOS_RED event
    LOSS_BUDGET_DEFAULT,     \* lost attempts allowed to any other
    RETRY_BACKOFF_MS,
    RETRY_JITTER_MS,
    Jitters,                 \* the jitters a node may draw
    DEFAULT_TTL,             \* the ttl of an envelope without max_hops
    HLC_REPLAY_WINDOW_MS,
    BYTE, U16, U48           \* moduli of the wire's ttl, packet_seq and clock

ASSUME NodeAssumption ==
    /\ max_queue_size \in Nat \ {0}
    /\ LOSS_BUDGET_CRITICAL \in Nat \ {0}
    /\ LOSS_BUDGET_DEFAULT \in Nat \ {0}
    /\ RETRY_BACKOFF_MS \in Nat \ {0}
    /\ RETRY_JITTER_MS \in Nat
    /\ Jitters # {} /\ Jitters \subseteq 0..RETRY_JITTER_MS
    /\ DEFAULT_TTL \in Nat \ {0}
    /\ HLC_REPLAY_WINDOW_MS \in Nat
    /\ BYTE \in Nat \ {0}
    /\ U16 \in Nat \ {0}
    /\ U48 \in Nat \ {0}

VARIABLES
    queue,            \* the events waiting for the radio
    seen_ble,         \* envelope ids accepted over BLE (dedupe ring)
    seen_lora,        \* event ids accepted over LoRa (replay ring)
    retry,            \* per event id: losses so far, earliest next attempt
    packet_seq,
    dropped_events,   \* evicted or given up
    anon_by_author    \* the anon8 each author announced last

nodeVars == <<queue, seen_ble, seen_lora, retry, packet_seq, dropped_events,
              anon_by_author>>

RetryState == [loss_attempts : Nat, next_attempt_ms : Nat]

\* An absent entry of the retry table behaves as RetryState() does: the code
\* reads the table only after setdefault.
NoRetry == [loss_attempts |-> 0, next_attempt_ms |-> 0]

NodeInit ==
    /\ queue = {}
    /\ seen_ble = {}
    /\ seen_lora = {}
    /\ retry = [i \in Ids |-> NoRetry]
    /\ packet_seq = 0
    /\ dropped_events = {}
    /\ anon_by_author = [a \in Authors |-> ZeroAnon]

\* A definition whose name starts with Bug_ is the next definition with a
\* plausible slip.  Nothing uses it: the mutations listed in PROJECT.json put
\* it in that definition's place to see that a property notices.

-----------------------------------------------------------------------------
(* BLE ingest *)

Bug_AnyPriority(now, env) ==
    /\ env.fault = "none" /\ env.expires_ms >= now
    /\ env.id \notin seen_ble

Bug_DedupesOnQueue(now, env) ==
    /\ env.fault = "none" /\ env.expires_ms >= now
    /\ env.id \notin IdsOf(queue) /\ env.priority \in WirePriority

\* The checks before anything changes: the envelope decodes and verifies, has
\* not expired, is not a duplicate, and its priority is one of the six.
Admissible(now, env) ==
    /\ env.fault = "none"
    /\ env.expires_ms >= now
    /\ env.id \notin seen_ble
    /\ env.priority \in WirePriority

LeastSevere == {w \in queue : \A e \in queue : e.priority <= w.priority}

\* The queues that have room for env: the queue itself, or, when it is full,
\* the queue less one least severe event that env outranks.  None: queue-full.
RoomFor(env) ==
    IF Cardinality(queue) >= max_queue_size
    THEN {queue \ {w} : w \in {v \in LeastSevere : v.priority > env.priority}}
    ELSE {queue}

Translatable(env) == env.event_type # "other"

\* A presence or a checkpoint carries the anon8 of its author; an SOS carries
\* the one its author announced last.
Announces(env) == env.event_type \in {"presence", "checkpoint"}

Bug_AnyonesAnon8(env) ==
    IF Announces(env) \/ anon_by_author[env.author] # ZeroAnon
    THEN env.anon
    ELSE CHOOSE n \in {anon_by_author[a] : a \in Authors} :
            \A a \in Authors : anon_by_author[a] <= n

Anon8(env) == IF Announces(env) THEN env.anon ELSE anon_by_author[env.author]

QueuedAs(env, anon) ==
    [id |-> env.id, event_type |-> env.event_type, priority |-> env.priority,
     created_ms |-> env.created_ms, created_counter |-> env.created_counter,
     ttl |-> IF env.max_hops > 0 THEN env.max_hops ELSE DEFAULT_TTL,
     author |-> env.author, anon |-> anon]
Queued(env) == QueuedAs(env, Anon8(env))

\* ACCEPTED: make room, translate, remember the id, queue the event.
IngestAccepted(now, env) ==
    /\ Admissible(now, env)
    /\ Translatable(env)
    /\ \E kept \in RoomFor(env) :
          /\ queue' = kept \cup {Queued(env)}
          /\ dropped_events' = dropped_events \cup (queue \ kept)
    /\ seen_ble' = seen_ble \cup {env.id}
    /\ anon_by_author' = IF Announces(env)
                         THEN [anon_by_author EXCEPT ![env.author] = env.anon]
                         ELSE anon_by_author
    /\ UNCHANGED <<seen_lora, retry, packet_seq>>

\* The translation raises, after the eviction and before the id is remembered.
IngestUntranslatable(now, env) ==
    /\ Admissible(now, env)
    /\ ~Translatable(env)
    /\ \E kept \in RoomFor(env) :
          /\ queue' = kept
          /\ dropped_events' = dropped_events \cup (queue \ kept)
    /\ UNCHANGED <<seen_ble, seen_lora, retry, packet_seq, anon_by_author>>

Bug_RemembersRefused(now, env) ==
    /\ Admissible(now, env) /\ RoomFor(env) = {}
    /\ seen_ble' = seen_ble \cup {env.id}
    /\ UNCHANGED <<queue, seen_lora, retry, packet_seq, dropped_events,
                   anon_by_author>>

\* REJECTED, DUPLICATE, or a ValueError for a priority above NORMAL.
IngestRefused(now, env) ==
    /\ ~Admissible(now, env) \/ RoomFor(env) = {}
    /\ UNCHANGED nodeVars

-----------------------------------------------------------------------------
(* LoRa transmission *)

Budget(priority) == IF priority = SOS_RED THEN LOSS_BUDGET_CRITICAL
                                          ELSE LOSS_BUDGET_DEFAULT

Bug_OldestFirst(best) ==
    best \in queue /\ \A e \in queue : best.created_ms <= e.created_ms

IsFront(best) == best \in queue /\ \A e \in queue \ {best} : Before(best, e)

BackingOff(now, event) == now < retry[event.id].next_attempt_ms
Bug_OneMoreAttempt(event) ==
    retry[event.id].loss_attempts > Budget(event.priority)
Bug_OneAttemptLess(event) ==
    retry[event.id].loss_attempts + 1 >= Budget(event.priority)
Exhausted(event) == retry[event.id].loss_attempts >= Budget(event.priority)

Bug_JitterTooWide(now) ==
    {now + RETRY_BACKOFF_MS + j + 1 : j \in Jitters}

\* The instants a retry may be scheduled for.
Backoff(now) == {now + RETRY_BACKOFF_MS + j : j \in Jitters}

\* Nothing to send, or the head of the queue is backing off: what is queued
\* behind it waits too.
TransmitIdle(now) ==
    /\ queue = {} \/ \E best \in queue : IsFront(best) /\ BackingOff(now, best)
    /\ UNCHANGED nodeVars

\* retry-exhausted
TransmitGivesUp(now) ==
    \E best \in queue :
        /\ IsFront(best) /\ ~BackingOff(now, best) /\ Exhausted(best)
        /\ queue' = queue \ {best}
        /\ dropped_events' = dropped_events \cup {best}
        /\ UNCHANGED <<seen_ble, seen_lora, retry, packet_seq, anon_by_author>>

\* The frame the next attempt puts on air: the bytes (raw), whose ttl,
\* packet_seq and clock are one, two and six octets wide, and the routing view
\* of them.
BuildFrame(self, dst, event) ==
    [src |-> self, dst |-> dst, ttl |-> event.ttl, packet_seq |-> packet_seq + 1,
     corrupted |-> FALSE,
     raw |-> [event_id |-> event.id, event_type |-> event.event_type,
              priority |-> event.priority, hlc_ms |-> event.created_ms % U48,
              anon |-> event.anon, ttl |-> event.ttl % BYTE,
              packet_seq |-> (packet_seq + 1) % U16]]

Attempts(now, best) ==
    /\ IsFront(best) /\ ~BackingOff(now, best) /\ ~Exhausted(best)
    /\ packet_seq' = packet_seq + 1
    /\ UNCHANGED <<seen_ble, seen_lora, dropped_events, anon_by_author>>

\* The channel took the frame: the event is done with (no ACK is awaited).
TransmitSent(now, best) ==
    /\ Attempts(now, best)
    /\ queue' = queue \ {best}
    /\ UNCHANGED retry

Bug_BusyForgetsEvent(now, best) ==
    /\ Attempts(now, best)
    /\ queue' = queue \ {best}
    /\ UNCHANGED retry

\* The channel is busy: defer, at no cost to the loss budget.
TransmitBusy(now, best) ==
    /\ Attempts(now, best)
    /\ \E t \in Backoff(now) :
          retry' = [retry EXCEPT ![best.id].next_attempt_ms = t]
    /\ UNCHANGED queue

\* The frame was lost, or garbled in flight: retry, within the loss budget.
TransmitLost(now, best) ==
    /\ Attempts(now, best)
    /\ \E t \in Backoff(now) :
          retry' = [retry EXCEPT ![best.id] =
                      [loss_attempts |-> @.loss_attempts + 1,
                       next_attempt_ms |-> t]]
    /\ UNCHANGED queue

-----------------------------------------------------------------------------
(* LoRa reception *)

Distance(a, b) == IF a > b THEN a - b ELSE b - a

Bug_NoReplayRing(frame, hlc_now_ms) ==
    /\ ~frame.corrupted /\ frame.raw.ttl # 0
    /\ Distance(frame.raw.hlc_ms, hlc_now_ms) <= HLC_REPLAY_WINDOW_MS

\* The receive pipeline of wire/lora_v1.py: length, CRC and MAC (any of which
\* a garbled frame fails), ttl, replay window, replay ring.
Verified(frame, hlc_now_ms) ==
    /\ ~frame.corrupted
    /\ frame.raw.ttl # 0
    /\ Distance(frame.raw.hlc_ms, hlc_now_ms) <= HLC_REPLAY_WINDOW_MS
    /\ frame.raw.event_id \notin seen_lora

\* What the node hands to the gateway: a relay spends one hop.
Inbound(self, frame) ==
    [event_id |-> frame.raw.event_id, event_type |-> frame.raw.event_type,
     priority |-> frame.raw.priority, src_node |-> frame.src,
     last_hop |-> self, anon |-> frame.raw.anon,
     ttl |-> frame.raw.ttl - 1, packet_seq |-> frame.raw.packet_seq]

ReceiveAccepted(self, frame, hlc_now_ms) ==
    /\ frame.dst = self
    /\ Verified(frame, hlc_now_ms)
    /\ seen_lora' = seen_lora \cup {frame.raw.event_id}
    /\ UNCHANGED <<queue, seen_ble, retry, packet_seq, dropped_events,
                   anon_by_author>>

ReceiveIgnored(self, frame, hlc_now_ms) ==
    /\ frame.dst # self \/ ~Verified(frame, hlc_now_ms)
    /\ UNCHANGED nodeVars

-----------------------------------------------------------------------------
Bug_RebootKeepsRetry(preserve_seen) ==
    /\ queue' = {}
    /\ seen_ble' = IF preserve_seen THEN seen_ble ELSE {}
    /\ seen_lora' = IF preserve_seen THEN seen_lora ELSE {}
    /\ UNCHANGED <<retry, packet_seq, dropped_events, anon_by_author>>

Bug_RebootKeepsQueue(preserve_seen) ==
    /\ retry' = [i \in Ids |-> NoRetry]
    /\ seen_ble' = IF preserve_seen THEN seen_ble ELSE {}
    /\ seen_lora' = IF preserve_seen THEN seen_lora ELSE {}
    /\ UNCHANGED <<queue, packet_seq, dropped_events, anon_by_author>>

\* A reboot loses the queue and the retry table; the dedupe rings survive when
\* they are persistent (preserve_seen).
Reboot(preserve_seen) ==
    /\ queue' = {}
    /\ retry' = [i \in Ids |-> NoRetry]
    /\ seen_ble' = IF preserve_seen THEN seen_ble ELSE {}
    /\ seen_lora' = IF preserve_seen THEN seen_lora ELSE {}
    /\ UNCHANGED <<packet_seq, dropped_events, anon_by_author>>
=============================================================================
