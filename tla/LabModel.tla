------------------------------ MODULE LabModel ------------------------------
(***************************************************************************)
(* The data the lab moves around (ignirelay_lab/model.py): the signed      *)
(* envelopes a phone sends, the events a node queues, the LoRa frames the  *)
(* channel carries and what a node hands to the gateway.  An envelope id   *)
(* and a time are naturals because the code orders events by them; a       *)
(* payload is reduced to the 8-byte anonymous id (anon8) it carries.       *)
(***************************************************************************)
EXTENDS Integers, FiniteSets

CONSTANTS
    Ids,        \* envelope ids
    Authors,    \* author keys
    Envelopes   \* the envelopes phones may send

\* PriorityV2: the lower the number, the more severe the event.
SOS_RED == 1
SOS_YELLOW == 2
ALERT == 3
STATUS == 4
NORMAL == 6
WirePriority == SOS_RED..NORMAL

ZeroAnon == 0

\* "other" stands for every event type that has no LORA-WIRE translation.
EventTypes == {"sos", "presence", "checkpoint", "other"}

\* What the first failing check of an envelope says of it.
Faults == {"none", "malformed-envelope", "unknown-protocol-version",
           "unknown-sig-algo", "signature-invalid", "field-mac-invalid"}

Envelope == [id : Ids, fault : Faults, event_type : EventTypes,
             priority : Nat \ {0}, created_ms : Nat, created_counter : Nat,
             expires_ms : Nat, max_hops : Nat, author : Authors, anon : Nat]

ASSUME EnvelopesAssumption ==
    /\ Ids \subseteq Nat
    /\ Envelopes \subseteq Envelope

QueuedEvent == [id : Ids, event_type : EventTypes, priority : WirePriority,
                created_ms : Nat, created_counter : Nat, ttl : Nat,
                author : Authors, anon : Nat]

\* The heap order of queued events: sort_key = (priority, created_ms), then
\* the HLC counter, then the envelope id (a dataclass compares its fields in
\* the order they are declared).
Before(a, b) ==
    \/ a.priority < b.priority
    \/ a.priority = b.priority /\ a.created_ms < b.created_ms
    \/ /\ a.priority = b.priority /\ a.created_ms = b.created_ms
       /\ \/ a.created_counter < b.created_counter
          \/ a.created_counter = b.created_counter /\ a.id < b.id

\* The anon8 values in play: none yet, and those the payloads carry.
AnonIds == {ZeroAnon} \cup {env.anon : env \in Envelopes}

IdsOf(events) == {e.id : e \in events}
=============================================================================
