------------------------------ MODULE MCLoraWire -----------------------------
(* Instances of LoraWire for TLC. *)
EXTENDS LoraWire

Hdr(synced, ttl) == [hlc_synced |-> synced, packet_seq |-> 65536, ttl |-> ttl]

Ev(i, hlc_ms, len) ==
    [event_id |-> i, priority |-> 1, hlc_ms |-> hlc_ms, payload_len |-> len,
     payload |-> i]

\* A spent ttl and one beyond its octet, and an unsynced clock.
MCHeaders == {Hdr(TRUE, 0), Hdr(TRUE, 6), Hdr(TRUE, 256), Hdr(FALSE, 6)}

\* Payloads of no octet, the most, one more, and one its octet counts as 10.
MCEventBodies ==
    {Ev(1, 5, 0), Ev(1, 5, 64), Ev(2, 5, 10), Ev(2, 172800100, 10), Ev(2, 5, 65),
     Ev(2, 5, 266)}

MCAckBodies == {[ack_seq |-> 7, event_id_prefix |-> 1, status |-> 0]}
MCClocks == {NO_CLOCK, 10}

MCPlainHeaders == {Hdr(TRUE, 6)}
MCPlainBodies == {Ev(1, 5, 10), Ev(2, 5, 64)}
=============================================================================
