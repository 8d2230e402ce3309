---------------------------- MODULE MCNodeLedger ----------------------------
(* Instances of NodeLedger for TLC. *)
EXTENDS NodeLedger

Env(i, type, prio, created, expires, author, anon) ==
    [id |-> i, fault |-> "none", event_type |-> type, priority |-> prio,
     created_ms |-> created, created_counter |-> i, expires_ms |-> expires,
     max_hops |-> 0, author |-> author, anon |-> anon]

\* An SOS and a presence of one author; a checkpoint of another that expires
\* early; under its id, one that does not, an event without a translation, one with a
\* bad signature and one with a priority above NORMAL.
MCEnvelopes ==
    {Env(1, "sos", SOS_RED, 1, 9000, "a", 0),
     Env(2, "presence", ALERT, 0, 9000, "a", 1),
     Env(3, "checkpoint", STATUS, 0, 0, "b", 2),
     Env(3, "checkpoint", ALERT, 0, 9000, "b", 2),
     Env(3, "other", SOS_YELLOW, 0, 9000, "a", 0),
     [Env(3, "sos", SOS_RED, 0, 9000, "a", 0) EXCEPT !.fault = "signature-invalid"],
     Env(3, "sos", NORMAL + 1, 0, 9000, "a", 0)}

\* A peer's presence: intact, garbled in flight, for another node, with its
\* ttl spent, and too far from the node's clock.
PeerFrame ==
    [src |-> "p", dst |-> "n", ttl |-> 6, packet_seq |-> 1, corrupted |-> FALSE,
     raw |-> [event_id |-> 2, event_type |-> "presence", priority |-> ALERT,
              hlc_ms |-> 0, anon |-> 1, ttl |-> 6, packet_seq |-> 1]]
MCInboundFrames ==
    {PeerFrame, [PeerFrame EXCEPT !.corrupted = TRUE],
     [PeerFrame EXCEPT !.dst = "q"], [PeerFrame EXCEPT !.raw.ttl = 0],
     [PeerFrame EXCEPT !.raw.hlc_ms = 9000]}
=============================================================================
