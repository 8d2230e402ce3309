----------------------------- MODULE MCRelayLab -----------------------------
(* Instances of RelayLab for TLC. *)
EXTENDS RelayLab

Env(i, type, prio, anon) ==
    [id |-> i, fault |-> "none", event_type |-> type, priority |-> prio,
     created_ms |-> 0, created_counter |-> i, expires_ms |-> 9000,
     max_hops |-> 0, author |-> "a", anon |-> anon]

\* The presence and the SOS of the lab's phone, and an event the node cannot
\* translate.  The SOS makes a different row when NodeA takes it again after
\* the presence.
MCEnvelopes ==
    {Env(1, "presence", ALERT, 1), Env(2, "sos", SOS_RED, 0),
     Env(1, "other", SOS_YELLOW, 0)}

\* Every draw can go either way.
MCProfiles ==
    {[packet_loss_percent |-> 20, duplicate_percent |-> 20, reorder_percent |-> 20,
      corrupt_percent |-> 20, channel_busy_percent |-> 20, delays |-> {50}]}
=============================================================================
