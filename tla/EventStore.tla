----------------------------- MODULE EventStore -----------------------------
(***************************************************************************)
(* What the lab promises end to end, whatever the nodes, the radio and the *)
(* gateway do in between: the gateway stores what a phone got accepted,    *)
(* byte for byte, at most once per event id, and never changes or forgets  *)
(* it.                                                                     *)
(***************************************************************************)
CONSTANT Rows       \* records with an event_id

VARIABLES
    accepted,       \* the events a node accepted from a phone
    stored          \* the canonical rows of the gateway

Init == accepted = {} /\ stored = {}

Accept(row) == accepted' = accepted \cup {row} /\ UNCHANGED stored

\* A gateway that is fed in batches stores several rows in a step.
Store(rows) ==
    /\ \A row \in rows, s \in stored \cup rows :
          s # row => s.event_id # row.event_id
    /\ stored' = stored \cup rows
    /\ UNCHANGED accepted

Next ==
    \/ \E row \in Rows : Accept(row)
    \/ \E rows \in SUBSET accepted : Store(rows)

Spec == Init /\ [][Next]_<<accepted, stored>>
=============================================================================
