--------------------------- MODULE GatewayCliSink ---------------------------
(***************************************************************************)
(* The gateway behind files (ignirelay_lab/gateway_cli.py, class           *)
(* GatewayCliSink): receive appends to a JSONL file, finalize has the      *)
(* gateway program ingest that file into SQLite and export the rows.  The  *)
(* driver calls them in any order, the program may fail, and the process   *)
(* restarts with a new sink on the same files, as the lab's gateway_reboot *)
(* scenario does.                                                          *)
(***************************************************************************)
EXTENDS GatewayDb, FiniteSets

CONSTANTS
    Inbounds,     \* the GatewayInbound records the sink may be given
    MaxRoutes     \* bound: records one sink receives

\* A node hands on what it has verified.
ASSUME SinkAssumption ==
    MaxRoutes \in Nat /\ \A inbound \in Inbounds : ~inbound.raw_frame.garbled

VARIABLES
    packet_jsonl,   \* the records in the hand-over file
    db,             \* the SQLite table: event id -> row
    events,         \* what the last finalize reported
    routes,         \* the inbound events this sink received
    received,       \* history: the records received since the database was made
    lost,           \* history: ids given up by a restart before an ingest
    reported        \* history: a finalize returned, and no receive came after it

vars == <<packet_jsonl, db, events, routes, received, lost, reported>>

\* _to_record: packet_seq stays behind.
Record(inbound) ==
    [frame |-> inbound.raw_frame, last_hop_node_id |-> inbound.last_hop_label]

Bug_AlwaysResets(reset) ==
    /\ packet_jsonl' = <<>>
    /\ db' = <<>>
    /\ events' = <<>> /\ routes' = <<>> /\ reported' = FALSE

\* __init__: the JSONL file starts empty whether or not the database is kept.
NewSink(reset) ==
    /\ packet_jsonl' = <<>>
    /\ db' = IF reset THEN <<>> ELSE db
    /\ events' = <<>> /\ routes' = <<>> /\ reported' = FALSE

\* The first sink of a scenario: reset is TRUE.
Init ==
    /\ packet_jsonl = <<>> /\ db = <<>> /\ events = <<>> /\ routes = <<>>
    /\ received = {} /\ lost = {} /\ reported = FALSE

Restart ==
    /\ NewSink(FALSE)
    /\ lost' = lost \cup (IdsIn(packet_jsonl) \ DOMAIN db)
    /\ UNCHANGED received

Receive(inbound) ==
    /\ Len(routes) < MaxRoutes
    /\ routes' = Append(routes, inbound)
    /\ packet_jsonl' = Append(packet_jsonl, Record(inbound))
    /\ received' = received \cup {Record(inbound)}
    /\ reported' = FALSE
    /\ UNCHANGED <<db, events, lost>>

Bug_ReportsOnce ==
    /\ packet_jsonl = <<>> \/ events # <<>>
    /\ reported' = TRUE
    /\ UNCHANGED <<packet_jsonl, db, events, routes, received, lost>>

\* Nothing was received: finalize returns, and the rows of an earlier sink are
\* not exported.
FinalizeIdle ==
    /\ packet_jsonl = <<>>
    /\ reported' = TRUE
    /\ UNCHANGED <<packet_jsonl, db, events, routes, received, lost>>

FinalizeDone ==
    /\ packet_jsonl # <<>>
    /\ db' = Ingested(db, packet_jsonl)
    /\ events' = db' /\ reported' = TRUE
    /\ UNCHANGED <<packet_jsonl, routes, received, lost>>

Bug_EmptiesFileFirst ==
    /\ packet_jsonl # <<>>
    /\ db' \in PartlyIngested(db, packet_jsonl)
    /\ packet_jsonl' = <<>>
    /\ UNCHANGED <<events, routes, received, lost, reported>>

\* The gateway is missing, or its ingest or its export fails: finalize raises,
\* and leaves the report as it was.
FinalizeRaises ==
    /\ packet_jsonl # <<>>
    /\ db' \in PartlyIngested(db, packet_jsonl)
    /\ UNCHANGED <<packet_jsonl, events, routes, received, lost, reported>>

Next ==
    \/ \E inbound \in Inbounds : Receive(inbound)
    \/ FinalizeIdle \/ FinalizeDone \/ FinalizeRaises
    \/ Restart

Spec == Init /\ [][Next]_vars

-----------------------------------------------------------------------------
IdsReceived(inbounds) == {inbounds[k].raw_frame.event_id : k \in DOMAIN inbounds}

(* The hand-over file holds what this sink received, and the rows reported  *)
(* are rows of the database, each made of a record received.                *)
TypeOK ==
    /\ routes \in Seq(Inbounds)
    /\ packet_jsonl = [k \in DOMAIN routes |-> Record(routes[k])]
    /\ \A k \in DOMAIN routes : Record(routes[k]) \in received
    /\ received \subseteq {Record(inbound) : inbound \in Inbounds}
    /\ \A i \in DOMAIN db : db[i].event_id = i /\ db[i] = RowFrom(db[i].record)
                            /\ db[i].record \in received
    /\ \A i \in DOMAIN events : i \in DOMAIN db /\ events[i] = db[i]

(* Once a finalize has returned, and until the next receive, the report is  *)
(* what the calls owe it, however many finalizes returned or raised before  *)
(* and after.  A sink that was handed anything reports every row of the     *)
(* database, those of earlier sinks included, and among them every event it *)
(* was handed.  A sink that was handed nothing reports nothing, even when   *)
(* earlier sinks left rows in the database: finalize returns at an empty    *)
(* file before it exports.                                                  *)
ReportIsComplete ==
    reported =>
        IF routes = <<>>
        THEN events = <<>>
        ELSE events = db /\ IdsReceived(routes) \subseteq DOMAIN events

(* An event the sink took is in the database or still in the file, where a  *)
(* later finalize finds it, unless the process restarted in between: a      *)
(* finalize that fails half way loses nothing.                              *)
ReceivedIsRecoverable ==
    {record.frame.event_id : record \in received}
        \subseteq DOMAIN db \cup IdsIn(packet_jsonl) \cup lost

(* Restarts, repeated finalizes and failures notwithstanding, the database  *)
(* stores what was received, once per event id, and keeps it unchanged.     *)
Store == INSTANCE EventStore WITH
    Rows <- {RowFrom(Record(inbound)) : inbound \in Inbounds},
    accepted <- {RowFrom(record) : record \in received},
    stored <- {db[i] : i \in DOMAIN db}

StoreSpec == Store!Spec
=============================================================================
