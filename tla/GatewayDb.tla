------------------------------ MODULE GatewayDb ------------------------------
(***************************************************************************)
(* The sibling gateway program, as the lab uses it: `ingest` reads packet  *)
(* records from a JSONL file, verifies the frame of each and stores it in  *)
(* SQLite under its event id, the first record of an id winning; `export`  *)
(* writes the rows back.  The program is not part of this repository.      *)
(***************************************************************************)
EXTENDS Naturals, Sequences

\* The ids the gateway accepts of some records: a garbled frame is refused.
IdsIn(records) ==
    {records[k].frame.event_id :
        k \in {j \in DOMAIN records : ~records[j].frame.garbled}}

FirstOf(i, records) ==
    CHOOSE k \in DOMAIN records :
        /\ ~records[k].frame.garbled /\ records[k].frame.event_id = i
        /\ \A j \in 1..k - 1 :
              records[j].frame.garbled \/ records[j].frame.event_id # i

RowFrom(record) == [event_id |-> record.frame.event_id, record |-> record]

\* ingest: event_id is the primary key of the table.
Ingested(table, records) ==
    [i \in DOMAIN table \cup IdsIn(records) |->
        IF i \in DOMAIN table THEN table[i]
        ELSE RowFrom(records[FirstOf(i, records)])]

\* An ingest that stops on the way has stored some of the records.
PartlyIngested(table, records) ==
    {Ingested(table, SubSeq(records, 1, n)) : n \in 0..Len(records)}
=============================================================================
