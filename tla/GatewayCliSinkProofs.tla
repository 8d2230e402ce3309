------------------------ MODULE GatewayCliSinkProofs ------------------------
(***************************************************************************)
(* What holds of the gateway behind files whatever it is given, however    *)
(* often finalize is called or fails, and over any restarts.               *)
(***************************************************************************)
EXTENDS GatewayCliSink, SharedLemmas

(* The ids of the hand-over file are those this sink received: what a node  *)
(* hands on is never garbled (_to_record keeps the frame).                  *)
LEMMA IdsInFile ==
  ASSUME TypeOK
  PROVE  /\ packet_jsonl \in Seq(received)
         /\ IdsIn(packet_jsonl) = IdsReceived(routes)
<1>1. DOMAIN packet_jsonl = DOMAIN routes /\ DOMAIN routes = 1..Len(routes)
  BY DEF TypeOK
<1>2. \A k \in DOMAIN routes :
         /\ packet_jsonl[k].frame = routes[k].raw_frame
         /\ ~routes[k].raw_frame.garbled
         /\ packet_jsonl[k] \in received
  BY SinkAssumption DEF TypeOK, Record
<1>3. packet_jsonl \in Seq(received)
  BY <1>1, <1>2 DEF TypeOK
<1>4. IdsIn(packet_jsonl) = IdsReceived(routes)
  BY <1>1, <1>2 DEF IdsIn, IdsReceived
<1> QED
  BY <1>3, <1>4

(* A table that grew by records received still has rows as it should.       *)
LEMMA GrownTableOK ==
  ASSUME TypeOK, NEW table, AddsRows(db, packet_jsonl, table)
  PROVE  \A i \in DOMAIN table :
            table[i].event_id = i /\ table[i] = RowFrom(table[i].record)
              /\ table[i].record \in received
<1> SUFFICES ASSUME NEW i \in DOMAIN table
             PROVE  table[i].event_id = i /\ table[i] = RowFrom(table[i].record)
                      /\ table[i].record \in received
  OBVIOUS
<1>1. CASE i \in DOMAIN db
  BY <1>1 DEF TypeOK, AddsRows
<1>2. CASE i \notin DOMAIN db
  <2>1. PICK k \in DOMAIN packet_jsonl :
            packet_jsonl[k].frame.event_id = i /\ table[i] = RowFrom(packet_jsonl[k])
    BY <1>2 DEF AddsRows
  <2>2. packet_jsonl[k] \in received
    BY IdsInFile
  <2> QED
    BY <2>1, <2>2 DEF RowFrom
<1> QED
  BY <1>1, <1>2

(* The file, the database and the report belong together.                   *)
THEOREM TypeCorrect == Spec => []TypeOK
<1>1. Init => TypeOK
  BY DEF Init, TypeOK
<1>2. TypeOK /\ [Next]_vars => TypeOK'
  <2> SUFFICES ASSUME TypeOK, [Next]_vars
               PROVE  TypeOK'
    OBVIOUS
  <2>1. ASSUME NEW inbound \in Inbounds, Receive(inbound)
        PROVE  TypeOK'
    <3>1. /\ routes' \in Seq(Inbounds) /\ Len(routes') = Len(routes) + 1
          /\ \A k \in DOMAIN routes : routes'[k] = routes[k]
          /\ routes'[Len(routes) + 1] = inbound
      BY <2>1 DEF Receive, TypeOK
    <3>2. packet_jsonl' = [k \in DOMAIN routes' |-> Record(routes'[k])]
      BY <2>1, <3>1, IdsInFile DEF Receive, TypeOK
    <3>3. \A k \in DOMAIN routes' : Record(routes'[k]) \in received'
      BY <2>1, <3>1 DEF Receive, TypeOK
    <3> QED
      BY <2>1, <3>1, <3>2, <3>3 DEF Receive, TypeOK
  <2>2. CASE FinalizeIdle
    BY <2>2 DEF FinalizeIdle, TypeOK
  <2>3. CASE FinalizeDone
    <3>1. AddsRows(db, packet_jsonl, db')
      BY <2>3, IdsInFile, IngestAddsRows DEF FinalizeDone
    <3> QED
      BY <2>3, <3>1, GrownTableOK DEF FinalizeDone, TypeOK
  <2>4. CASE FinalizeRaises
    <3>1. AddsRows(db, packet_jsonl, db')
      BY <2>4, IdsInFile, PartialIngestAddsRows DEF FinalizeRaises
    <3>2. \A i \in DOMAIN events' : i \in DOMAIN db' /\ events'[i] = db'[i]
      BY <2>4, <3>1 DEF FinalizeRaises, TypeOK, AddsRows
    <3> QED
      BY <2>4, <3>1, <3>2, GrownTableOK DEF FinalizeRaises, TypeOK
  <2>5. CASE Restart
    BY <2>5 DEF Restart, NewSink, TypeOK
  <2>6. CASE UNCHANGED vars
    BY <2>6 DEF vars, TypeOK
  <2> QED
    BY <2>1, <2>2, <2>3, <2>4, <2>5, <2>6 DEF Next
<1> QED
  BY <1>1, <1>2, PTL DEF Spec

(* What a finalize that returned leaves true until the next receive, also   *)
(* while later ones fail: the file has nothing more for the database.       *)
ReportInv ==
  /\ db = [i \in DOMAIN db |-> db[i]]
  /\ routes = <<>> => events = <<>>
  /\ reported /\ routes # <<>> => events = db /\ IdsIn(packet_jsonl) \subseteq DOMAIN db

(* An ingest of events the table has changes nothing.                       *)
LEMMA NothingMoreToAdd ==
  ASSUME NEW S, NEW records \in Seq(S), NEW table, NEW next \in PartlyIngested(table, records),
         table = [i \in DOMAIN table |-> table[i]], IdsIn(records) \subseteq DOMAIN table
  PROVE  next = table
<1>1. AddsRows(table, records, next)
  BY PartialIngestAddsRows
<1>2. DOMAIN next = DOMAIN table /\ \A i \in DOMAIN table : next[i] = table[i]
  BY <1>1 DEF AddsRows
<1>3. next = [i \in DOMAIN next |-> next[i]]
  BY DEF PartlyIngested, Ingested
<1> QED
  BY <1>2, <1>3

LEMMA StepKeepsReport ==
  ASSUME TypeOK, ReportInv, [Next]_vars
  PROVE  ReportInv'
<1>1. ASSUME NEW inbound \in Inbounds, Receive(inbound)
      PROVE  ReportInv'
  <2>1. routes' # <<>>
    BY <1>1 DEF Receive, TypeOK
  <2> QED
    BY <1>1, <2>1 DEF Receive, ReportInv
<1>2. CASE FinalizeIdle
  <2>1. routes = <<>>
    BY <1>2, IdsInFile DEF FinalizeIdle, TypeOK
  <2> QED
    BY <1>2, <2>1 DEF FinalizeIdle, ReportInv
<1>3. CASE FinalizeDone
  <2>1. DOMAIN db' = DOMAIN db \cup IdsIn(packet_jsonl)
    BY <1>3, IdsInFile, IngestAddsRows DEF FinalizeDone
  <2>2. db' = [i \in DOMAIN db' |-> db'[i]]
    BY <1>3 DEF FinalizeDone, Ingested
  <2>3. routes # <<>>
    BY <1>3 DEF FinalizeDone, TypeOK
  <2> QED
    BY <1>3, <2>1, <2>2, <2>3 DEF FinalizeDone, ReportInv
<1>4. CASE FinalizeRaises
  <2>1. db' = [i \in DOMAIN db' |-> db'[i]]
    BY <1>4 DEF FinalizeRaises, PartlyIngested, Ingested
  <2>2. IdsIn(packet_jsonl) \subseteq DOMAIN db => db' = db
    BY <1>4, IdsInFile, NothingMoreToAdd DEF FinalizeRaises, ReportInv
  <2> QED
    BY <1>4, <2>1, <2>2 DEF FinalizeRaises, ReportInv
<1>5. CASE Restart
  BY <1>5 DEF Restart, NewSink, ReportInv
<1>6. CASE UNCHANGED vars
  BY <1>6 DEF vars, ReportInv
<1> QED
  BY <1>1, <1>2, <1>3, <1>4, <1>5, <1>6 DEF Next

(* A report that a finalize left is whole until the next receive: the rows  *)
(* of the database, this sink's among them, or nothing if it had nothing.   *)
THEOREM ReportsAreComplete == Spec => []ReportIsComplete
<1>1. Init => ReportInv
  BY DEF Init, ReportInv
<1>2. TypeOK /\ ReportInv /\ [Next]_vars => ReportInv'
  BY StepKeepsReport
<1>3. TypeOK /\ ReportInv => ReportIsComplete
  BY IdsInFile DEF ReportInv, ReportIsComplete
<1> QED
  BY <1>1, <1>2, <1>3, TypeCorrect, PTL DEF Spec

(* Nothing received is lost but by a restart before its ingest.             *)
THEOREM NothingReceivedIsLost == Spec => []ReceivedIsRecoverable
<1>1. Init => ReceivedIsRecoverable
  BY DEF Init, ReceivedIsRecoverable
<1>2. TypeOK /\ TypeOK' /\ ReceivedIsRecoverable /\ [Next]_vars => ReceivedIsRecoverable'
  <2> SUFFICES ASSUME TypeOK, TypeOK', ReceivedIsRecoverable, [Next]_vars
               PROVE  ReceivedIsRecoverable'
    OBVIOUS
  <2>1. ASSUME NEW inbound \in Inbounds, Receive(inbound)
        PROVE  ReceivedIsRecoverable'
    <3>1. packet_jsonl' = Append(packet_jsonl, Record(inbound))
      BY <2>1 DEF Receive
    <3>2. packet_jsonl \in Seq(received)
      BY IdsInFile
    <3>3. /\ \A k \in DOMAIN packet_jsonl :
                k \in DOMAIN packet_jsonl' /\ packet_jsonl'[k] = packet_jsonl[k]
          /\ Len(packet_jsonl) + 1 \in DOMAIN packet_jsonl'
          /\ packet_jsonl'[Len(packet_jsonl) + 1] = Record(inbound)
      BY <3>1, <3>2
    <3>4. IdsIn(packet_jsonl) \subseteq IdsIn(packet_jsonl')
      BY <3>3 DEF IdsIn
    <3>5. Record(inbound).frame.event_id \in IdsIn(packet_jsonl')
      BY <3>3, SinkAssumption DEF IdsIn, Record
    <3> QED
      BY <2>1, <3>4, <3>5 DEF Receive, ReceivedIsRecoverable
  <2>2. CASE FinalizeIdle
    BY <2>2 DEF FinalizeIdle, ReceivedIsRecoverable
  <2>3. CASE FinalizeDone \/ FinalizeRaises
    <3>1. AddsRows(db, packet_jsonl, db')
      BY <2>3, IdsInFile, IngestAddsRows, PartialIngestAddsRows
         DEF FinalizeDone, FinalizeRaises
    <3> QED
      BY <2>3, <3>1 DEF FinalizeDone, FinalizeRaises, AddsRows, ReceivedIsRecoverable
  <2>4. CASE Restart
    BY <2>4 DEF Restart, NewSink, ReceivedIsRecoverable
  <2>5. CASE UNCHANGED vars
    BY <2>5 DEF vars, ReceivedIsRecoverable
  <2> QED
    BY <2>1, <2>2, <2>3, <2>4, <2>5 DEF Next
<1> QED
  BY <1>1, <1>2, TypeCorrect, PTL DEF Spec

-----------------------------------------------------------------------------
(* The rows of a table, and the rows that what was received would make.     *)
RowsOf(table) == {table[i] : i \in DOMAIN table}
AcceptedRows(records) == {RowFrom(record) : record \in records}

(* An ingest stores the rows it adds, each an event the table had not.      *)
LEMMA IngestStores ==
  ASSUME TypeOK, NEW table, AddsRows(db, packet_jsonl, table)
  PROVE  \E rows \in SUBSET AcceptedRows(received) :
            /\ \A row \in rows, s \in RowsOf(db) \cup rows :
                  s # row => s.event_id # row.event_id
            /\ RowsOf(table) = RowsOf(db) \cup rows
<1> DEFINE rows == {table[i] : i \in DOMAIN table \ DOMAIN db}
<1>1. \A i \in DOMAIN table : table[i].event_id = i /\ table[i] \in AcceptedRows(received)
  BY GrownTableOK DEF AcceptedRows
<1>2. /\ \A i \in DOMAIN db : i \in DOMAIN table /\ table[i] = db[i]
      /\ \A i \in DOMAIN db : db[i].event_id = i
  BY DEF AddsRows, TypeOK
<1>3. RowsOf(table) = RowsOf(db) \cup rows
  BY <1>2 DEF RowsOf
<1>4. ASSUME NEW row \in rows, NEW s \in RowsOf(db) \cup rows, s # row
      PROVE  s.event_id # row.event_id
  BY <1>1, <1>2, <1>4 DEF RowsOf
<1>5. rows \in SUBSET AcceptedRows(received)
  BY <1>1
<1> HIDE DEF rows
<1> WITNESS rows \in SUBSET AcceptedRows(received)
<1> QED
  BY <1>3, <1>4

(* A step of the sink is one of the store, or none.                         *)
LEMMA StepStores ==
  ASSUME TypeOK, [Next]_vars
  PROVE  [Store!Next]_<<AcceptedRows(received), RowsOf(db)>>
<1> SUFFICES Store!Next \/ UNCHANGED <<AcceptedRows(received), RowsOf(db)>>
  OBVIOUS
<1>1. ASSUME NEW inbound \in Inbounds, Receive(inbound)
      PROVE  Store!Next
  <2>1. AcceptedRows(received') = AcceptedRows(received) \cup {RowFrom(Record(inbound))}
    BY <1>1 DEF Receive, AcceptedRows
  <2>2. Store!Accept(RowFrom(Record(inbound)))
    BY <1>1, <2>1 DEF Receive, Store!Accept, AcceptedRows, RowsOf
  <2> QED
    BY <2>2 DEF Store!Next
<1>2. CASE FinalizeDone \/ FinalizeRaises
  <2>1. AddsRows(db, packet_jsonl, db') /\ received' = received
    BY <1>2, IdsInFile, IngestAddsRows, PartialIngestAddsRows
       DEF FinalizeDone, FinalizeRaises
  <2>2. PICK rows \in SUBSET AcceptedRows(received) :
            /\ \A row \in rows, s \in RowsOf(db) \cup rows :
                  s # row => s.event_id # row.event_id
            /\ RowsOf(db') = RowsOf(db) \cup rows
    BY <2>1, IngestStores
  <2>3. Store!Store(rows)
    BY <2>1, <2>2 DEF Store!Store, AcceptedRows, RowsOf
  <2> QED
    BY <2>3 DEF Store!Next, AcceptedRows
<1>3. CASE FinalizeIdle \/ Restart \/ UNCHANGED vars
  BY <1>3 DEF FinalizeIdle, Restart, NewSink, vars
<1> QED
  BY <1>1, <1>2, <1>3 DEF Next

(* The gateway behind files stores what it received, once and for good.     *)
THEOREM ImplementsEventStore == Spec => StoreSpec
<1>1. Init => Store!Init
  BY DEF Init, Store!Init
<1>2. TypeOK /\ [Next]_vars
        => [Store!Next]_<<{RowFrom(record) : record \in received}, {db[i] : i \in DOMAIN db}>>
  BY StepStores DEF AcceptedRows, RowsOf
<1> QED
  BY <1>1, <1>2, TypeCorrect, PTL DEF Spec, StoreSpec, Store!Spec
=============================================================================
