---------------------------- MODULE EnvelopeCodec ---------------------------
(***************************************************************************)
(* Messages of every type on their way from a writer to a reader: written  *)
(* with encode, perhaps by a later version of the writer, which knows      *)
(* fields this reader does not, perhaps cut short, and read with decode.   *)
(***************************************************************************)
EXTENDS EnvelopeV3

CONSTANTS
    Messages,     \* the messages to write, each with its type
    LaterFields   \* the octets of fields of other numbers

VARIABLES
    wrote,        \* what the writer had in hand
    octets,       \* what is on its way
    grown, cut,   \* what has happened to it
    reading       \* what decode made of it, once it is read

vars == <<wrote, octets, grown, cut, reading>>

Init ==
    /\ wrote \in Messages
    /\ octets = Encode(wrote.type, wrote.message)
    /\ grown = FALSE /\ cut = FALSE /\ reading = <<>>

\* Fields come in any order on the wire.
Grows ==
    /\ ~grown /\ ~cut /\ reading = <<>> /\ grown' = TRUE
    /\ \E extra \in LaterFields : octets' \in {extra \o octets, octets \o extra}
    /\ UNCHANGED <<wrote, cut, reading>>

IsCut ==
    /\ ~cut /\ reading = <<>> /\ cut' = TRUE
    /\ \E n \in 0..Len(octets) - 1 : octets' = SubSeq(octets, 1, n)
    /\ UNCHANGED <<wrote, grown, reading>>

Reads ==
    /\ reading = <<>>
    /\ reading' = <<IF wrote.type = "EventEnvelopeV2" THEN DecodeEnvelope(octets)
                                                     ELSE Decode(wrote.type, octets)>>
    /\ UNCHANGED <<wrote, octets, grown, cut>>

Next == Grows \/ IsCut \/ Reads

Spec == Init /\ [][Next]_vars

-----------------------------------------------------------------------------
(* A reader gets the message the writer had, and only that one: signs,      *)
(* zeros, the largest values and empty texts included; a bearing of north   *)
(* is not read as none, nor an absent location as one at zero; fields of a  *)
(* later version are passed over, wherever they are.                        *)
RoundTrip == reading # <<>> /\ ~cut => reading[1] = {wrote.message}

(* A cut loses whole fields and makes up none: what is still read of a      *)
(* message is as it was written, no integer, text or nested message is read *)
(* in part; and an envelope that is still one has lost its field_mac at     *)
(* most, which no node takes it without.                                    *)
CutInventsNothing ==
    reading # <<>> =>
        \A m \in reading[1] : \A k \in DOMAIN Schema[wrote.type] :
            LET field == Schema[wrote.type][k]
                was == wrote.message[field.name]
                is == m[field.name]
            IN \/ is = was
               \/ field.kind = "each" /\ IsPrefix(is, was)
               \/ /\ is = Blank(wrote.type)[field.name]
                  /\ wrote.type = "EventEnvelopeV2" => field.name = "field_mac"
=============================================================================
