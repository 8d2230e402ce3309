--------------------------- MODULE MCPhoneToNode ----------------------------
(* An instance of PhoneToNode for TLC: octets of sixteen values, ids of two *)
(* of them, and reports at the edges of what the fields hold.               *)
EXTENDS PhoneToNode, EnvelopeV3

Report(kind, lat, lng, acc, value, expired) ==
    [kind |-> kind, source |-> 1, lat_e7 |-> lat, lng_e7 |-> lng, acc_m |-> acc,
     value |-> value, expired |-> expired]

Presence == Report("presence", 37, -21, 18, 11, FALSE)
Sos(lat, lng, acc) == Report("sos", lat, lng, acc, 4, FALSE)
Checkpoint == Report("checkpoint", -9, 70, 30, 0, FALSE)

Edge == (BYTE * BYTE * BYTE * BYTE) \div 2

MCScripts ==
    {<<Presence, Sos(-1, 1, 12)>>, <<Checkpoint, Sos(0, 0, 0)>>,
     <<Sos(-Edge, Edge - 1, 300)>>,
     <<Report("sos", 1, 1, 1, 4, TRUE)>>}

MCAnon == <<7, 0, 3>>
MCKey == <<12, 8>>
MCField == <<15, 0>>

\* max_hops of five, a later relay, an unknown field, a text that is none, and
\* a second priority.
MCExtras ==
    {write_tag(7, WIRE_VARINT) \o <<5>>, write_tag(12, WIRE_LEN) \o <<2, 4, 5>>,
     write_tag(16, WIRE_LEN) \o <<1, 15>>, write_tag(12, WIRE_LEN) \o <<1, 9>>,
     write_tag(4, WIRE_VARINT) \o <<1>>}

\* One bit of the octet.
MCFlipsTo(octet) ==
    {IF (octet \div bit) % 2 = 0 THEN octet + bit ELSE octet - bit : bit \in {1, 8}}
=============================================================================
