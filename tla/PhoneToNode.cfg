SPECIFICATION Spec
CONSTANTS
    GROUP = 8
    U64 = 1048576
    VARINT_OCTETS = 7
    FIXED64 = 8
    FIXED32 = 4
    ID_BYTES = 2
    KEY_BYTES = 2
    SIGNATURE_BYTES = 2
    MAC_BYTES = 3
    BYTE = 16
    ANON8_BYTES = 4
    SECOND_MS = 10
    Scripts <- MCScripts
    anon_user_id <- MCAnon
    author_key <- MCKey
    field_id <- MCField
    VALIDITY_MS = 100
    Extras <- MCExtras
    FlipsTo <- MCFlipsTo
    Clocks = {5, 90}
    node_num = 18
    max_queue_size = 1
    blank <- Blank
    encode <- Encode
    decode <- Decode
    decode_envelope <- DecodeEnvelope
INVARIANTS
    OnlyWhatWasSigned
    ReceiptIsTrue
    ReadingIsFaithful
