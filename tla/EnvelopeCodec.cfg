SPECIFICATION Spec
CONSTANTS
    GROUP = 8
    U64 = 1048576
    VARINT_OCTETS = 7
    FIXED64 = 8
    FIXED32 = 4
    ID_BYTES = 2
    KEY_BYTES = 2
    SIGNATURE_BYTES = 3
    MAC_BYTES = 3
    Messages <- MCMessages
    LaterFields <- MCLaterFields
INVARIANTS
    RoundTrip
    CutInventsNothing
CHECK_DEADLOCK FALSE
