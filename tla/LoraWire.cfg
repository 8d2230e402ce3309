SPECIFICATION Spec
CONSTANTS
    BYTE = 256
    U16 = 65536
    U48 = 1073741824
    HLC_REPLAY_WINDOW_MS = 172800000
    LORA_MAC_KEY = "field"
    Headers <- MCHeaders
    EventBodies <- MCEventBodies
    AckBodies <- MCAckBodies
    Keys = {"field", "other"}
    Clocks <- MCClocks
INVARIANT AcceptedIsAsAsked
PROPERTY RingLearnsAcceptedOnly
