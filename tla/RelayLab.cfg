SPECIFICATION Spec
CONSTANTS
    Ids = {1, 2}
    Authors = {"a"}
    Envelopes <- MCEnvelopes
    max_queue_size = 1
    LOSS_BUDGET_CRITICAL = 1
    LOSS_BUDGET_DEFAULT = 1
    RETRY_BACKOFF_MS = 100
    RETRY_JITTER_MS = 80
    Jitters = {0}
    DEFAULT_TTL = 6
    HLC_REPLAY_WINDOW_MS = 1000
    BYTE = 256
    U16 = 65536
    U48 = 1073741824
    Profiles <- MCProfiles
    Times = {0, 100}
    MaxPacketSeq = 2
    MaxOnAir = 1
    MaxWipes = 1
INVARIANTS
    SentIsCarried
    WaitingIsUndelivered
    OneRoutePerRing
    RingIsStored
PROPERTY StoreSpec
