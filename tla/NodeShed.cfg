SPECIFICATION Spec
CONSTANTS
    Ids = {1, 2, 3}
    Authors = {"a", "b"}
    Envelopes <- MCEnvelopes
    InboundFrames <- MCInboundFrames
    Self = "n"
    max_queue_size = 1
    LOSS_BUDGET_CRITICAL = 2
    LOSS_BUDGET_DEFAULT = 1
    RETRY_BACKOFF_MS = 100
    RETRY_JITTER_MS = 80
    Jitters = {0, 80}
    DEFAULT_TTL = 6
    HLC_REPLAY_WINDOW_MS = 1000
    BYTE = 256
    U16 = 65536
    U48 = 1073741824
    Times = {100, 200}
    MaxPacketSeq = 2
PROPERTY ShedForNewcomer
