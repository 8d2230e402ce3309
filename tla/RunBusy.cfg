SPECIFICATION RunSpec
CONSTANTS
    Ids = {1, 2}
    Authors = {"phone"}
    Envelopes <- PhoneEvents
    max_queue_size = 8
    LOSS_BUDGET_CRITICAL = 6
    LOSS_BUDGET_DEFAULT = 3
    RETRY_BACKOFF_MS = 100
    RETRY_JITTER_MS = 80
    Jitters = {0, 80}
    DEFAULT_TTL = 6
    HLC_REPLAY_WINDOW_MS = 172800000
    BYTE = 256
    U16 = 65536
    U48 = 1073741824
    Profiles <- BusyProfiles
    Runs <- BusyRuns
    Times <- MCTimes
    VALIDITY_MS = 86400000
    STEP_MS = 100
    MaxPacketSeq = 1000
    MaxOnAir = 1000
    MaxWipes = 0
INVARIANTS
    NothingVanishes
CHECK_DEADLOCK FALSE
