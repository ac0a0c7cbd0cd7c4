SPECIFICATION BleFairSpec
CONSTANTS
    Currents <- MCCurrents
    NoCurrent = NoCurrent
    IntMin <- MCIntMin
    LogQueueLen = 2
    FlushRows = 2
    SnapFlushRows = 2
    ImmediateFsync = FALSE
    Faults = {"fopen", "nvs_open", "nvs_write", "nvs_erase"}
    NoFile = NoFile
    MaxFrames = 1
    MaxMarkers = 2
    MaxResets = 1
    ListMax = 2
INVARIANTS TripHasRaw SnapshotPerTrip
PROPERTIES CommandAnswered EndSignalled
CHECK_DEADLOCK FALSE
