SPECIFICATION BleSpec
CONSTANTS
    Currents <- MCCurrents
    NoCurrent = NoCurrent
    IntMin <- MCIntMin
    LogQueueLen = 2
    FlushRows = 2
    SnapFlushRows = 2
    ImmediateFsync = FALSE
    Faults = {}
    NoFile = NoFile
    MaxFrames = 0
    MaxMarkers = 5
    MaxResets = 0
    ListMax = 2
PROPERTY OkMeansRotated
CHECK_DEADLOCK FALSE
