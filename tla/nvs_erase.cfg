SPECIFICATION Spec
CONSTANTS
    Currents <- MCCurrents
    NoCurrent = NoCurrent
    IntMin <- MCIntMin
    LogQueueLen = 2
    FlushRows = 2
    SnapFlushRows = 2
    ImmediateFsync = FALSE
    Faults = {"nvs_erase"}
    NoFile = NoFile
    MaxFrames = 1
    MaxMarkers = 2
    MaxResets = 1
PROPERTY MasterArchive
CHECK_DEADLOCK FALSE
