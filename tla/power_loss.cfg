SPECIFICATION Spec
CONSTANTS
    Currents <- MCCurrents
    NoCurrent = NoCurrent
    IntMin <- MCIntMin
    LogQueueLen = 2
    FlushRows = 2
    SnapFlushRows = 2
    ImmediateFsync = FALSE
    Faults = {}
    NoFile = NoFile
    MaxFrames = 3
    MaxMarkers = 0
    MaxResets = 1
PROPERTY LossBounded
CHECK_DEADLOCK FALSE
