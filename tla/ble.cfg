SPECIFICATION BleSpec
CONSTANTS
    Currents <- MCCurrents
    NoCurrent = NoCurrent
    IntMin <- MCIntMin
    LogQueueLen = 2
    FlushRows = 2
    SnapFlushRows = 2
    ImmediateFsync = FALSE
    Faults = {"fopen"}
    NoFile = NoFile
    MaxFrames = 0
    MaxMarkers = 4
    MaxResets = 2
    ListMax = 2
INVARIANTS BleTypeOK InOrderNothingStranded OfferedHasJob AckedCopyIsSession
PROPERTIES OkInTimeMeansRotated WebIsOptIn
CHECK_DEADLOCK FALSE
