SPECIFICATION Spec
CONSTANTS
    Currents <- MCCurrents
    NoCurrent = NoCurrent
    IntMin <- MCIntMin
    LogQueueLen = 2
    FlushRows = 2
    SnapFlushRows = 2
    ImmediateFsync = FALSE
    Faults = {"fopen"}
    NoFile = NoFile
    MaxFrames = 3
    MaxMarkers = 3
    MaxResets = 1
INVARIANTS TypeOK IdsBelowCounter PeakIsTripMaximum SnapCompleteFirst
PROPERTIES MasterArchive RawIsArchive SnapIsArchive
CHECK_DEADLOCK FALSE
