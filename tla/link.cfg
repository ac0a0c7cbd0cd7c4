SPECIFICATION LinkFairSpec
CONSTANTS
    Signals <- MCSignals
    RxDepth = 1
    LiveDepth = 2
    MaxFrames <- MCMaxFrames
    CmdDepth = 2
    FileUnits = 3
    WideMtu = 2
    BufLines = 1
    MaxLinks <- MCMaxLinks
    Sends <- MCSends
INVARIANTS LinkTypeOK CommandsSurvive CopyWhole FreshStream
PROPERTIES DecodedRight ModeEarned LeavesDetecting LoggingNeverStalls
CHECK_DEADLOCK FALSE
