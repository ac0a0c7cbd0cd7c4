SPECIFICATION UpdateFairSpec
CONSTANTS
    Files <- MCFiles
    Size <- MCSize
    PageChunks = 2
    JsonRetries = 1
    TxDepth = 3
    RxDepth = 3
    Bounds <- MCBounds
INVARIANTS InstalledIsOneFile
PROPERTIES StepMeansAccepted StepAnswered
CHECK_DEADLOCK FALSE
