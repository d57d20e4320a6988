\* Three files for two workers, over pipes that hold one path or one block.
CONSTANTS
    FileCount = 3
    worker_count = 2
    Readings <- MCReadings
    InCap = 1
    OutCap = 1
    MaxBlocks = 2
SPECIFICATION FairSpec
INVARIANT
    ReportComplete
PROPERTY
    ReturnsUnlessLarge
CHECK_DEADLOCK FALSE
