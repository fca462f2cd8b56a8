\* One client's output: every producer, the writer, and the close.
SPECIFICATION FairSpec
CONSTANTS
    c1 = c1
    Clients <- OneClient
    HiMax = 3
    LoMax = 2
    MaxRegionJobs = 1
    FrameRecords = 2
    Encoders = 1
    Others = 1
    FillMax = 6
    LineSizes = {1, 2}
    BlobSizes = {1, 3}
    Totals = {0, 3}
    EmptyFrame = TRUE
    Broadcasters = 1
    MaxEntries = 3
CHECK_DEADLOCK FALSE
INVARIANTS
    TypeOK
    AccountingExact
    StreamExact
    FiledComplete
    DrainedMeansSent
    ExitedHoldsNothing
PROPERTIES
    MissedUpdateEndsSession
    CloseTerminates
