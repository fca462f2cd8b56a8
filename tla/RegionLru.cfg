\* One client walking over five boxes that fill the cache, the world at its cell cap.
SPECIFICATION Spec
CONSTANTS
    c1 = c1
    c2 = c2
    Clients <- OneClient
    Cells <- CrowdedCells
    Points <- CrowdedPoints
    Types = {2}
    Colors = {7}
    Radius = 16
    MaxWorldCells = 1
    CacheMax = 8
    PendingMax = 0
    MaxRegionJobs = 1
    EmptyFrame = TRUE
    SessionCap = 5
    MaxEdits = 1
    MaxBacklog = 1
CHECK_DEADLOCK FALSE
INVARIANTS
    LruConsistent
