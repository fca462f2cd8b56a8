\* Two clients asking for one box while both edit it, its columns and an aliased one.
SPECIFICATION Spec
CONSTANTS
    c1 = c1
    c2 = c2
    Clients <- MCClients
    Cells <- AliasedCells
    Points <- AliasedPoints
    Types = {2}
    Colors = {}
    Radius = 16
    MaxWorldCells = 5
    CacheMax = 16
    PendingMax = 2
    MaxRegionJobs = 1
    EmptyFrame = TRUE
    SessionCap = 2
    MaxEdits = 2
    MaxBacklog = 0
SYMMETRY MCSymmetry
CHECK_DEADLOCK FALSE
INVARIANTS
    TypeOK
    CacheExact
    PendingExact
    BacklogBounded
PROPERTIES
    NeverFiledBackwards
