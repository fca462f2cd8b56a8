\* An edit relayed between a scan and its push: expected to violate EditNeverOvertakesReply.
SPECIFICATION Spec
CONSTANTS
    c1 = c1
    c2 = c2
    Clients <- MCClients
    Cells <- SharedCells
    Points <- SharedPoints
    Types = {2}
    Colors = {}
    Radius = 16
    MaxWorldCells = 5
    CacheMax = 16
    PendingMax = 0
    MaxRegionJobs = 2
    EmptyFrame = TRUE
    SessionCap = 1
    MaxEdits = 1
    MaxBacklog = 0
SYMMETRY MCSymmetry
CHECK_DEADLOCK FALSE
INVARIANTS
    EditNeverOvertakesReply
