\* Two players and the operator at a corridor with a protected end.
SPECIFICATION Spec
CONSTANTS
    guest = guest
    builder = builder
    Players <- MCPlayers
    Level <- MCLevel
    Width = 5
    Height = 3
    Depth = 2
    Terrain <- MCTerrain
    Radius = 1
    Extent = 1
    MaxDepth = 1
    ChainReach = 1
    MaxVisits = 600
    Cap = 10
    Actions <- MCActions
    Worlds <- MCWorlds
    Core <- MCCore
    OtherZones <- MCOther
    Fills <- MCFills
    SignThreads = {guest, builder, "control", "server"}
    SignCells = {}
    SignData = {}
    MaxSigns = 2
    Hung <- MCHung
    Written <- MCWritten
    PendingMax = 6
    MaxRequests = 3
    MaxOrders = 1
    Commands <- MCCommands
    Budgets <- MCBudgets
    Samples <- MCSamples
    UndoBudget = 3
INVARIANTS
    TypeOK
    ProtectedIntact
    RestoresCovered
    BurnBounded
    UndoTopMatches
    SignsCoherent
    RemovalsLogged
CHECK_DEADLOCK FALSE
