\* Two racing saves of the world: the older blob may be written last.
CONSTANTS
    AutoThread = auto
    MainThread = main
    CtlThreads = {c1}
    EditKinds <- WorldOnly
    Stops = {}
    SyncOutcomes = {"ok"}
    MaxVersion = 2
    MaxFailures = 0
    MaxCrashes = 0
    MaxCommands = 1
    MaxDepartures = 0
    MaxReloads = 0
SPECIFICATION Spec
INVARIANTS WorldCleanIsSaved
CHECK_DEADLOCK FALSE
