\* A control save, clean stops and departures, racing the autosave and each other.
CONSTANTS
    AutoThread = auto
    MainThread = main
    CtlThreads = {c1}
    EditKinds <- SignsOnly
    Stops = {"control", "idle"}
    SyncOutcomes = {"ok", "error", "unsupported"}
    MaxVersion = 2
    MaxFailures = 1
    MaxCrashes = 0
    MaxCommands = 1
    MaxDepartures = 2
    MaxReloads = 0
SPECIFICATION Spec
INVARIANTS SaveKeepsSigns SignsCleanIsSaved SignsSavedStay DeparturesCovered
CHECK_DEADLOCK FALSE
