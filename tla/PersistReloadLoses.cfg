\* A sidecar reload while signs change.
CONSTANTS
    AutoThread = auto
    MainThread = main
    CtlThreads = {c1}
    EditKinds <- SignsOnly
    Stops = {}
    SyncOutcomes = {"ok"}
    MaxVersion = 2
    MaxFailures = 0
    MaxCrashes = 0
    MaxCommands = 0
    MaxDepartures = 0
    MaxReloads = 1
SPECIFICATION Spec
PROPERTIES ReloadKeepsSigns
CHECK_DEADLOCK FALSE
