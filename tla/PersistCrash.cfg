\* A crash at any point of the saves, with a sign reload and a stop by signal.
CONSTANTS
    AutoThread = auto
    MainThread = main
    CtlThreads = {c1}
    EditKinds <- SignsOnly
    Stops = {"signal"}
    SyncOutcomes = {"ok", "error"}
    MaxVersion = 2
    MaxFailures = 1
    MaxCrashes = 1
    MaxCommands = 1
    MaxDepartures = 0
    MaxReloads = 1
SPECIFICATION Spec
INVARIANTS TypeOK CrashSafe OneWriter
CHECK_DEADLOCK FALSE
