\* Every change is written, through a failed save.
CONSTANTS
    AutoThread = auto
    MainThread = main
    CtlThreads = {c1}
    EditKinds <- WorldAndSigns
    Stops = {}
    SyncOutcomes = {"ok", "error"}
    MaxVersion = 2
    MaxFailures = 1
    MaxCrashes = 0
    MaxCommands = 1
    MaxDepartures = 0
    MaxReloads = 0
SPECIFICATION FairSpec
PROPERTIES ChangesReachDisk
CHECK_DEADLOCK FALSE
