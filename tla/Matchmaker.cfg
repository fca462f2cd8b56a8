\* A server elsewhere and one started on demand, a crash of the matchmaker.
SPECIFICATION FairSpec
CONSTANTS
    x = x
    h = h
    Remote <- MCRemote
    Spawned <- MCSpawned
    Host <- MCHost
    Claimed <- MCClaimed
    Port <- MCPort
    Name <- MCName
    Moved = {"home"}
    HostPorts = {2}
    Home = "home"
    MAX_REGISTRATIONS = 2
    MAX_REGISTRATIONS_PER_PEER = 2
    MAX_CONNS_PER_IP = 2
    MaxConns = 2
    MaxStarts = 1
    MaxCrashes = 1
INVARIANTS
    RowsHeldByLive
PROPERTIES
    ListsAsPromised
    DeadRowsGo
CHECK_DEADLOCK FALSE
