\* Three joins, departures and evictions of one name, with logins and the operator's orders.
SPECIFICATION Spec
CONSTANTS
    a = a
    b = b
    f = f
    g = g
    Fds <- MCFds
    Ips <- MCIps
    Wanted <- MCWanted
    Names <- MCNames
    Connections = 3
    MaxClients = 2
    PerIp = 2
    Threshold = 1
    Stale = TRUE
    Protected = TRUE
    MaxOrders = 1
    Bannable <- MCPlain
    Pinned <- MCPlain
SYMMETRY Alike
INVARIANTS
    TypeOK
    UniqueNames
    RosterLive
    PerAddressExact
    VerifiedIsCurrent
    GuessesBounded
    EvictedActsOnce
    EvictedIsWoken
CHECK_DEADLOCK FALSE
