SPECIFICATION FairStratumSpec
CONSTANTS
    s1 = s1
    s2 = s2
    home = home
    away = away
    NoUid = NoUid
    Sessions = {s1, s2}
    Uids = {home, away}
    AddressOf <- MCAddressOf
    MaxTasks = 1
    SeedOf <- MCSeedOf
    MaxLogins = 2
    MaxJobs = 2
    BcastCap = 1
INVARIANTS
    MinerKnownUnlessShared
    WorkersListed
    MinersHaveOwner
PROPERTIES
    BroadcastEnds
    ConnectionsClose
\* All connections may have closed.
CHECK_DEADLOCK FALSE
