SPECIFICATION StratumSpec
CONSTANTS
    s1 = s1
    s2 = s2
    home = home
    NoUid = NoUid
    Sessions = {s1, s2}
    Uids = {home}
    AddressOf <- MCAddressOf
    MaxTasks = 2
    SeedOf <- MCSeedOf
    MaxLogins = 1
    MaxJobs = 3
    BcastCap = 1
SYMMETRY Symmetry
INVARIANTS
    StratumTypeOK
    VmMatchesTemplate
    LastJobRemembered
    BroadcastReached
\* All connections may have closed.
CHECK_DEADLOCK FALSE
