SPECIFICATION StratumSpec
CONSTANTS
    s1 = s1
    s2 = s2
    home = home
    away = away
    NoUid = NoUid
    Sessions = {s1, s2}
    Uids = {home, away}
    AddressOf <- MCAddressOf
    MaxTasks = 2
    SeedOf <- MCSeedOf
    MaxLogins = 1
    MaxJobs = 3
    BcastCap = 1
INVARIANT
    MinerKnown
CHECK_DEADLOCK FALSE
