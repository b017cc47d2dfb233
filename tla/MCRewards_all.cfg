SPECIFICATION RewardsSpec
CONSTANTS
    c1 = c1
    c2 = c2
    c3 = c3
    alice = alice
    bob = bob
    JobKey = JobKey
    NoOne = NoOne
    Conns = {c1, c2, c3}
    Logins = {alice, bob}
    Miners <- MCMiners
    Hashes = {1, 2, 3}
    Modes = {"solo", "equal"}
    Amount = 9
    PoolFee = 1
    RewardFee = 1
    DirectFee = 2
    Huge = 100
    MaxMessages = 3
    MaxFaults = 2
    FewShares = 2
SYMMETRY Symmetry
INVARIANTS
    RewardsTypeOK
    WonOnce
    NeverOverDistributed
    FullyDistributed
    SentIsKnown
    LowestOfSingleShareKept
\* A job comes to its end.
CHECK_DEADLOCK FALSE
