SPECIFICATION SettlementSpec
CONSTANTS
    c1 = c1
    c2 = c2
    alice = alice
    bob = bob
    JobKey = JobKey
    NoOne = NoOne
    Conns = {c1, c2}
    Logins = {alice, bob}
    Miners <- MCMiners
    Hashes = {1}
    Modes = {"solo", "equal"}
    Amount = 9
    PoolFee = 1
    RewardFee = 1
    DirectFee = 2
    Huge = 100
    MaxMessages = 2
    MaxFaults = 1
    FewShares = 1
    BadAddresses = {JobKey}
    ChunkSize = 2
    Thresholds = {0}
PROPERTIES
    CreditsAsAssumed
SYMMETRY Symmetry
\* The job comes to its end and the payment task may hang.
CHECK_DEADLOCK FALSE
