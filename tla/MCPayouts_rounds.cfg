SPECIFICATION FairPayoutsSpec
CONSTANTS
    m1 = m1
    m2 = m2
    m3 = m3
    Miners = {m1, m2, m3}
    BadAddresses = {m3}
    ChunkSize = 2
    Thresholds <- NegativeAndOne
    MaxReward = 3
    MaxFaults = 2
INVARIANTS
    PayoutsTypeOK
    LedgerBalanced
    QuoteStillOwed
    UnpaidNeverNegative
    LedgerNeverAhead
    NoOverpaymentUnlessUnsure
PROPERTIES
    PaysAboveThreshold
    RoundEnds
    KeepsPromise
    DebtsArePaid
