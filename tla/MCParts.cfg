SPECIFICATION PartsSpec
CONSTANTS
    u1 = u1
    u2 = u2
    v = v
    Uids = {u1, u2, v}
    Asked = {u1, u2}
    ShardOf <- MCShardOf
    Shards = 2
    Timeout = 1
    MaxClock = 2
    MaxTurns = 1
    Values = {1, 2}
    Unparsable = Unparsable
    Asks <- MCAsks
    Readers = {r1}
    Requests = {q1, q2}
    m1 = m1
    m2 = m2
    Miners = {m1, m2}
    Asker = m1
    MaxCredits = 3
    MaxAmount = 2
    Owners = {m1}
    Jobs = {j}
    Window = 1
    LastSecond = 3
    MaxWrites = 3
    MaxFaults = 1
    p1 = p1
    p2 = p2
    p3 = p3
    s1 = s1
    s2 = s2
    NoOne = NoOne
    Procs = {p1, p2, p3}
    Shares = {s1, s2}
    MaxSteps = 4
INVARIANTS
    StatisticsHonest
    ConfigWhole
    AccountCovers
    RecordsKept
    GenerationsExact
PROPERTIES
    StatisticsEnd
    NoDuplicateInWindow
\* The two goroutines of the duplicate check can wait for each other's lock for
\* ever: see CallsReturn.
CHECK_DEADLOCK FALSE
