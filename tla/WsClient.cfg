SPECIFICATION FairWsSpec
CONSTANTS
    a1 = a1
    a2 = a2
    a3 = a3
    s1 = s1
    Agents = {a1, a2, a3}
    First = a1
    Submitters = {s1}
    ChanCap = 1
    MaxConns = 4
    MaxMessages = 2
    MaxBreaks = 1
    MaxCloses = 1
    MaxRefusals = 2
INVARIANTS
    WsTypeOK
    InOrder
    NilNeedsClose
PROPERTIES
    Reconnects
\* A nil connection stops the process, and the node stops sending.
CHECK_DEADLOCK FALSE
