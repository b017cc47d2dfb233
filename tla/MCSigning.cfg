SPECIFICATION SigningSpec
CONSTANTS
    Words = 4
    Base = 4
    MSBBits = 2
    WordBits = 6
    WideBits = 16
    C0 = 3
    C1 = 2
    MaxMul = 2
    Operands <- MCOperands
    MaxOps = 2
    ScalarWords = 4
    ScalarBits = 2
    OrderComplement = 5
    Scalars <- MCScalars
    P = 163
    GX = 2
    GY = 34
    N = 139
    Beta = 58
    Lambda = 96
    Logs = {0, 1, 138}
    Cells = {p, q, r}
    Zs = {1, 2}
    MaxCalls = 2
    MultOrder = 193
    ByteBits = 2
    DigitBits = 2
    Bases = {0, 1, 5}
    Keys = {1, 5, 138}
    Hashes = {0, 7, 137, 139, 200}
    Drawn = {0, 1, 18, 36, 58, 140}
    MaxDraws = 3
    OctetBits = 4
    OctetCount = 2
    Abscissas = {0, 1, 2, 3, 5, 140, 162, 163, 165}
INVARIANTS
    NumbersExact
    PointsExact
    SignaturesVerify
CHECK_DEADLOCK FALSE
