CONSTANTS
    tokA = tokA
    tokB = tokB
    w1 = w1
    w2 = w2
    Events = {1, 2}
    KindOf <- KindsERC20
    Tokens = {tokA, tokB}
    TokenOf <- TokensOneEach
    InitPair <- AllOriginal
    Workers = {w1, w2}
    RetryLimit = 1
    CloseRetries = 1
    QueueSize = 1
    Faults = {"revert", "crash", "put", "latest", "get", "sendtx"}
    MaxHeight = 1
    MaxNonce = 3
    MaxOutages = 1
SPECIFICATION BoundedSpec
SYMMETRY Symmetry
INVARIANT FailedAfterRetries
INVARIANT NoNonceGap
PROPERTY KeepsBooks
