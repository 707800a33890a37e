CONSTANTS
    tokA = tokA
    tokB = tokB
    w1 = w1
    w2 = w2
    Events = {1, 2}
    KindOf <- KindsERC20
    Tokens = {tokA, tokB}
    TokenOf <- TokensOneEach
    InitPair <- AllOriginal
    Workers = {w1, w2}
    RetryLimit = 1
    CloseRetries = 1
    QueueSize = 1
    Faults = {}
    MaxHeight = 2
    MaxNonce = 6
    MaxOutages = 0
SPECIFICATION BoundedSpec
SYMMETRY Symmetry
INVARIANT MintedOnce
