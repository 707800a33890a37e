CONSTANTS
    tokA = tokA
    tokB = tokB
    w1 = w1
    w2 = w2
    Events = {1, 2}
    KindOf <- KindsOneEach
    Tokens = {tokA, tokB}
    TokenOf <- TokensOneEach
    InitPair <- OneUnpaired
    Workers = {w1, w2}
    RetryLimit = 1
    CloseRetries = 1
    QueueSize = 1
    Faults = {"crash", "signal", "pair", "latest", "filter", "get", "put", "estimate", "lostErr", "sendtx", "poll", "revert"}
    MaxHeight = 1
    MaxNonce = 2
    MaxOutages = 1
SPECIFICATION BoundedSpec
SYMMETRY Symmetry
INVARIANT TypeOK
INVARIANT CallbacksFindTheirEvent
INVARIANT SucceededIsMinted
PROPERTY SettledIsFinal
