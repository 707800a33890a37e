CONSTANTS
    tokA = tokA
    tokB = tokB
    w1 = w1
    w2 = w2
    Events = {1}
    KindOf <- KindsOneERC20
    Tokens = {tokA, tokB}
    TokenOf <- TokensOne
    InitPair <- AllOriginal
    Workers = {w1, w2}
    RetryLimit = 1
    CloseRetries = 1
    QueueSize = 2
    Faults = {"crash"}
    MaxHeight = 2
    MaxNonce = 7
    MaxOutages = 1
SPECIFICATION FairSpec
PROPERTY FetchesPeriodically
