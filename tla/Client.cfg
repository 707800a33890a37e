CONSTANTS
    Log = {1, 2, 3, 4}
    Logs <- MCLogs
    BufferSize = 1
    ChannelSize = 2
    Confirmations = 2
    ReorgDepth = 2
    MaxBlocks = 5
SPECIFICATION Spec
CHECK_DEADLOCK FALSE
INVARIANT FilterTypeOK
INVARIANT NothingLostOnTheWay
INVARIANT CompleteUnlessDropped
PROPERTY ConfirmedForGood
PROPERTY FetchReturns
