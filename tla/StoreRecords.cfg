CONSTANTS
    Sign = 128
    Sign32 = 16
    Times <- MCTimes
    ZeroTime <- MCZeroTime
    Inputs <- MCInputs
    Empty <- MCEmpty
    ERC20Logs <- MCERC20Logs
    NFTLogs <- MCNFTLogs
    Addresses <- MCAddresses
    Retries <- MCRetries
    BlockNumbers <- MCBlockNumbers
    MaxRecords = 2
    InitialDbs <- MCInitialDbs
SPECIFICATION Spec
INVARIANT TypeOK
INVARIANT ReadsInBounds
INVARIANT SizeExact
PROPERTY KeepsPromise
PROPERTY FieldsConsume
PROPERTY GetReturns
