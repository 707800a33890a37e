CONSTANTS
    alice = alice
    operator = operator
    bank = bank
    bridge = bridge
    coin = coin
    erc20 = erc20
    nft = nft
    erc20Contract = erc20Contract
    nftContract = nftContract
    Users = {alice, operator}
    BankAccount = bank
    BridgeAccount = bridge
    Coin = coin
    ERC20s = {erc20}
    NFTs = {nft}
    ContractOf <- ContractOfEach
    Hooked = {erc20}
    BankRole = {bridge, operator}
    BridgeRole = {operator}
    Amounts = {1}
    InitBalance <- OneEach
    MaxDeposits = 2
    MaxWithdrawn = 1
    MaxDepth = 2
SPECIFICATION Spec
CHECK_DEADLOCK FALSE
INVARIANT TypeOK
INVARIANT Custody
PROPERTY OnlyPermitedWithdraw
