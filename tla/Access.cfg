CONSTANTS
    alice = alice
    bob = bob
    c1 = c1
    c2 = c2
    admin = admin
    bankRole = bankRole
    bridgeRole = bridgeRole
    bank = bank
    bridge = bridge
    Accounts = {alice, bob}
    Deployer = alice
    Controllers = {c1, c2}
    FirstController = c1
    NotAController = NotAController
    Roles = {admin, bankRole}
    DEFAULT_ADMIN_ROLE = admin
    Registries = {bank}
    RoleOf <- BothRoles
    MaxVersion = 2
SPECIFICATION Spec
INVARIANT TypeOK
PROPERTY NoAccessFromNothing
PROPERTY VersionsKept
PROPERTY FrozenForGood
