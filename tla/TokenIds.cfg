CONSTANTS
    Half = 2
    Full = 16
    Ids <- WordIds
SPECIFICATION Spec
CHECK_DEADLOCK FALSE
INVARIANT TypeOK
INVARIANT SmallIdsFaithful
INVARIANT NoneBlocked
