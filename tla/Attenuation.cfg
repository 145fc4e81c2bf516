\* Chains of every capability of the small instance.
SPECIFICATION Spec
CONSTANTS
    Token    <- MCToken
    Field    <- MCField
    Value    <- MCValue
    Caps     <- MCCaps
    Desc     <- MCDesc
    MaxDepth = 3
INVARIANTS
    TypeOK
    ChainCoversClaim
    EarlierDerivesFromLater
CHECK_DEADLOCK FALSE
