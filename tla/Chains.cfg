\* Delegation chains while the clock ticks and delegations are revoked.
SPECIFICATION Spec
CONSTANTS
    Token          <- MCToken
    Field          <- MCField
    Value          <- MCValue
    Delegations    <- ChainDelegations
    Worlds         <- ChainWorlds
    Presented      <- AccessInvocation
    Invoked        <- MCInvoked
    Authority      <- W3
    KeyDIDs        <- MCKeyDIDs
    Unparsable     <- MCUnparsable
    OtherDIDs      <- MCOtherDIDs
    Local          = {}
    KeyAnswers     <- NoKeys
    CallbacksThrow = FALSE
    RevokedAtStart <- Nothing
    Revocable      <- ChainDelegations
    MaxTime        = 1
INVARIANTS
    GrantsOnlyChains
    NoEscalation
    BackedChainsAreFound
PROPERTIES
    NothingUnverified
    KeepsPromise
