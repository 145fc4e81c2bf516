\* Authorization sessions while the clock ticks and delegations are revoked.
SPECIFICATION Spec
CONSTANTS
    Token          <- MCToken
    Field          <- MCField
    Value          <- MCValue
    Delegations    <- SessionDelegations
    Worlds         <- SessionWorlds
    Presented      <- AccessInvocation
    Invoked        <- MCInvoked
    Authority      <- W3
    KeyDIDs        <- MCKeyDIDs
    Unparsable     <- MCUnparsable
    OtherDIDs      <- MCOtherDIDs
    Local          <- LocalProof
    KeyAnswers     <- SomeKeys
    CallbacksThrow = TRUE
    RevokedAtStart <- MaybeRevoked
    Revocable      <- RevocableSessions
    MaxTime        = 1
INVARIANTS
    TypeOK
    Coherent
    BackedChainsAreFound
PROPERTIES
    RevokedStaysOut
    NothingUnverified
    KeepsPromise
