\* Every answer, failure and throw of the callbacks; the clock stands still.
SPECIFICATION FairSpec
CONSTANTS
    Token          <- MCToken
    Field          <- MCField
    Value          <- MCValue
    Delegations    <- MCNames
    Worlds         <- AllWorlds
    Presented      <- AccessInvocation
    Invoked        <- MCInvoked
    Authority      <- W3
    KeyDIDs        <- MCKeyDIDs
    Unparsable     <- MCUnparsable
    OtherDIDs      <- MCOtherDIDs
    Local          <- LocalProof
    KeyAnswers     <- SomeKeys
    CallbacksThrow = TRUE
    RevokedAtStart <- MaybeRevoked
    Revocable      = {}
    MaxTime        = 0
INVARIANT
    SearchDescends
PROPERTY
    Terminates
