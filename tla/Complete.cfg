\* Nothing is revoked and every callback obliges: the search is exact.
SPECIFICATION Spec
CONSTANTS
    Token          <- MCToken
    Field          <- MCField
    Value          <- MCValue
    Delegations    <- MCNames
    Worlds         <- AllWorlds
    Presented      <- AccessInvocation
    Invoked        <- MCInvoked
    Authority      <- W3
    KeyDIDs        <- MCKeyDIDs
    Unparsable     <- MCUnparsable
    OtherDIDs      <- MCOtherDIDs
    Local          <- LocalProof
    KeyAnswers     <- OneAnswer
    CallbacksThrow = FALSE
    RevokedAtStart <- Nothing
    Revocable      = {}
    MaxTime        = 0
ACTION_CONSTRAINT
    Obliging
INVARIANTS
    ExploresEveryOption
    ThrowsForCause
