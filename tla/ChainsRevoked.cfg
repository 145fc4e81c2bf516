\* Chains, one delegation revoked before the call.
SPECIFICATION Spec
CONSTANTS
    Token          <- MCToken
    Field          <- MCField
    Value          <- MCValue
    Delegations    <- ChainDelegations
    Worlds         <- ChainWorlds
    Presented      <- AccessInvocation
    Invoked        <- MCInvoked
    Authority      <- W3
    KeyDIDs        <- MCKeyDIDs
    Unparsable     <- MCUnparsable
    OtherDIDs      <- MCOtherDIDs
    Local          = {}
    KeyAnswers     <- NoKeys
    CallbacksThrow = FALSE
    RevokedAtStart <- EachRevoked
    Revocable      = {}
    MaxTime        = 0
ACTION_CONSTRAINT
    Obliging
INVARIANT
    ExploresEveryOption
