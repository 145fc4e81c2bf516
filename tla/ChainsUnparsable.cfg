\* Chains, some with a proof from an issuer whose key is of an unknown type.
SPECIFICATION Spec
CONSTANTS
    Token          <- MCToken
    Field          <- MCField
    Value          <- MCValue
    Delegations    <- ChainDelegations
    Worlds         <- ChainWorlds
    Presented      <- AccessInvocation
    Invoked        <- MCInvoked
    Authority      <- W3
    KeyDIDs        <- MCKeyDIDs
    Unparsable     <- MCUnparsable
    OtherDIDs      <- MCOtherDIDs
    Local          = {}
    KeyAnswers     <- NoKeys
    CallbacksThrow = FALSE
    RevokedAtStart <- Nothing
    Revocable      = {}
    MaxTime        = 0
ACTION_CONSTRAINT
    Obliging
INVARIANT
    NoProofEndsTheSearch
