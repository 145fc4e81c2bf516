\* Calls over both channels, with every failure of host, issuer and transport.
SPECIFICATION Spec
CONSTANTS
    Calls       <- TwoCalls
    Invocations <- MCInvocations
    Delegations <- OneDelegation
    Worlds      <- OneChain
    HostThrows  = TRUE
    IssueFails  = TRUE
    Batches     <- Together
    MaxBatch    = 2
    Channels    <- MCChannels
    Codecs      <- MCCodecs
INVARIANTS
    TypeOK
    OnlyPermittedEffects
PROPERTY
    KeepsPromise
