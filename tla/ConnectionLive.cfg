\* One call under fairness, while its delegation is revoked.
SPECIFICATION FairSpec
CONSTANTS
    Calls       <- OneCall
    Invocations <- MCInvocations
    Delegations <- OneDelegation
    Worlds      <- OneChain
    HostThrows  = TRUE
    IssueFails  = TRUE
    Batches     <- Alone
    MaxBatch    = 2
    Channels    <- MCChannels
    Codecs      <- MCCodecs
PROPERTIES
    EveryCallSettles
    EveryRunEnds
