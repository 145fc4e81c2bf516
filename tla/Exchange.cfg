\* Three delegations, a message of two, and what may be missing of it and of the response.
SPECIFICATION Spec
CONSTANTS
    Links      <- MCLinks
    Attachable <- MCAttachable
    Clients    <- MCClients
    Codecs     <- MCCodecs
    Answers    <- MCAnswers
    MaxHeld    = 3
    Batches    <- MCBatches
INVARIANTS
    ChainArrives
    ProofBlocksArrive
    ReceiptBlocksArrive
    AttachmentsArrive
    AnsweredInFull
    LegacyInOrder
    Understood
CHECK_DEADLOCK FALSE
