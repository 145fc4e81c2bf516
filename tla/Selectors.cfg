\* Every parser over three proofs and an invocation of one or two capabilities.
SPECIFICATION Spec
CONSTANTS
    Token       <- MCToken
    Field       <- MCField
    Value       <- MCValue
    Derives     <- MCDerives
    Parsers     <- MCParsers
    Descriptors <- MCDescriptors
    Resources   <- MCResources
    AnyNb       <- MCAnyNb
    Written     <- MCWritten
    Roles       <- MCRoles
INVARIANTS
    ProvenToTheOwners
    EveryCombination
    AccountedFor
    UnknownCaveatsAreIgnored
    DelegatedCovers
    AllowsOverlooksNothing
CHECK_DEADLOCK FALSE
