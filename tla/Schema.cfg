\* Schemas of two combinators around every base, and values at their edges.
SPECIFICATION Spec
CONSTANTS
    MaxUint64   = 5
    MaxSafe     = 3
    Bases       <- MCBases
    Refinements <- MCRefinements
    Others      <- MCOthers
    Keys        <- MCKeys
    Inputs      <- MCInputs
    Defaults    <- MCDefaults
    MaxSteps    = 2
INVARIANTS
    OutputHasDeclaredType
    ReadTwiceIsReadOnce
    ArrivesAsCreated
    ErrorNamesTheFault
CHECK_DEADLOCK FALSE
