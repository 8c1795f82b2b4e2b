CONSTANTS
    Inputs <- MCInputs
    NameRank <- MCNameRank
    None = None

SPECIFICATION Spec
INVARIANTS
    TypeOK
    InvUnchangedOnError
    InterruptedIffNotRun
    BasePathsUnprefixed
