CONSTANTS
    MaxAttempts = 3
    CancelFlags = {FALSE, TRUE}
    DumpFlags = {FALSE, TRUE}

SPECIFICATION Spec
INVARIANTS
    TypeOK
    ExtraTasksCancelled
