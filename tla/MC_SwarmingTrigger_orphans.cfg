CONSTANTS
    MaxAttempts = 3
    CancelFlags = {TRUE}
    DumpFlags = {FALSE, TRUE}

SPECIFICATION Spec
INVARIANT
    NoExtraTasksAlive
