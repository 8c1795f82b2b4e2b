CONSTANTS
    j1 = j1
    j2 = j2
    None = None
    Jobs <- MCJobs
    Trees <- MCTrees
    Flags <- MCFlags
    Stale = "x"
    MaxFailures = 2

SPECIFICATION Spec
INVARIANTS
    FilesListedOnce
    ExitZeroComplete
