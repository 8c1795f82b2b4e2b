CONSTANTS
    p1 = p1
    p2 = p2
    main = main
    Missing = Missing
    Empty = Empty
    Err = Err
    Panic = Panic
    None = None
    Procs <- MCProcs
    Commits = {1, 2, 3, 4, 5, 6, 7}
    Parents <- MCParents
    Refs = {main}
    RefInit <- MCRefInit
    RefCommits = {7}
    Spellings = {"lower", "upper"}
    Commitishes <- MCCommitishesUpper
    MinArgs = {0, 4}
    PageSize = 4
    DefaultMin = 2
    MaxCalls = 3
    MaxEvictions = 1
    MaxPushes = 1
    InitCache <- MCInitCache

SPECIFICATION Spec
SYMMETRY Symmetry
INVARIANT
    PointerTargetInBatch
