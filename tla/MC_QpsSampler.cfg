CONSTANTS
    g1 = g1
    g2 = g2
    g3 = g3
    Procs <- MCProcs
    Period = 2
    MaxTime = 6
    MaxCalls = 5

SPECIFICATION Spec
SYMMETRY Symmetry
INVARIANTS
    TypeOK
    SamplesSpaced
    UnsampledCovered
PROPERTY
    ImplementsAtomicSampler
