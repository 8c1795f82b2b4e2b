\* Two VMs, two workers, two suffixes, three failed calls.
CONSTANTS
    w1 = w1
    w2 = w2
    Workers <- MCWorkers
    Amount = 2
    Suffixes = {"a", "b"}
    MaxFailures = 3
    None = None
SPECIFICATION Spec
INVARIANTS
    TypeOK
PROPERTIES
    ImplementsGceVMs
    AllVMsCreated
