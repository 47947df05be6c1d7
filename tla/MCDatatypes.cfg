CONSTANTS
    Types = {"Tree", "Forest", "Box"}
    Specs <- MCSpecs
    MaxCalls = 2
    MaxBatch = 2
SPECIFICATION Spec
INVARIANTS
    TypeOK
    CountsExact
    TryReclaims
    RegisteredTogether
CHECK_DEADLOCK FALSE
