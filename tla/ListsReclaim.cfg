CONSTANTS
    Types = {"Tree", "Forest", "Box"}
    Specs <- MCSpecs
    MaxCalls = 1
    MaxBatch = 2
SPECIFICATION Spec
INVARIANTS
    ListsReclaim
CHECK_DEADLOCK FALSE
