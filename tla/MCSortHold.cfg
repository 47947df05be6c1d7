CONSTANTS
    Addrs = {a1, a2, a3, a4}
    Families = {"float"}
    Uninterpreted = {"Color"}
    MaxDepth = 2
    MaxArgs = 1
    MaxDefining = 1
    MaxTerms = 1
    MaxLost = 1
    NoAddr = NoAddr
SPECIFICATION Spec
SYMMETRY Symmetry
INVARIANTS
    TypeOK
    SortsLive
    DefinedLive
    HoldsBalance
PROPERTY KeptStays
CHECK_DEADLOCK FALSE
