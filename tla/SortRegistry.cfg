CONSTANTS
    Addrs = {a1, a2, a3, a4}
    Families = {"float"}
    Uninterpreted = {"Color"}
    MaxDepth = 2
    MaxArgs = 1
    MaxDefining = 1
    MaxTerms = 1
    MaxLost = 1
    NoAddr = NoAddr
SPECIFICATION DocumentedSpec
INVARIANTS
    SortsLive
CHECK_DEADLOCK FALSE
