CONSTANTS
    Threads = {t1, t2, t3}
    Required = {mk_config, mk_context}
    Optional = {set_has_size}
    Handle = handle
    Ready = z3Ready
    NoThread = NoThread
    MaxRetries = 1
SPECIFICATION FairSpec
INVARIANTS
    TypeOK
    OneLoader
    Published
    NoNilEntry
PROPERTIES
    LoadedOnce
    Promise
    EveryCallEnds
