CONSTANTS
    Contexts = {c1, c2}
    Asts = {a1, a2}
    Values = {v1, v2}
    Cells = {o1}
    CtxVars = {x1}
    Current = current
    MaxNest = 1
    MaxShares = 2
    NoCtx = NoCtx
    NoAst = NoAst
SPECIFICATION Spec
SYMMETRY Symmetry
INVARIANTS
    TypeOK
    StrongExact
    RefsExact
    HandlesValid
    ContextsFreed
PROPERTIES
    DeletedClean
    BorrowedLeftToZ3
