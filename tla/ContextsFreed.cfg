CONSTANTS
    Contexts = {c1, c2}
    Asts = {a1}
    Values = {v1}
    Cells = {o1}
    CtxVars = {x1}
    Current = current
    MaxNest = 1
    MaxShares = 2
    NoCtx = NoCtx
    NoAst = NoAst
SPECIFICATION InterpSpec
SYMMETRY Symmetry
INVARIANTS
    ContextsFreed
