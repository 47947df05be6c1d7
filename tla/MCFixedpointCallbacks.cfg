CONSTANTS
    Fixedpoints = {f1, f2}
    Boxes = {b1, b2}
    Events = {newLemma, predecessor}
    MaxDepth = 3
    NoBox = NoBox
    UserState = UserState
SPECIFICATION Spec
SYMMETRY Symmetry
INVARIANTS
    TypeOK
    CallbacksLand
    RegisteredOnce
    HandlersFire
    SurfacesApart
    InQueryExact
    CanceledExact
PROPERTIES
    NoSwapMidQuery
CHECK_DEADLOCK FALSE
