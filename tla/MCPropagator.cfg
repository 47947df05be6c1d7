CONSTANTS
    Boxes = {b1, b2, b3, b4}
    Solvers = {s1, s2, s3}
    Events = {"push", "final"}
    MaxDepth = 5
    NoBox = NoBox
    NoSolver = NoSolver
SPECIFICATION Spec
SYMMETRY Symmetry
INVARIANTS
    TypeOK
    CallbacksLand
    CurrentBoxIsRunning
    SubBoxesKept
CHECK_DEADLOCK FALSE
