CONSTANTS
    Contexts = {c1, c2}
SPECIFICATION Spec
SYMMETRY Symmetry
INVARIANTS
    RaisesForItself
