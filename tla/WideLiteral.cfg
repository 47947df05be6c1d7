CONSTANTS
    WordBits = 4
    Widths = {1, 2, 3, 4, 5, 8}
SPECIFICATION Spec
INVARIANTS
    CarriesModulo
CHECK_DEADLOCK FALSE
