CONSTANTS
    Constraints = {c1, c2}
    Terms = {t}
    Groups = {g}
    MaxScopes = 3
    MaxObjectives = 2
SPECIFICATION Spec
SYMMETRY Symmetry
INVARIANTS
    TypeOK
    HandlesValid
PROPERTIES
    Promise
