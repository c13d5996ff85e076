CONSTANTS
    Interfaces = {i1, i2, i3}
    InterfaceNames = {x, y}
    Attributes = {a1}
    Operations = {p1}
    Identifiers <- MCIdentifiers
    None = None
    MaxBases = 2
SPECIFICATION Spec
SYMMETRY MCSymmetry
CHECK_DEADLOCK FALSE
INVARIANTS BasesExist
PROPERTIES InheritedDistinct OwnKept CreatedDistinct
