CONSTANTS
    o1 = o1
    o2 = o2
    o3 = o3
    o4 = o4
    n = n
    N = N
    m = m
    Objs = {o1, o2, o3, o4}
    Root = Root
    Prim = Prim
    NoObj = NoObj
    NoString = NoString
    Names = {n, N}
    CaseClass <- MCCaseClass
    Ids = {i1, i2, i3}
    Kinds = {"Module"}
    Readonly = FALSE
    Loaded = {}
    MaxRefs = 0
    MaxDepth = 3
    MaxIndex = 2
SYMMETRY Symmetry
SPECIFICATION Spec
CHECK_DEADLOCK FALSE
INVARIANTS IdmapSound ContainmentSound SiblingNamesDistinct LookupFinds LookupNameFinds
PROPERTIES NameStaleOnlyFromAbove
