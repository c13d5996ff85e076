CONSTANTS
    o1 = o1
    o2 = o2
    o3 = o3
    o4 = o4
    n = n
    N = N
    m = m
    Objs = {o1, o2, o3}
    Root = Root
    Prim = Prim
    NoObj = NoObj
    NoString = NoString
    Names = {n, m}
    CaseClass <- MCCaseClass
    Ids = {i1, i2, i3}
    Kinds = {"Module", "Struct", "Alias"}
    Readonly = FALSE
    Loaded = {}
    MaxRefs = 1
    MaxDepth = 3
    MaxIndex = 3
SYMMETRY Symmetry
SPECIFICATION CarefulSpec
CHECK_DEADLOCK FALSE
INVARIANTS NeverDies NothingLost
PROPERTIES OneAtATime ImplementsCatalogue
