CONSTANTS
    o1 = o1
    o2 = o2
    o3 = o3
    o4 = o4
    n = n
    N = N
    m = m
    Objs = {o1, o2, o3, o4}
    Root = Root
    Prim = Prim
    NoObj = NoObj
    NoString = NoString
    Names = {n}
    CaseClass <- MCCaseClass
    Ids = {i1, i2}
    Kinds = {"Struct", "Sequence", "Constant"}
    Readonly = FALSE
    Loaded = {}
    MaxRefs = 1
    MaxDepth = 2
    MaxIndex = 3
SYMMETRY Symmetry
SPECIFICATION Spec
CHECK_DEADLOCK FALSE
INVARIANTS TypeOK DependencySound UnresolvedMeansGone
PROPERTIES UsedStaysDefined
