CONSTANTS
    o1 = o1
    o2 = o2
    o3 = o3
    n = n
    N = N
    m = m
    Objs = {o1, o2}
    Root = Root
    Prim = Prim
    NoObj = NoObj
    NoString = NoString
    Names = {n, m}
    CaseClass <- MCCaseClass
    Ids = {i1, i2}
    Kinds = {"Module", "Sequence"}
    Readonly = FALSE
    Loaded = {}
    Branch = Branch
    Unknown = Unknown
    MaxPaths = 3
    MaxRefs = 1
    MaxDepth = 2
    MaxIndex = 2
SYMMETRY NameSymmetry
SPECIFICATION PSpec
CHECK_DEADLOCK FALSE
INVARIANTS LeftoversAtTheTop RefusedForLeftovers
PROPERTIES RestoredAsSaved NothingMissed
