CONSTANTS
    Objs <- Objects
    Root = Root
    Prim = Prim
    NoObj = NoObj
    NoString = NoString
    Names = {"M", "A", "B", "S", "s"}
    CaseClass <- MCCaseClass
    Ids = {"idM", "idM2", "idA", "idB", "idS", "idS2"}
    Kinds = {"Module", "Interface", "Attribute", "Struct", "Enum", "Alias", "Constant", "Sequence"}
    Readonly = FALSE
    Loaded = {}
    MaxRefs = 1
    MaxDepth = 3
    MaxIndex = 5
    Loaders = {"l1", "l2"}
    Files <- MCFiles
    MaxLoads = 2
SPECIFICATION LoaderSpec
CHECK_DEADLOCK FALSE
INVARIANTS SomeoneGetsThrough
PROPERTIES LoadedAsDeclared FailsForAReason LoadersAreCareful
