CONSTANTS
    a = a
    b = b
    h = h
    n = n
    N = N
    m = m
    Primitives = {"void", "short", "long"}
    Links = {a, b}
    Holders = {h}
    LinkKinds = {"Alias", "Sequence", "Exception"}
    HolderKinds = {"Struct", "Union", "Enum", "Constant", "Operation", "Attribute"}
    CaseClass <- MCCaseClass
    MemberLists <- MCMemberLists
    Values <- MCValues
    ClientTypes <- MCClientTypes
    MemberChoices <- MCMemberChoices
    None = None
    MaxNesting = 1
    MaxMembers = 3
SPECIFICATION Spec
CHECK_DEADLOCK FALSE
INVARIANTS TypeOK UnionRule OnewayLegal CanonicalIsKnown
PROPERTIES StaleOnlyByRetarget RepairedBySetting TypeLostOnlyByRetarget
