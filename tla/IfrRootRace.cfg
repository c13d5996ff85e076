CONSTANTS
    Threads = {t1, t2, t3}
    Modules = {a}
    Root = Root
    Defs = {d1, d2}
    Names = {n, m}
    Ids = {i1, i2}
    None = None
SPECIFICATION Spec
CHECK_DEADLOCK FALSE
INVARIANTS DistinctBelowRoot Registered
PROPERTIES IRpoaFreed OnlyAddIdAsserts
