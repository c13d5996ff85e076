CONSTANTS
    Procs = {p1, p2}
    Pids = {i1, i2}
    NoPid = NoPid
    HaveOnExit = TRUE
SPECIFICATION Spec
INVARIANTS FailedIsFailed
PROPERTIES PidfileRespected ParentReleased
