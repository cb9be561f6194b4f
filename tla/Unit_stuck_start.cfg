CONSTANTS
    p1 = p1
    p2 = p2
    p3 = p3
    p4 = p4
    Pid <- MC_Pid
    NoPid <- MC_NoPid
    UnitTypes = {"simple"}
    MethodSets <- MC_AllMethodSets
    ChildBound = 1
    ForkMayFail = FALSE
    MaxTimerId = 4
    RequestStates <- MC_RequestStates
SYMMETRY MC_Symmetry
SPECIFICATION Spec
\* A unit in Maintenance, or stuck with no process and no timer, waits for
\* an administrator: the event loop legitimately has nothing to do.
CHECK_DEADLOCK FALSE
PROPERTY ProcessesGoneEventuallyRests
