\* A simple unit with no optional method or with all of them, forks that
\* succeed, three PIDs (main, its child, the stop method's: no more run at
\* once).  No SYMMETRY: it is not sound for liveness checking.
CONSTANTS
    p1 = p1
    p2 = p2
    p3 = p3
    p4 = p4
    Pid <- MC_Pid3
    NoPid <- MC_NoPid
    UnitTypes = {"simple"}
    MethodSets <- MC_NoMethodsOrAll
    ChildBound = 1
    ForkMayFail = FALSE
    MaxTimerId = 4
    RequestStates <- MC_RequestStates
SPECIFICATION Spec
\* A unit in Maintenance, or stuck with no process and no timer, waits for
\* an administrator: the event loop legitimately has nothing to do.
CHECK_DEADLOCK FALSE
PROPERTY RetryEventuallyRestarts
