\* Two instances that exclude each other, one of them disabled.
CONSTANTS
    Store <- MutualExclusionGraph
    Targets = {"a:i", "b:j"}
    ExtReasons = {}
    MaxRequests = 2
SPECIFICATION Spec
\* The driver sends MaxRequests requests and then nothing more.
CHECK_DEADLOCK FALSE
INVARIANT NoOverflow
