\* The note queue on the core graph (RequireAll over an instance and a
\* service, OptionalAll, ExcludeAll), with admin requests and observed
\* stops of d:l and c:k (with every restart reason) sent once the queue has
\* drained; eight requests allow two disable/enable rounds of each target.
CONSTANTS
    Store <- CoreGraph
    Targets = {"c:k", "d:l"}
    ExtReasons = {0, 1, 2, 3, 4}
    MaxRequests = 8
SPECIFICATION Spec
\* The driver sends MaxRequests requests and then nothing more: once
\* their notes have drained the daemon waits.
CHECK_DEADLOCK FALSE
INVARIANT RequirementNotDisabled
INVARIANT NoLostWakeup
INVARIANT NoStaleIntent
PROPERTY EventuallyQuiescent
PROPERTY LifecycleSpec
