\* Every repository of three one-instance services where each instance
\* declares at most one group of one path (RequireAll or ExcludeAll, on
\* any service or instance, itself included).
CONSTANT Repos <- OneEach
SPECIFICATION Spec
\* graph_setup_all returns once every vertex is set up.
CHECK_DEADLOCK FALSE
INVARIANT TypeOK
INVARIANT NoCycleAccepted
PROPERTY SetupTerminates
