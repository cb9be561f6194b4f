\* a:i excludes c:k and requires b:j, which requires a:i.
CONSTANT Repos <- ExcludeFirst
SPECIFICATION Spec
\* graph_setup_all returns once every vertex is set up.
CHECK_DEADLOCK FALSE
INVARIANT NoCycleAccepted
