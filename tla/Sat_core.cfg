\* The evaluator of graph.c on the graph CoreGraph, in every state its
\* instances can be in.
CONSTANT Store <- CoreGraph
SPECIFICATION Spec
\* A state with no Offline instance has no SC_ONLINE step left: the
\* evaluator itself never stops anything.
CHECK_DEADLOCK FALSE
INVARIANT CodeMatchesReference
INVARIANT SatisfactionMonotone
