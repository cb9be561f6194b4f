-------------------------- MODULE MC_Propagation --------------------------
\* The propagation engine on the graphs of MC_Graphs.
EXTENDS Propagation, MC_Graphs
=============================================================================
