------------------------- MODULE MC_Satisfiability -------------------------
\* The satisfiability check on the graphs of MC_Graphs.
EXTENDS SatisfiabilityCheck, MC_Graphs
=============================================================================
