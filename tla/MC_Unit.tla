------------------------------ MODULE MC_Unit ------------------------------
(* Model-checking instance of Unit: four PIDs as model values (enough for  *)
(* the main, secondary and stop processes plus a child and a reused PID), *)
(* the unit types and method sets each run explores.                       *)
EXTENDS Unit, TLC

CONSTANTS p1, p2, p3, p4

MC_Pid == {p1, p2, p3, p4}
MC_NoPid == 0
\* Three PIDs: the main process, its one child and the stop method's.
MC_Pid3 == {p1, p2, p3}
\* Every combination of the optional methods; start is always present.
MC_AllMethodSets ==
    {{"start"} \cup opt : opt \in SUBSET {"prestart", "poststart", "stop"}}
MC_NoMethodsOrAll == {{"start"}, {"start", "prestart", "poststart", "stop"}}
\* The graph engine asks an instance to come up only once it is at rest.
MC_RequestStates == {"Uninitialised", "Offline"}
\* PIDs are interchangeable: no property names one.
MC_Symmetry == Permutations(MC_Pid)
=============================================================================
