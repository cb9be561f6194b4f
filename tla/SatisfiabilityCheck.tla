------------------------ MODULE SatisfiabilityCheck ------------------------
(***************************************************************************)
(* The evaluator of Satisfiability asked about every state the instances  *)
(* of a built graph can be in, before and after an instance comes up.     *)
(***************************************************************************)
EXTENDS Satisfiability

(***************************************************************************)
(* The states the evaluator is asked about.  Every vertex has been set up *)
(* by graph_setup_all before any note is processed, so is_setup holds     *)
(* everywhere; an instance may be in any state and enabled or disabled     *)
(* (A_DISABLE clears is_enabled).  Only an instance's state is read.       *)
(* The one step is an instance coming up: SC_ONLINE of                     *)
(* vtx_process_state_change sets its state to Online.                      *)
(***************************************************************************)
\* Two history variables, for the monotonicity check only: what the
\* evaluator reported before the last step, and the instance that step
\* brought up ("none" in an initial state).
VARIABLES before, last

vars == <<st, is_setup, is_enabled, before, last>>

\* What vtx_satisfies reports for every vertex, recursive or not.
SatView == [p \in Vtx \X BOOLEAN |-> VtxSatisfies(p[1], p[2])]

TypeOK ==
    /\ st \in [Vtx -> VtxState]
    /\ is_setup \in [Vtx -> BOOLEAN]
    /\ is_enabled \in [Vtx -> BOOLEAN]
    /\ before \in [Vtx \X BOOLEAN -> Result]
    /\ last \in Inst \cup {"none"}

\* The instances' part of a vertex map, the other vertices getting `other`.
OnInsts(f, other) == [v \in Vtx |-> IF v \in Inst THEN f[v] ELSE other]

Init ==
    /\ \E f \in [Inst -> VtxState] : st = OnInsts(f, "Uninitialised")
    /\ is_setup = [v \in Vtx |-> TRUE]
    /\ \E f \in [Inst -> BOOLEAN] : is_enabled = OnInsts(f, TRUE)
    /\ before = SatView
    /\ last = "none"

ScOnline(v) ==
    /\ st[v] = "Offline"
    /\ st' = [st EXCEPT ![v] = "Online"]
    /\ UNCHANGED <<is_setup, is_enabled>>
    /\ before' = SatView
    /\ last' = v

Next == \E v \in Inst : ScOnline(v)

Spec == Init /\ [][Next]_vars

-----------------------------------------------------------------------------
\* vtx_satisfies and depgroup_is_satisfied, with and without recursion,
\* give for every vertex what spec section 4.3 defines.
CodeMatchesReference ==
    \A v \in Vtx, recurse \in BOOLEAN :
        VtxSatisfies(v, recurse) = RefVtx(v, recurse)

\* The instances some ExcludeAll group names, directly or through their
\* service: their coming up is meant to lower the excluding group.
Excluded ==
    UNION {TargetInsts(t) : t \in UNION {Kids(g) :
               g \in {u \in Vtx : Store.type[u] = "depgroup"
                                  /\ Store.dg_type[u] = "ExcludeAll"}}}

\* Spec 8.5: an instance going Online (SC_ONLINE) that no exclusion names
\* never lowers what vtx_satisfies reports for any vertex, recursive or not
\* (results are ordered best first: SATISFIED, UNSATISFIED, UNSATISFIABLE,
\* ABORT).
SatisfactionMonotone ==
    last \notin Excluded =>
        \A p \in DOMAIN before : SatView[p] <= before[p]

====
