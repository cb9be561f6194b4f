------------------------------ MODULE Builder ------------------------------
(***************************************************************************)
(* The graph builder of src/usr/src/agent/graphd/graph.c:                 *)
(* graph_install_service, then graph_setup_all's vtx_setup of every vertex *)
(* of the `graph` list, which for an instance runs vtx_update: for each   *)
(* dependency group, setup_depgroup creates the group vertex, adds the     *)
(* edge to it and, for each path the group names, setup_dep adds the edge *)
(* to the target and sets the target up, recursively.  Every edge is      *)
(* checked by vtx_dependency_add, which refuses it when vtx_is_reachable  *)
(* finds the source from the target.                                       *)
(*                                                                         *)
(* The recursion vtx_setup -> vtx_update -> setup_depgroup -> setup_dep -> *)
(* vtx_setup is an explicit stack of vtx_update frames, one action per    *)
(* step.  Each frame keeps its pathTo list only as whether it is empty:   *)
(* that is all vtx_is_reachable reads from it (its contents are only     *)
(* printed), and it is never emptied during the vtx_update call.          *)
(***************************************************************************)
EXTENDS Naturals, Sequences, SequencesExt, Graphs, TLC

CONSTANT Repos     \* the repositories the daemon may be given

(***************************************************************************)
(* A repository: its services in install order, each service's instance  *)
(* paths, and each instance's dependency groups in declaration order,     *)
(* [type, restart_on, paths].  Services' own groups are not listed: the   *)
(* service vertex is set up by graph_install_service, so vtx_setup never  *)
(* reads them.                                                             *)
(***************************************************************************)
VARIABLES
    repo,       \* the repository being loaded
    installed,  \* how many of its services graph_install_service has added
    order,      \* the `graph` vertex list, in vtx_find_or_add order
    dg_type,    \* v->dg_type of every vertex created
    edges,      \* every edge vtx_edge_add added, in order
    setup,      \* the vertices with is_setup
    idx,        \* graph_setup_all's position in the `graph` list
    stack,      \* the vtx_update frames under way, innermost first
    aborted     \* setup_dep's assert on the target path failed

vars == <<repo, installed, order, dg_type, edges, setup, idx, stack, aborted>>

Svcs == repo.svcs
Insts == UNION {Range(repo.insts[s]) : s \in Range(Svcs)}
GroupsOf(v) == IF v \in DOMAIN repo.groups THEN repo.groups[v] ELSE <<>>

\* make_depgroup_path(v->path, cnt): a path naming v's cnt-th group.
GroupVtx(v, cnt) == v \o "#" \o ToString(cnt)

\* vtx_find_or_add: append v to `graph` unless a vertex has its path.
FindOrAdd(ord, v) == IF v \in Range(ord) THEN ord ELSE Append(ord, v)

\* v->dependencies, in insertion order.
Deps(v) == LET es == SelectSeq(edges, LAMBDA e : e[1] = v)
           IN  [i \in DOMAIN es |-> es[i][2]]

(***************************************************************************)
(* vtx_is_reachable_internal(v, to, seen, pathTo).  The result: cont (the *)
(* value returned, "continue?"), found (to was reached, so pathTo is no   *)
(* longer empty) and the seen list after the call.  A vertex already     *)
(* seen, an ExcludeAll group and the target all return FALSE, and a       *)
(* FALSE from any child ends the parent's loop.  dg gives the groups'     *)
(* types.                                                                  *)
(***************************************************************************)
Visited(cont, found, seen) == [cont |-> cont, found |-> found, seen |-> seen]

RECURSIVE IsReachableInternal(_, _, _, _), ReachLoop(_, _, _, _, _)
IsReachableInternal(v, to, seen, dg) ==
    CASE v \in seen              -> Visited(FALSE, FALSE, seen)
      [] dg[v] = "ExcludeAll"    -> Visited(FALSE, FALSE, seen \cup {v})
      [] v = to                  -> Visited(FALSE, TRUE, seen \cup {v})
      [] OTHER -> ReachLoop(Deps(v), 1, to, Visited(TRUE, FALSE, seen \cup {v}), dg)

\* The loop over ds from index i on, with the result acc so far.
ReachLoop(ds, i, to, acc, dg) ==
    IF i > Len(ds) \/ ~acc.cont THEN acc
    ELSE ReachLoop(ds, i + 1, to,
                   LET r == IsReachableInternal(ds[i], to, acc.seen, dg)
                   IN  Visited(r.cont, acc.found \/ r.found, r.seen), dg)

\* vtx_is_reachable(from, to, pathTo): pathTo is not empty afterwards,
\* whether this search or an earlier one of the same frame filled it.
IsReachable(from, to, stale, dg) ==
    stale \/ IsReachableInternal(from, to, {}, dg).found

-----------------------------------------------------------------------------
TypeOK ==
    /\ installed \in 0..Len(Svcs)
    /\ order \in Seq(STRING)
    /\ DOMAIN dg_type = Range(order)
    /\ edges \in Seq(Range(order) \X Range(order))
    /\ setup \subseteq Range(order)
    /\ idx \in 1..(Len(order) + 1)
    /\ stack \in Seq([v : Insts, g : Nat, p : Nat, found : BOOLEAN])
    /\ aborted \in BOOLEAN

Init ==
    /\ repo \in Repos
    /\ installed = 0
    /\ order = <<>>
    /\ dg_type = [v \in {} |-> "RequireAll"]
    /\ edges = <<>>
    /\ setup = {}
    /\ idx = 1
    /\ stack = <<>>
    /\ aborted = FALSE

\* graph_install_service on the next service: the service vertex, and
\* unless it is set up already, a vertex for each instance (install_inst)
\* with the edge service -> instance, unchecked; the service is set up.
GraphInstallService ==
    /\ installed < Len(Svcs)
    /\ LET s == Svcs[installed + 1]
           is == repo.insts[s]
           ord == FindOrAdd(order, s)
       IN  IF s \in setup
           THEN /\ order' = ord
                /\ UNCHANGED <<dg_type, edges, setup>>
           ELSE /\ order' = FoldLeft(FindOrAdd, ord, is)
                /\ dg_type' = [v \in Range(order') |->
                                 IF v \in DOMAIN dg_type THEN dg_type[v]
                                 ELSE "RequireAll"]
                /\ edges' = edges \o [i \in DOMAIN is |-> <<s, is[i]>>]
                /\ setup' = setup \cup {s}
    /\ installed' = installed + 1
    /\ UNCHANGED <<repo, idx, stack, aborted>>

\* A vtx_update frame for v (an instance: services are set up when
\* installed and groups have nothing to update).
Frame(v) == [v |-> v, g |-> 1, p |-> 0, found |-> FALSE]
\* Mutant: vtx_update without its early return for other vertices.
PushAny(v) == <<Frame(v)>>
Push(v) == IF v \in Insts THEN <<Frame(v)>> ELSE <<>>

\* Mutant: the list iterator not advanced past a vertex already set up.
VtxSetupStuck ==
    /\ ~aborted /\ installed = Len(Svcs) /\ stack = <<>>
    /\ idx <= Len(order)
    /\ LET v == order[idx] IN
       IF v \in setup THEN UNCHANGED <<setup, stack, idx>>
       ELSE /\ setup' = setup \cup {v}
            /\ stack' = Push(v)
            /\ idx' = idx + 1
    /\ UNCHANGED <<repo, installed, order, dg_type, edges, aborted>>

\* graph_setup_all: vtx_setup on the next vertex of `graph`, a list that
\* grows as groups are created.  vtx_setup marks the vertex set up (and
\* enabled) before vtx_update runs.
VtxSetup ==
    /\ ~aborted /\ installed = Len(Svcs) /\ stack = <<>>
    /\ idx <= Len(order)
    /\ LET v == order[idx] IN
       IF v \in setup THEN UNCHANGED <<setup, stack>>
       ELSE /\ setup' = setup \cup {v}
            /\ stack' = Push(v)
    /\ idx' = idx + 1
    /\ UNCHANGED <<repo, installed, order, dg_type, edges, aborted>>

Top == Head(stack)
Group == GroupsOf(Top.v)[Top.g]
GroupVertex == GroupVtx(Top.v, Top.g - 1)

\* setup_depgroup, first part: vtx_find_or_add the group vertex, then
\* vtx_dependency_add(v, dgv), whose result is ignored.
SetupDepgroup ==
    /\ ~aborted /\ stack # <<>>
    /\ Top.p = 0 /\ Top.g <= Len(GroupsOf(Top.v))
    /\ LET dgv == GroupVertex
           dg == IF dgv \in DOMAIN dg_type THEN dg_type
                 ELSE dg_type @@ (dgv :> Group.type)
           cyclic == IsReachable(dgv, Top.v, Top.found, dg)
       IN  /\ order' = FindOrAdd(order, dgv)
           /\ dg_type' = dg
           /\ edges' = IF cyclic THEN edges ELSE Append(edges, <<Top.v, dgv>>)
           /\ stack' = <<[Top EXCEPT !.p = 1, !.found = cyclic]>> \o Tail(stack)
    /\ UNCHANGED <<repo, installed, setup, idx, aborted>>

\* Mutants of setup_dep: the cycle check asked the wrong way round, and
\* vtx_setup entered again on a target already set up.
SetupDepSwapped ==
    /\ ~aborted /\ stack # <<>>
    /\ Top.p >= 1 /\ Top.p <= Len(Group.paths)
    /\ LET t == Group.paths[Top.p]
           dgv == GroupVertex
       IN  IF t \notin Range(order)
           THEN /\ aborted' = TRUE
                /\ UNCHANGED <<edges, setup, stack>>
           ELSE LET cyclic == IsReachable(dgv, t, Top.found, dg_type) IN
                IF cyclic
                THEN /\ stack' = <<[Top EXCEPT !.g = @ + 1, !.p = 0,
                                               !.found = TRUE]>> \o Tail(stack)
                     /\ UNCHANGED <<edges, setup, aborted>>
                ELSE /\ edges' = Append(edges, <<dgv, t>>)
                     /\ setup' = setup \cup {t}
                     /\ stack' = (IF t \in setup THEN <<>> ELSE Push(t))
                                 \o <<[Top EXCEPT !.p = @ + 1]>> \o Tail(stack)
                     /\ UNCHANGED aborted
    /\ UNCHANGED <<repo, installed, order, dg_type, idx>>

\* setup_dep on the group's next path: the target must exist (assert);
\* vtx_dependency_add(dgv, target); a cycle ends setup_depgroup with an
\* error and vtx_update goes on with the next group; otherwise the
\* target is set up (vtx_setup) before the next path.
SetupDep ==
    /\ ~aborted /\ stack # <<>>
    /\ Top.p >= 1 /\ Top.p <= Len(Group.paths)
    /\ LET t == Group.paths[Top.p]
           dgv == GroupVertex
       IN  IF t \notin Range(order)
           THEN /\ aborted' = TRUE
                /\ UNCHANGED <<edges, setup, stack>>
           ELSE LET cyclic == IsReachable(t, dgv, Top.found, dg_type) IN
                IF cyclic
                THEN /\ stack' = <<[Top EXCEPT !.g = @ + 1, !.p = 0,
                                               !.found = TRUE]>> \o Tail(stack)
                     /\ UNCHANGED <<edges, setup, aborted>>
                ELSE /\ edges' = Append(edges, <<dgv, t>>)
                     /\ setup' = setup \cup {t}
                     /\ stack' = (IF t \in setup THEN <<>> ELSE Push(t))
                                 \o <<[Top EXCEPT !.p = @ + 1]>> \o Tail(stack)
                     /\ UNCHANGED aborted
    /\ UNCHANGED <<repo, installed, order, dg_type, idx>>

\* setup_depgroup returns 0 once every path is set up.
DepgroupDone ==
    /\ ~aborted /\ stack # <<>>
    /\ Top.p >= 1 /\ Top.p > Len(Group.paths)
    /\ stack' = <<[Top EXCEPT !.g = @ + 1, !.p = 0]>> \o Tail(stack)
    /\ UNCHANGED <<repo, installed, order, dg_type, edges, setup, idx, aborted>>

\* vtx_update returns after its last group.
VtxUpdateDone ==
    /\ ~aborted /\ stack # <<>>
    /\ Top.p = 0 /\ Top.g > Len(GroupsOf(Top.v))
    /\ stack' = Tail(stack)
    /\ UNCHANGED <<repo, installed, order, dg_type, edges, setup, idx, aborted>>

Next ==
    \/ GraphInstallService
    \/ VtxSetup
    \/ SetupDepgroup
    \/ SetupDep
    \/ DepgroupDone
    \/ VtxUpdateDone

\* The builder is one sequential call chain.
Spec == Init /\ [][Next]_vars /\ WF_vars(Next)

\* graph_setup_all has visited every vertex of `graph`.
Finished == installed = Len(Svcs) /\ stack = <<>> /\ idx > Len(order)

-----------------------------------------------------------------------------
(***************************************************************************)
(* The reference: the graph as the spec reads it (section 8.2), where an   *)
(* ExcludeAll group is no dependency, so its edges do not count towards a *)
(* cycle.  RefReach(x) is what x reaches along the other vertices.         *)
(***************************************************************************)
RefGraph ==
    LET ns == {v \in Range(order) : dg_type[v] # "ExcludeAll"}
    IN  [node |-> ns, edge |-> {e \in Range(edges) : e[1] \in ns /\ e[2] \in ns}]

\* The vertices reachable from S in G.
RECURSIVE ReachFrom(_, _)
ReachFrom(G, S) ==
    LET N == S \cup AllSuccessors(G, S) IN IF N = S THEN S ELSE ReachFrom(G, N)

RefReach(x) == IF x \in RefGraph.node THEN ReachFrom(RefGraph, {x}) ELSE {}

\* Adding u -> w would close a cycle of the built graph.
Closes(u, w) == u \in RefReach(w)

\* The built graph has no cycle outside ExcludeAll groups: every edge
\* that would close one was refused by vtx_dependency_add (spec 8.2,
\* "cycles are rejected at insertion").
NoCycleAccepted == \A e \in RefGraph.edge : ~Closes(e[1], e[2])

\* graph_setup_all returns: every vtx_update call ends.
SetupTerminates == <>(Finished \/ aborted)

=============================================================================
