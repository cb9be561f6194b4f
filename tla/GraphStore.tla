----------------------------- MODULE GraphStore -----------------------------
(***************************************************************************)
(* The vertex/edge store of src/usr/src/agent/graphd/graph.c once the      *)
(* graph has been built: the vertices (services, instances and dependency *)
(* groups) with their kind, group type and restart-on condition, and the  *)
(* dependency edges in the order vtx_edge_add inserted them.  Each edge    *)
(* u -> v sits in u's `dependencies` list and, mirrored, in v's            *)
(* `dependents` list, both insertion-ordered; traversals follow that order.*)
(***************************************************************************)
EXTENDS Naturals, Sequences, SequencesExt

CONSTANT Store     \* [vtx, type, dg_type, restart_on, edges, order]

VertexType == {"svc", "inst", "depgroup"}
GroupType == {"RequireAll", "RequireAny", "OptionalAll", "ExcludeAll"}

\* S16DependencyGroupRestartOnCondition, in its declaration order.
RestartOnNone == 0
RestartOnError == 1
RestartOnRestart == 2
RestartOnRefresh == 3
RestartOnAny == 4

Vtx == Store.vtx

ASSUME /\ Store.type \in [Vtx -> VertexType]
       /\ Store.dg_type \in [Vtx -> GroupType]
       /\ Store.restart_on \in [Vtx -> RestartOnNone..RestartOnAny]
       /\ Store.edges \in Seq(Vtx \X Vtx)
       /\ Store.order \in Seq(Vtx)

Inst == {v \in Vtx : Store.type[v] = "inst"}

\* The instances in the order of the `graph` vertex list (install order).
InstOrder == SelectSeq(Store.order, LAMBDA v : v \in Inst)

\* v->dependencies: the targets of v's edges, in insertion order.
DependenciesOf ==
    [v \in Vtx |-> LET es == SelectSeq(Store.edges, LAMBDA e : e[1] = v)
                   IN  [i \in DOMAIN es |-> es[i][2]]]

\* v->dependents: the sources of the edges into v, in insertion order.
DependentsOf ==
    [v \in Vtx |-> LET es == SelectSeq(Store.edges, LAMBDA e : e[2] = v)
                   IN  [i \in DOMAIN es |-> es[i][1]]]

\* The concatenation of a sequence of sequences.
RECURSIVE ConcatFrom(_, _)
ConcatFrom(seqs, i) ==
    IF i > Len(seqs) THEN <<>> ELSE seqs[i] \o ConcatFrom(seqs, i + 1)
Concat(seqs) == ConcatFrom(seqs, 1)

Dependencies(v) == DependenciesOf[v]
Dependents(v) == DependentsOf[v]

=============================================================================
