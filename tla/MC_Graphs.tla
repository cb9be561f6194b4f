------------------------------ MODULE MC_Graphs ------------------------------
(***************************************************************************)
(* Built graphs for the model-checking runs.  Each is the graph            *)
(* graph_install_service and graph_setup_all produce from a small          *)
(* repository: service s with instance s:x gets the edge s -> s:x, and the *)
(* n-th dependency group declared by an instance is the vertex "s:x#n"    *)
(* with the edge s:x -> s:x#n and one edge to each target it names.        *)
(* Services' own groups never get edges: graph_install_service marks the  *)
(* service set up, so vtx_setup returns before reading them.  Services,    *)
(* instances and groups are all RestartOnAny unless a group says          *)
(* otherwise; `order` is the install order of the `graph` list.           *)
(***************************************************************************)
EXTENDS Naturals, TLC

\* groups: group vertex -> <<dg_type, restart_on>>.
MkStore(order, svcs, groups, edges) ==
    LET insts == {v \in {order[i] : i \in DOMAIN order} : v \notin svcs}
        vs == svcs \cup insts \cup DOMAIN groups
    IN
    [vtx        |-> vs,
     type       |-> [v \in vs |-> IF v \in svcs THEN "svc"
                                  ELSE IF v \in insts THEN "inst"
                                  ELSE "depgroup"],
     dg_type    |-> [v \in vs |-> IF v \in DOMAIN groups THEN groups[v][1]
                                                         ELSE "RequireAll"],
     restart_on |-> [v \in vs |-> IF v \in DOMAIN groups THEN groups[v][2]
                                                         ELSE 4],
     edges      |-> edges,
     order      |-> order]

\* a:i requires b:j and every instance of c, optionally uses c:k; b:j
\* requires d:l; c:k excludes d:l.
CoreGraph ==
    MkStore(<<"a", "a:i", "b", "b:j", "c", "c:k", "d", "d:l">>,
            {"a", "b", "c", "d"},
            ("a:i#0" :> <<"RequireAll", 4>>) @@ ("a:i#1" :> <<"OptionalAll", 4>>)
              @@ ("b:j#0" :> <<"RequireAll", 4>>)
              @@ ("c:k#0" :> <<"ExcludeAll", 4>>),
            << <<"a", "a:i">>, <<"b", "b:j">>, <<"c", "c:k">>, <<"d", "d:l">>,
               <<"a:i", "a:i#0">>, <<"a:i#0", "b:j">>, <<"a:i#0", "c">>,
               <<"a:i", "a:i#1">>, <<"a:i#1", "c:k">>,
               <<"b:j", "b:j#0">>, <<"b:j#0", "d:l">>,
               <<"c:k", "c:k#0">>, <<"c:k#0", "d:l">> >>)

\* a:i requires any of b:j and c:k.
AnyGraph ==
    MkStore(<<"a", "a:i", "b", "b:j", "c", "c:k">>, {"a", "b", "c"},
            "a:i#0" :> <<"RequireAny", 4>>,
            << <<"a", "a:i">>, <<"b", "b:j">>, <<"c", "c:k">>,
               <<"a:i", "a:i#0">>, <<"a:i#0", "b:j">>, <<"a:i#0", "c:k">> >>)

\* a:i requires b:j (restart on Restart or more) and optionally uses c:k;
\* b:j requires c:k but restarts only on Error.
ChainGraph ==
    MkStore(<<"a", "a:i", "b", "b:j", "c", "c:k">>, {"a", "b", "c"},
            ("a:i#0" :> <<"RequireAll", 2>>) @@ ("a:i#1" :> <<"OptionalAll", 4>>)
              @@ ("b:j#0" :> <<"RequireAll", 1>>),
            << <<"a", "a:i">>, <<"b", "b:j">>, <<"c", "c:k">>,
               <<"a:i", "a:i#0">>, <<"a:i#0", "b:j">>,
               <<"a:i", "a:i#1">>, <<"a:i#1", "c:k">>,
               <<"b:j", "b:j#0">>, <<"b:j#0", "c:k">> >>)

\* a:i and b:j exclude each other.
MutualExclusionGraph ==
    MkStore(<<"a", "a:i", "b", "b:j">>, {"a", "b"},
            ("a:i#0" :> <<"ExcludeAll", 4>>) @@ ("b:j#0" :> <<"ExcludeAll", 4>>),
            << <<"a", "a:i">>, <<"b", "b:j">>,
               <<"a:i", "a:i#0">>, <<"a:i#0", "b:j">>,
               <<"b:j", "b:j#0">>, <<"b:j#0", "a:i">> >>)

=============================================================================
