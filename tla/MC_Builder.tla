----------------------------- MODULE MC_Builder -----------------------------
(***************************************************************************)
(* Repositories for the builder runs.  Services a, b and c have one       *)
(* instance each (a:i, b:j, c:k), installed in that order.                 *)
(***************************************************************************)
EXTENDS Builder

Svc3 == <<"a", "b", "c">>
Inst3 == [s \in {"a", "b", "c"} |->
            CASE s = "a" -> <<"a:i">> [] s = "b" -> <<"b:j">> [] OTHER -> <<"c:k">>]
Paths3 == {"a", "a:i", "b", "b:j", "c", "c:k"}

Grp(type, paths) == [type |-> type, restart_on |-> 4, paths |-> paths]
Repo(groups) == [svcs |-> Svc3, insts |-> Inst3, groups |-> groups]

\* Every repository where each instance declares at most one group, of
\* one path: no vertex has two dependencies to search.
OneEach ==
    LET choice == {<<>>} \cup {<<Grp(t, <<p>>)>> : t \in {"RequireAll", "ExcludeAll"},
                                                  p \in Paths3}
    IN  {Repo([v \in {"a:i", "b:j", "c:k"} |-> IF v = "a:i" THEN x
                                              ELSE IF v = "b:j" THEN y ELSE z]) :
           x \in choice, y \in choice, z \in choice}

\* a:i excludes c:k, then requires b:j; b:j requires a:i.  The search
\* from a:i stops at its ExcludeAll group and never looks at a:i#1.
ExcludeFirst ==
    {Repo(("a:i" :> <<Grp("ExcludeAll", <<"c:k">>), Grp("RequireAll", <<"b:j">>)>>)
          @@ ("b:j" :> <<Grp("RequireAll", <<"a:i">>)>>))}

=============================================================================
