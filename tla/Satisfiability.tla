--------------------------- MODULE Satisfiability ---------------------------
(***************************************************************************)
(* The satisfiability evaluator of src/usr/src/agent/graphd/graph.c        *)
(* (vtx_satisfies, depgroup_is_satisfied and the three vtx_inst_satisfies  *)
(* rules), as recursive operators over the built graph and the instances'  *)
(* state, followed by the definition spec section 4.3 gives, to check the  *)
(* code against.                                                           *)
(*                                                                         *)
(* The code asserts that optional and exclusion rules are only applied to *)
(* instances; the build relies on assert (setup_dep finds its vertex       *)
(* inside one), so a failing assertion aborts the daemon: the result       *)
(* ABORT.                                                                  *)
(***************************************************************************)
EXTENDS GraphStore

VARIABLES
    st,           \* v->state
    is_setup,     \* v->is_setup
    is_enabled    \* v->is_enabled

VtxState == {"Uninitialised", "Disabled", "Offline", "Online", "Degraded",
             "Maintenance"}

\* satisfied_t, with its C values, and ABORT for a failed assert.
SATISFIED == 0
UNSATISFIED == 1
UNSATISFIABLE == 2
ABORT == 3
Result == SATISFIED..ABORT

\* vtx_is_running
Running(v) == st[v] \in {"Online", "Degraded"}

(***************************************************************************)
(* The per-child steps are tables, so that each child's result is looked  *)
(* at once.                                                                *)
(***************************************************************************)
\* Mutant: a later UNSATISFIED child overwrites an earlier UNSATISFIABLE.
AllStepLastWins ==
    [p \in Result \X Result |->
        IF ABORT \in {p[1], p[2]} THEN ABORT
        ELSE IF p[2] = SATISFIED THEN p[1] ELSE p[2]]

\* The step of the RequireAll, OptionalAll and ExcludeAll folds:
\* if (esat != SATISFIED) sat = (sat == UNSATISFIABLE) ? UNSATISFIABLE : esat;
\* an abort ends the fold.
AllStep ==
    [p \in Result \X Result |->
        LET sat == p[1]  esat == p[2] IN
        CASE ABORT \in {sat, esat}   -> ABORT
          [] esat = SATISFIED        -> sat
          [] sat = UNSATISFIABLE     -> UNSATISFIABLE
          [] OTHER                   -> esat]

\* The RequireAny loop keeps its accumulator in a bool: any non-zero value
\* stored there reads back as 1, UNSATISFIED.  What the loop does with a
\* child's result esat given the accumulator sat: return a value, or go on
\* with a new accumulator.
AnyStep ==
    [p \in Result \X BOOLEAN |->
        LET esat == p[1]  sat == p[2] IN
        CASE esat \in {SATISFIED, ABORT} -> [done |-> TRUE, val |-> esat]
          [] esat = UNSATISFIED -> [done |-> FALSE, val |-> TRUE]
          [] OTHER              -> [done |-> FALSE, val |-> sat]]

FromBool(b) == IF b THEN UNSATISFIED ELSE SATISFIED

\* What an Offline instance gives when recursing, as a required and as an
\* optional target, from the result of its own groups.
RequiredOffline == [d \in Result |-> IF d \in {ABORT, UNSATISFIABLE} THEN d
                                                                    ELSE UNSATISFIED]
OptionalOffline == [d \in Result |-> CASE d = ABORT         -> ABORT
                                       [] d = UNSATISFIABLE -> SATISFIED
                                       [] OTHER             -> UNSATISFIED]

\* The targets OptionalAll / ExcludeAll groups evaluate, in order: each
\* instance target, and for a service target one entry per element of the
\* service's own dependencies list, which names ddv for OptionalAll and the
\* service dv itself for ExcludeAll.  A group target fails the assert.
Item(abort, v) == [abort |-> abort, v |-> v]
TargetItems(v, exclusion) ==
    Concat([i \in DOMAIN Dependencies(v) |->
              LET dv == Dependencies(v)[i] IN
              CASE Store.type[dv] = "depgroup" -> <<Item(TRUE, dv)>>
                [] Store.type[dv] = "inst"     -> <<Item(FALSE, dv)>>
                [] OTHER -> [j \in DOMAIN Dependencies(dv) |->
                               Item(FALSE, IF exclusion THEN dv
                                           ELSE Dependencies(dv)[j])]])
OptionalItems == [v \in Vtx |-> TargetItems(v, FALSE)]
ExclusionItems == [v \in Vtx |-> TargetItems(v, TRUE)]

RECURSIVE VtxSatisfies(_, _), DepgroupIsSatisfied(_, _), AnyScan(_, _, _, _),
          AnyGoOn(_, _, _, _), DepgroupOptionalAsExclusion(_, _),
          FoldRequired(_, _, _, _), FoldOptional(_, _, _, _),
          FoldExclusion(_, _, _)

\* vtx_inst_satisfies
InstSatisfies(v, recurse) ==
    IF ~is_setup[v] \/ ~is_enabled[v] THEN UNSATISFIABLE
    ELSE CASE st[v] = "Uninitialised"              -> UNSATISFIED
           [] st[v] \in {"Disabled", "Maintenance"} -> UNSATISFIABLE
           [] st[v] \in {"Online", "Degraded"}      -> SATISFIED
           [] st[v] = "Offline" /\ ~recurse        -> UNSATISFIED
           [] OTHER -> RequiredOffline[DepgroupIsSatisfied(v, recurse)]

\* vtx_inst_satisfies_optional (asserts an instance)
InstSatisfiesOptional(v, recurse) ==
    CASE Store.type[v] # "inst"              -> ABORT
      [] ~is_setup[v]                        -> SATISFIED
      [] st[v] = "Uninitialised"             -> UNSATISFIED
      [] st[v] = "Offline" /\ ~recurse       -> UNSATISFIED
      [] st[v] = "Offline" -> OptionalOffline[DepgroupIsSatisfied(v, recurse)]
      [] OTHER                               -> SATISFIED

\* vtx_inst_satisfies_exclusion (asserts an instance)
InstSatisfiesExclusion(v) ==
    CASE Store.type[v] # "inst"                     -> ABORT
      [] ~is_setup[v]                               -> SATISFIED
      [] st[v] \in {"Uninitialised", "Offline"}     -> UNSATISFIED
      [] st[v] \in {"Maintenance", "Disabled"}      -> SATISFIED
      [] is_enabled[v]                              -> UNSATISFIABLE
      [] OTHER                                      -> UNSATISFIED

\* vtx_satisfies
VtxSatisfies(v, recurse) ==
    IF Store.type[v] = "inst" THEN InstSatisfies(v, recurse)
                              ELSE DepgroupIsSatisfied(v, recurse)

\* The RequireAny loop over the children ch from index i on, with the
\* accumulator sat; `step` is what it does with child i.
AnyScan(ch, i, sat, recurse) ==
    IF i > Len(ch) THEN FromBool(sat)
    ELSE AnyGoOn(ch, i, AnyStep[VtxSatisfies(ch[i], recurse), sat], recurse)

AnyGoOn(ch, i, step, recurse) ==
    IF step.done THEN step.val ELSE AnyScan(ch, i + 1, step.val, recurse)

\* The RequireAll, OptionalAll and ExcludeAll loops from index i on, with
\* the result sat so far.
FoldRequired(ch, i, sat, recurse) ==
    IF i > Len(ch) THEN sat
    ELSE FoldRequired(ch, i + 1, AllStep[sat, VtxSatisfies(ch[i], recurse)],
                      recurse)

FoldOptional(items, i, sat, recurse) ==
    IF i > Len(items) THEN sat
    ELSE FoldOptional(items, i + 1,
                      AllStep[sat, IF items[i].abort THEN ABORT
                                   ELSE InstSatisfiesOptional(items[i].v, recurse)],
                      recurse)

FoldExclusion(items, i, sat) ==
    IF i > Len(items) THEN sat
    ELSE FoldExclusion(items, i + 1,
                       AllStep[sat, IF items[i].abort THEN ABORT
                                    ELSE InstSatisfiesExclusion(items[i].v)])

\* Mutant: the OptionalAll branch, copied from ExcludeAll, keeps its rule.
DepgroupOptionalAsExclusion(v, recurse) ==
    CASE Store.dg_type[v] = "RequireAll" ->
           FoldRequired(Dependencies(v), 1, SATISFIED, recurse)
      [] Store.dg_type[v] = "RequireAny" ->
           IF Dependencies(v) = <<>> THEN SATISFIED
           ELSE AnyScan(Dependencies(v), 1, TRUE, recurse)
      [] Store.dg_type[v] = "OptionalAll" ->
           FoldExclusion(OptionalItems[v], 1, SATISFIED)
      [] Store.dg_type[v] = "ExcludeAll" ->
           FoldExclusion(ExclusionItems[v], 1, SATISFIED)

\* depgroup_is_satisfied (also used on instances and services, whose
\* dg_type is RequireAll).  RequireAny starts its bool accumulator at
\* UNSATISFIABLE, which reads back as TRUE.
DepgroupIsSatisfied(v, recurse) ==
    CASE Store.dg_type[v] = "RequireAll" ->
           FoldRequired(Dependencies(v), 1, SATISFIED, recurse)
      [] Store.dg_type[v] = "RequireAny" ->
           IF Dependencies(v) = <<>> THEN SATISFIED
           ELSE AnyScan(Dependencies(v), 1, TRUE, recurse)
      [] Store.dg_type[v] = "OptionalAll" ->
           FoldOptional(OptionalItems[v], 1, SATISFIED, recurse)
      [] Store.dg_type[v] = "ExcludeAll" ->
           FoldExclusion(ExclusionItems[v], 1, SATISFIED)

\* vtx_inst_can_come_up, with the admin intent flags passed in (they are
\* state of the propagation engine).
InstCanComeUp(v, to_offline, to_disable) ==
    /\ is_enabled[v] /\ ~to_offline /\ ~to_disable
    /\ DepgroupIsSatisfied(v, TRUE) = SATISFIED

(***************************************************************************)
(* The evaluator as spec section 4.3 defines it: sets and quantifiers      *)
(* rather than the code's folds, with Service targets of OptionalAll and   *)
(* ExcludeAll expanded to the service's instances.                         *)
(***************************************************************************)
Kids(v) == {Dependencies(v)[i] : i \in DOMAIN Dependencies(v)}

\* The instances an OptionalAll / ExcludeAll target stands for.
TargetInsts(t) ==
    IF Store.type[t] = "svc" THEN {w \in Kids(t) : Store.type[w] = "inst"}
                             ELSE {t}

\* The fold of RequireAll, OptionalAll and ExcludeAll as a set rule.
AllOf(S) ==
    CASE UNSATISFIABLE \in S -> UNSATISFIABLE
      [] UNSATISFIED \in S   -> UNSATISFIED
      [] OTHER                 -> SATISFIED

AnyOf(S) ==
    CASE S = {}                -> SATISFIED
      [] SATISFIED \in S     -> SATISFIED
      [] UNSATISFIED \in S   -> UNSATISFIED
      [] OTHER                 -> UNSATISFIABLE

RECURSIVE RefVtx(_, _), RefGroup(_, _)

RefInst(v, recurse) ==
    IF ~is_setup[v] \/ ~is_enabled[v] THEN UNSATISFIABLE
    ELSE CASE st[v] \in {"Disabled", "Maintenance"} -> UNSATISFIABLE
           [] st[v] \in {"Online", "Degraded"}      -> SATISFIED
           [] st[v] = "Offline" /\ recurse
                /\ RefGroup(v, recurse) = UNSATISFIABLE -> UNSATISFIABLE
           [] OTHER                                 -> UNSATISFIED

RefOptional(v, recurse) ==
    IF ~is_setup[v] THEN SATISFIED
    ELSE CASE st[v] = "Uninitialised" -> UNSATISFIED
           [] st[v] = "Offline" ->
                IF recurse /\ RefGroup(v, recurse) = UNSATISFIABLE
                THEN SATISFIED ELSE UNSATISFIED
           [] OTHER -> SATISFIED

RefExclusion(v) ==
    IF ~is_setup[v] THEN SATISFIED
    ELSE CASE st[v] \in {"Online", "Degraded"} ->
                IF is_enabled[v] THEN UNSATISFIABLE ELSE UNSATISFIED
           [] st[v] \in {"Uninitialised", "Offline"} -> UNSATISFIED
           [] OTHER -> SATISFIED

RefVtx(v, recurse) ==
    IF Store.type[v] = "inst" THEN RefInst(v, recurse) ELSE RefGroup(v, recurse)

RefGroup(v, recurse) ==
    LET targets == UNION {TargetInsts(t) : t \in Kids(v)} IN
    CASE Store.dg_type[v] = "RequireAll" ->
           AllOf({RefVtx(w, recurse) : w \in Kids(v)})
      [] Store.dg_type[v] = "RequireAny" ->
           AnyOf({RefVtx(w, recurse) : w \in Kids(v)})
      [] Store.dg_type[v] = "OptionalAll" ->
           AllOf({RefOptional(w, recurse) : w \in targets})
      [] Store.dg_type[v] = "ExcludeAll" ->
           AllOf({RefExclusion(w) : w \in targets})

=============================================================================
